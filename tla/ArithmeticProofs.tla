--------------------------- MODULE ArithmeticProofs ---------------------------
(***************************************************************************)
(* Induction, recursion and folds as facts about sets and functions, which *)
(* the provers can instantiate; then powers, division, sums and bits.      *)
(***************************************************************************)
EXTENDS Arithmetic, FiniteSetsExt, FiniteSetTheorems, WellFoundedInduction, TLAPS

-----------------------------------------------------------------------------
(* Induction and recursion.                                                *)

\* The least element of a set of numbers exists.
LEMMA LeastExists ==
  ASSUME NEW T, T \subseteq Nat, T # {}
  PROVE  \E x \in T : \A y \in T : x <= y
<1>1. PICK x \in T : \A y \in T : ~ (<<y, x>> \in OpToRel(<, Nat))
  BY NatLessThanWellFounded, WFMin
<1>2. \A y \in T : ~ (y < x)
  BY <1>1 DEF OpToRel
<1> QED BY <1>2

\* ... and the greatest of some numbers up to n.
LEMMA GreatestExists ==
  ASSUME NEW n \in Nat, NEW T, T \subseteq 1..n, T # {}
  PROVE  \E x \in T : \A y \in T : x >= y
<1> DEFINE U == {m \in Nat : \E x \in T : m = n - x}
<1>1. U \subseteq Nat /\ U # {}
  <2>1. PICK x \in T : TRUE
    OBVIOUS
  <2>2. n - x \in Nat
    OBVIOUS
  <2>3. n - x \in U
    BY <2>2
  <2> QED BY <2>3
<1>2. PICK u \in U : \A v \in U : u <= v
  <2> HIDE DEF U
  <2> QED BY <1>1, LeastExists
<1>3. PICK x \in T : u = n - x
  OBVIOUS
<1>4. ASSUME NEW y \in T PROVE x >= y
  <2>1. n - y \in U
    OBVIOUS
  <2>2. n - x <= n - y
    BY <1>2, <1>3, <2>1
  <2> QED BY <2>2
<1> QED BY <1>4

\* the greatest element of a set of numbers
LEMMA MaxIsGreatest ==
  ASSUME NEW n \in Nat, NEW T, T \subseteq 1..n, T # {}
  PROVE  Max(T) \in T /\ \A y \in T : Max(T) >= y
<1>1. \E x \in T : \A y \in T : x >= y
  BY GreatestExists
<1> QED BY <1>1 DEF Max

\* a set of numbers that has zero and every next one has all
LEMMA Induction ==
  ASSUME NEW T, T \subseteq Nat, 0 \in T, \A n \in T : n + 1 \in T
  PROVE  T = Nat
<1>1. SUFFICES ASSUME Nat \ T # {} PROVE FALSE
  OBVIOUS
<1>2. PICK x \in Nat \ T : \A y \in Nat \ T : x <= y
  BY <1>1, LeastExists
<1>3. x - 1 \in T
  BY <1>2
<1> QED BY <1>2, <1>3

\* f has the first value and then those that F makes of the last
Follows(f, first, F) == f[0] = first /\ \A n \in Nat : f[n + 1] = F[n][f[n]]

\* Primitive recursion: what is first and what follows define a function.
LEMMA Recursion ==
  ASSUME NEW S, NEW first \in S, NEW F, F \in [Nat -> [S -> S]]
  PROVE  \E f \in [Nat -> S] : Follows(f, first, F)
<1> DEFINE Upto(g, n) == g[0] = first /\ \A i \in 0..(n - 1) : g[i + 1] = F[i][g[i]]
           T == {n \in Nat : \E g \in [0..n -> S] : Upto(g, n)}
<1>1. 0 \in T
  <2>1. [i \in 0..0 |-> first] \in [0..0 -> S] /\ Upto([i \in 0..0 |-> first], 0)
    OBVIOUS
  <2> QED BY <2>1
<1>2. ASSUME NEW n \in T PROVE n + 1 \in T
  <2>1. PICK g \in [0..n -> S] : Upto(g, n)
    OBVIOUS
  <2> DEFINE h == [i \in 0..(n + 1) |-> IF i <= n THEN g[i] ELSE F[n][g[n]]]
  <2>2. F[n][g[n]] \in S
    OBVIOUS
  <2>3. h \in [0..(n + 1) -> S]
    BY <2>2
  <2>4. h[0] = first
    BY <2>1
  <2>5. ASSUME NEW i \in 0..n PROVE h[i + 1] = F[i][h[i]]
    <3>1. CASE i < n
      BY <2>1, <3>1
    <3>2. CASE i = n
      BY <3>2
    <3> QED BY <3>1, <3>2
  <2> HIDE DEF h
  <2>6. Upto(h, n + 1)
    BY <2>4, <2>5
  <2> HIDE DEF Upto
  <2> QED BY <2>3, <2>6
<1>3. T = Nat
  <2> HIDE DEF T
  <2>1. T \subseteq Nat
    BY DEF T
  <2> QED BY <1>1, <1>2, <2>1, Induction
<1>4. ASSUME NEW n \in Nat, NEW g \in [0..n -> S], Upto(g, n),
             NEW m \in Nat, NEW h \in [0..m -> S], Upto(h, m)
      PROVE  \A i \in 0..n : i <= m => g[i] = h[i]
  <2> DEFINE U == {i \in Nat : i <= n /\ i <= m => g[i] = h[i]}
  <2>1. 0 \in U
    BY <1>4
  <2>2. ASSUME NEW i \in U PROVE i + 1 \in U
    BY <1>4, <2>2
  <2>3. U = Nat
    <3> HIDE DEF U
    <3>1. U \subseteq Nat
      BY DEF U
    <3> QED BY <2>1, <2>2, <3>1, Induction
  <2> QED BY <2>3
<1> DEFINE G(n) == CHOOSE g \in [0..n -> S] : Upto(g, n)
           f == [n \in Nat |-> G(n)[n]]
<1>5. ASSUME NEW n \in Nat PROVE G(n) \in [0..n -> S] /\ Upto(G(n), n)
  <2>1. \E g \in [0..n -> S] : Upto(g, n)
    BY <1>3
  <2> HIDE DEF Upto
  <2> QED BY <2>1
<1> HIDE DEF G
<1>6. f \in [Nat -> S]
  BY <1>5
<1>7. f[0] = first
  BY <1>5
<1>8. ASSUME NEW n \in Nat PROVE f[n + 1] = F[n][f[n]]
  <2>1. G(n + 1)[n + 1] = F[n][G(n + 1)[n]]
    BY <1>5
  <2>2. G(n + 1)[n] = G(n)[n]
    <3> HIDE DEF Upto
    <3>1. G(n + 1) \in [0..(n + 1) -> S] /\ Upto(G(n + 1), n + 1)
      BY <1>5
    <3>2. G(n) \in [0..n -> S] /\ Upto(G(n), n)
      BY <1>5
    <3>3. n + 1 \in Nat
      OBVIOUS
    <3>4. \A i \in 0..n : i <= n + 1 => G(n)[i] = G(n + 1)[i]
      BY <1>4, <3>1, <3>2, <3>3
    <3> QED BY <3>4
  <2> QED BY <2>1, <2>2
<1> HIDE DEF f
<1> QED BY <1>6, <1>7, <1>8 DEF Follows

-----------------------------------------------------------------------------
(* Folds.                                                                  *)

\* h folds the subsets of A: F is what is done with the element ch chooses
FoldsUp(h, A, base, ch, F) ==
  \A s \in SUBSET A : h[s] = IF s = {} THEN base ELSE F[ch[s]][h[s \ {ch[s]}]]

\* what is chosen from a set is in it
Chooses(ch, A) == \A s \in SUBSET A : s # {} => ch[s] \in s

\* A fold over a finite set is well defined.
LEMMA Folding ==
  ASSUME NEW A, IsFiniteSet(A), NEW V, NEW base \in V,
         NEW ch, Chooses(ch, A),
         NEW F, F \in [A -> [V -> V]]
  PROVE  \E h \in [SUBSET A -> V] : FoldsUp(h, A, base, ch, F)
<1> USE DEF Chooses
<1> DEFINE H == [SUBSET A -> V]
           Next(g) == [s \in SUBSET A |-> IF s = {} THEN base ELSE F[ch[s]][g[s \ {ch[s]}]]]
           first == [s \in SUBSET A |-> base]
           step == [n \in Nat |-> [g \in H |-> Next(g)]]
<1>1. first \in H
  OBVIOUS
<1>2. ASSUME NEW g \in H PROVE Next(g) \in H
  <2>1. ASSUME NEW s \in SUBSET A, s # {} PROVE F[ch[s]][g[s \ {ch[s]}]] \in V
    <3>1. ch[s] \in A /\ s \ {ch[s]} \in SUBSET A
      BY <2>1
    <3> QED BY <3>1
  <2> QED BY <2>1
<1>3. step \in [Nat -> [H -> H]]
  BY <1>2
<1>4. PICK G \in [Nat -> H] : G[0] = first /\ \A n \in Nat : G[n + 1] = step[n][G[n]]
  <2> HIDE DEF H, first, step
  <2>1. \E G \in [Nat -> H] : Follows(G, first, step)
    BY <1>1, <1>3, Recursion
  <2> QED BY <2>1 DEF Follows
<1>5. ASSUME NEW n \in Nat PROVE G[n + 1] = Next(G[n])
  BY <1>4
<1> DEFINE h == [s \in SUBSET A |-> G[Cardinality(s)][s]]
<1>6. ASSUME NEW s \in SUBSET A
      PROVE  IsFiniteSet(s) /\ Cardinality(s) \in Nat
  BY FS_Subset, FS_CardinalityType
<1>7. h \in [SUBSET A -> V]
  BY <1>4, <1>6
<1>8. ASSUME NEW s \in SUBSET A
      PROVE  h[s] = IF s = {} THEN base ELSE F[ch[s]][h[s \ {ch[s]}]]
  <2>1. CASE s = {}
    BY <1>4, <2>1, FS_EmptySet
  <2>2. CASE s # {}
    <3> DEFINE r == s \ {ch[s]}
    <3>1. r \in SUBSET A /\ ch[s] \in s
      BY <2>2
    <3>2. Cardinality(r) \in Nat /\ Cardinality(s) = Cardinality(r) + 1
      <4>1. IsFiniteSet(s) /\ Cardinality(s) \in Nat
        BY <1>6
      <4>2. Cardinality(s \ {ch[s]}) = Cardinality(s) - 1
        BY <3>1, <4>1, FS_RemoveElement
      <4>3. Cardinality(r) \in Nat
        BY <1>6, <3>1
      <4> QED BY <4>1, <4>2, <4>3
    <3>3. G[Cardinality(s)] = Next(G[Cardinality(r)])
      BY <1>5, <3>2
    <3>4. G[Cardinality(s)][s] = F[ch[s]][G[Cardinality(r)][r]]
      BY <2>2, <3>3
    <3>5. h[s] = G[Cardinality(s)][s] /\ h[r] = G[Cardinality(r)][r]
      BY <3>1
    <3> QED BY <2>2, <3>4, <3>5
  <2> QED BY <2>1, <2>2
<1> HIDE DEF h
<1> QED BY <1>7, <1>8 DEF FoldsUp

\* What holds of a finite set if it holds of all smaller parts of it holds of all.
LEMMA SubsetInduction ==
  ASSUME NEW A, IsFiniteSet(A), NEW T, T \subseteq SUBSET A,
         \A s \in SUBSET A : (\A x \in s : \A r \in SUBSET (s \ {x}) : r \in T) => s \in T
  PROVE  T = SUBSET A
<1> DEFINE U == {n \in Nat : \E s \in (SUBSET A) \ T : Cardinality(s) = n}
<1>1. ASSUME NEW s \in SUBSET A
      PROVE  IsFiniteSet(s) /\ Cardinality(s) \in Nat
  BY FS_Subset, FS_CardinalityType
<1>2. SUFFICES ASSUME NEW t \in SUBSET A, t \notin T PROVE FALSE
  OBVIOUS
<1>3. Cardinality(t) \in U
  BY <1>1, <1>2
<1>4. PICK n \in U : \A k \in U : n <= k
  <2>1. U \subseteq Nat /\ U # {}
    BY <1>3
  <2> HIDE DEF U
  <2> QED BY <2>1, LeastExists
<1>5. PICK s \in (SUBSET A) \ T : Cardinality(s) = n
  OBVIOUS
<1>6. ASSUME NEW x \in s, NEW r \in SUBSET (s \ {x}) PROVE r \in T
  <2>1. Cardinality(s \ {x}) = Cardinality(s) - 1 /\ IsFiniteSet(s \ {x})
    BY <1>1, FS_RemoveElement, FS_Subset
  <2>2. Cardinality(r) <= Cardinality(s \ {x}) /\ r \in SUBSET A
    BY <2>1, FS_Subset
  <2>3. Cardinality(r) \in Nat /\ Cardinality(r) < n
    BY <1>1, <1>5, <2>1, <2>2
  <2> QED BY <1>4, <2>2, <2>3
<1> QED BY <1>5, <1>6

\* ... and so if it holds of the set without the element chosen.
LEMMA ChoosingInduction ==
  ASSUME NEW A, IsFiniteSet(A), NEW ch, Chooses(ch, A),
         NEW T, T \subseteq SUBSET A, {} \in T,
         \A s \in SUBSET A : s # {} /\ s \ {ch[s]} \in T => s \in T
  PROVE  T = SUBSET A
<1>1. ASSUME NEW s \in SUBSET A, \A x \in s : \A r \in SUBSET (s \ {x}) : r \in T
      PROVE  s \in T
  <2>1. CASE s = {}
    BY <2>1
  <2>2. CASE s # {}
    <3>1. ch[s] \in s
      BY <2>2 DEF Chooses
    <3>2. s \ {ch[s]} \in T
      BY <1>1, <3>1
    <3> QED BY <2>2, <3>2
  <2> QED BY <2>1, <2>2
<1> QED BY <1>1, SubsetInduction

-----------------------------------------------------------------------------
(* Division and powers.                                                    *)

\* Division: quotient and remainder are what they are by one equation.
LEMMA Dividing ==
  ASSUME NEW x \in Int, NEW m \in Nat \ {0}
  PROVE  x \div m \in Int /\ x % m \in 0..(m - 1) /\ x = (x \div m) * m + (x % m)
OBVIOUS

\* quotient and remainder are the only ones
LEMMA Divided ==
  ASSUME NEW m \in Nat \ {0}, NEW q \in Int, NEW r \in 0..(m - 1), NEW x \in Int, x = q * m + r
  PROVE  x \div m = q /\ x % m = r
OBVIOUS

\* multiples of the divisor leave the remainder as it is
LEMMA ModOfMultiple ==
  ASSUME NEW m \in Nat \ {0}, NEW x \in Int, NEW k \in Int
  PROVE  (x + k * m) % m = x % m
<1> DEFINE q == x \div m
           r == x % m
<1>1. q \in Int /\ r \in 0..(m - 1) /\ x = q * m + r
  BY Dividing
<1> HIDE DEF q, r
<1>2. x + k * m = (q + k) * m + r
  BY <1>1
<1>3. x + k * m \in Int /\ q + k \in Int
  BY <1>1
<1>4. (x + k * m) % m = r
  BY <1>1, <1>2, <1>3, Divided
<1> QED BY <1>4 DEF r

\* ... and so does division of what is below the divisor
LEMMA ModSmall ==
  ASSUME NEW m \in Nat \ {0}, NEW x \in 0..(m - 1)
  PROVE  x % m = x
OBVIOUS

\* The bases a number is taken in.
LEMMA ModInside ==
  ASSUME NEW m \in Nat \ {0}, NEW x \in Int, NEW b \in Int, NEW c \in Int
  PROVE  ((x % m) * b + c) % m = (x * b + c) % m
<1> DEFINE q == x \div m
           r == x % m
<1>1. q \in Int /\ r \in Int /\ x = q * m + r
  BY Dividing
<1> HIDE DEF q, r
<1>2. x * b + c = (r * b + c) + (q * b) * m
  <2>1. x * b = (q * m) * b + r * b
    BY <1>1
  <2>2. (q * m) * b = (q * b) * m
    BY <1>1
  <2> QED BY <1>1, <2>1, <2>2
<1>3. r * b + c \in Int /\ q * b \in Int
  BY <1>1
<1>4. (x * b + c) % m = (r * b + c) % m
  <2>1. PICK y \in Int, k \in Int : y = r * b + c /\ k = q * b
    BY <1>3
  <2>2. (y + k * m) % m = y % m
    BY ModOfMultiple
  <2> QED BY <1>2, <2>1, <2>2
<1> QED BY <1>4 DEF r


\* powers as products
LEMMA PowerDef ==
  ASSUME NEW b \in Int
  PROVE  /\ Power(b, 0) = 1
         /\ \A k \in Nat : Power(b, k) \in Int /\ Power(b, k + 1) = b * Power(b, k)
<1> DEFINE P == CHOOSE Q : Q = [i \in Nat |-> IF i = 0 THEN 1 ELSE b * Q[i - 1]]
           F == [n \in Nat |-> [x \in Int |-> b * x]]
<1>1. F \in [Nat -> [Int -> Int]]
  OBVIOUS
<1>2. PICK f \in [Nat -> Int] : f[0] = 1 /\ \A n \in Nat : f[n + 1] = F[n][f[n]]
  <2> HIDE DEF F
  <2>1. PICK S, one : S = Int /\ one = 1
    OBVIOUS
  <2>2. one \in S /\ F \in [Nat -> [S -> S]]
    BY <1>1, <2>1
  <2>3. \E f \in [Nat -> S] : Follows(f, one, F)
    BY <2>2, Recursion
  <2>4. \E f \in [Nat -> Int] : Follows(f, 1, F)
    BY <2>1, <2>3
  <2> QED BY <2>4 DEF Follows
<1>3. \A n \in Nat : f[n + 1] = b * f[n]
  BY <1>2
<1>4. f = [i \in Nat |-> IF i = 0 THEN 1 ELSE b * f[i - 1]]
  <2>1. ASSUME NEW i \in Nat, i # 0 PROVE f[i] = b * f[i - 1]
    BY <1>3, <2>1
  <2> HIDE DEF F
  <2> QED BY <1>2, <2>1
<1>5. P = [i \in Nat |-> IF i = 0 THEN 1 ELSE b * P[i - 1]]
  BY <1>4
<1>6. \A k \in Nat : Power(b, k) = P[k]
  BY DEF Power
<1> HIDE DEF P
<1>7. P[0] = 1
  BY <1>5
<1>8. ASSUME NEW k \in Nat PROVE P[k + 1] = b * P[k]
  BY <1>5
<1> DEFINE T == {k \in Nat : P[k] \in Int}
<1>9. T = Nat
  <2>1. T \subseteq Nat /\ 0 \in T /\ \A k \in T : k + 1 \in T
    BY <1>7, <1>8
  <2> HIDE DEF T
  <2> QED BY <2>1, Induction
<1>10. ASSUME NEW k \in Nat PROVE Power(b, k) \in Int /\ Power(b, k + 1) = b * Power(b, k)
  <2>1. Power(b, k) = P[k] /\ Power(b, k + 1) = P[k + 1]
    BY <1>6
  <2>2. P[k] \in Int
    BY <1>9
  <2> QED BY <1>8, <2>1, <2>2
<1>11. Power(b, 0) = 1
  BY <1>6, <1>7
<1> QED BY <1>10, <1>11

-----------------------------------------------------------------------------
(* Sums and bits.                                                          *)

\* A sum over a finite set has a value for each subset, and does not depend on the
\* order of its elements.
SumsUp(h, A, w) ==
  /\ h[{}] = 0
  /\ \A s \in SUBSET A : \A x \in s : h[s] = w[x] + h[s \ {x}]
  /\ \A s \in SUBSET A : SumFunctionOnSet(w, s) = h[s]

\* MapThenFoldSet sums over a finite set element by element
LEMMA SumDef ==
  ASSUME NEW A, IsFiniteSet(A), NEW w, \A a \in A : w[a] \in Int
  PROVE  \E h \in [SUBSET A -> Int] : SumsUp(h, A, w)
<1> DEFINE ch == [s \in SUBSET A |-> CHOOSE x \in s : TRUE]
           F == [a \in A |-> [v \in Int |-> w[a] + v]]
<1>1. Chooses(ch, A)
  BY DEF Chooses
<1>2. F \in [A -> [Int -> Int]]
  OBVIOUS
<1>3. ASSUME NEW a \in A, NEW v \in Int PROVE F[a][v] = w[a] + v
  OBVIOUS
<1>4. ASSUME NEW s \in SUBSET A PROVE ch[s] = CHOOSE x \in s : TRUE
  OBVIOUS
<1> HIDE DEF ch, F
<1>5. ASSUME NEW B \in SUBSET A
      PROVE \E h \in [SUBSET B -> Int] : FoldsUp(h, B, 0, ch, F)
  <2>1. PICK V, z : V = Int /\ z = 0
    OBVIOUS
  <2>2. IsFiniteSet(B) /\ Chooses(ch, B)
    BY <1>1, FS_Subset DEF Chooses
  <2> DEFINE FB == [a \in B |-> F[a]]
  <2>3. FB \in [B -> [V -> V]] /\ z \in V
    BY <1>2, <2>1
  <2>4. PICK h \in [SUBSET B -> V] : FoldsUp(h, B, z, ch, FB)
    <3> HIDE DEF FB
    <3> QED BY <2>2, <2>3, Folding
  <2>5. FoldsUp(h, B, z, ch, F)
    BY <2>2, <2>4 DEF FoldsUp, Chooses
  <2> QED BY <2>1, <2>4, <2>5
<1>6. PICK h \in [SUBSET A -> Int] : FoldsUp(h, A, 0, ch, F)
  BY <1>5
<1>7. ASSUME NEW B \in SUBSET A
      PROVE SumFunctionOnSet(w, B) = h[B]
  <2> DEFINE iter == CHOOSE g : g = [s \in SUBSET B |-> IF s = {} THEN 0
                                     ELSE w[CHOOSE x \in s : TRUE] + g[s \ {CHOOSE x \in s : TRUE}]]
  <2>1. SumFunctionOnSet(w, B) = iter[B]
    BY DEF SumFunctionOnSet, FoldFunctionOnSet, MapThenFoldSet
  <2>2. PICK f \in [SUBSET B -> Int] : FoldsUp(f, B, 0, ch, F)
    BY <1>5
  <2>3. ASSUME NEW s \in SUBSET B, s # {}
        PROVE  f[s] = w[CHOOSE x \in s : TRUE] + f[s \ {CHOOSE x \in s : TRUE}]
    <3> DEFINE c == ch[s]
    <3>1. c \in A /\ c = (CHOOSE x \in s : TRUE) /\ s \ {c} \in SUBSET B
      BY <1>1, <1>4, <2>3 DEF Chooses
    <3>2. f[s] = F[c][f[s \ {c}]]
      BY <2>2, <2>3 DEF FoldsUp
    <3>3. F[c][f[s \ {c}]] = w[c] + f[s \ {c}]
      BY <1>3, <3>1
    <3> HIDE DEF c
    <3> QED BY <3>1, <3>2, <3>3
  <2>4. f[{}] = 0
    BY <2>2 DEF FoldsUp
  <2>5. f = [s \in SUBSET B |-> IF s = {} THEN 0
                     ELSE w[CHOOSE x \in s : TRUE] + f[s \ {CHOOSE x \in s : TRUE}]]
    BY <2>3, <2>4
  <2>6. iter = [s \in SUBSET B |-> IF s = {} THEN 0
                     ELSE w[CHOOSE x \in s : TRUE] + iter[s \ {CHOOSE x \in s : TRUE}]]
    BY <2>5
  <2> HIDE DEF iter
  <2> DEFINE T == {s \in SUBSET B : iter[s] = f[s] /\ f[s] = h[s]}
  <2>7. ASSUME NEW s \in SUBSET B, s # {}, s \ {ch[s]} \in T
        PROVE  s \in T
    <3> DEFINE c == ch[s]
    <3>1. c \in A /\ c = (CHOOSE x \in s : TRUE) /\ s \ {c} \in SUBSET B
      BY <1>1, <1>4, <2>7 DEF Chooses
    <3>2. iter[s] = w[c] + iter[s \ {c}] /\ f[s] = w[c] + f[s \ {c}]
      BY <2>3, <2>6, <2>7, <3>1
    <3>3. h[s] = F[c][h[s \ {c}]]
      BY <1>6, <2>7 DEF FoldsUp
    <3>4. h[s] = w[c] + h[s \ {c}]
      BY <1>3, <3>1, <3>3
    <3>5. iter[s \ {c}] = f[s \ {c}] /\ f[s \ {c}] = h[s \ {c}]
      BY <2>7
    <3> HIDE DEF c
    <3> QED BY <3>2, <3>4, <3>5
  <2>8. {} \in T
    BY <2>4, <2>6, <1>6 DEF FoldsUp
  <2>9. IsFiniteSet(B) /\ Chooses(ch, B)
    BY <1>1, FS_Subset DEF Chooses
  <2>10. T = SUBSET B
    <3>1. T \subseteq SUBSET B
      OBVIOUS
    <3> HIDE DEF T
    <3> QED BY <2>7, <2>8, <2>9, <3>1, ChoosingInduction
  <2>11. B \in T
    BY <2>10
  <2> HIDE DEF iter
  <2> QED BY <2>1, <2>11
<1>8. ASSUME NEW s \in SUBSET A, s # {}
      PROVE  ch[s] \in s /\ h[s] = w[ch[s]] + h[s \ {ch[s]}]
  <2>1. ch[s] \in s /\ s \ {ch[s]} \in SUBSET A
    BY <1>1, <1>8 DEF Chooses
  <2>2. h[s] = F[ch[s]][h[s \ {ch[s]}]]
    BY <1>6, <1>8 DEF FoldsUp
  <2> QED BY <1>3, <2>1, <2>2
<1> DEFINE T == {s \in SUBSET A : \A x \in s : h[s] = w[x] + h[s \ {x}]}
<1>9. ASSUME NEW s \in SUBSET A, \A y \in s : \A r \in SUBSET (s \ {y}) : r \in T, NEW x \in s
      PROVE  h[s] = w[x] + h[s \ {x}]
  <2> DEFINE c == ch[s]
             r == s \ {x}
             q == s \ {c}
  <2>1. c \in s /\ h[s] = w[c] + h[q]
    BY <1>8
  <2>2. CASE x = c
    BY <2>1, <2>2
  <2>3. CASE x # c
    <3>1. q \in T /\ x \in q
      BY <1>9, <2>1, <2>3
    <3>2. r \in T /\ c \in r
      BY <1>9, <2>1, <2>3
    <3>3. h[q] = w[x] + h[q \ {x}] /\ h[r] = w[c] + h[r \ {c}]
      BY <3>1, <3>2
    <3>4. q \ {x} = r \ {c} /\ q \ {x} \in SUBSET A
      OBVIOUS
    <3>5. h[q \ {x}] \in Int /\ w[x] \in Int /\ w[c] \in Int
      BY <2>1, <3>4
    <3>6. h[s] = w[x] + h[r]
      <4> HIDE DEF c, q, r, T
      <4>1. h[r \ {c}] = h[q \ {x}]
        BY <3>4
      <4>2. h[s] = w[c] + (w[x] + h[q \ {x}])
        BY <2>1, <3>3
      <4> QED BY <3>3, <3>5, <4>1, <4>2
    <3> QED BY <3>6
  <2> QED BY <2>2, <2>3
<1>10. T = SUBSET A
  <2>1. \A s \in SUBSET A : (\A y \in s : \A r \in SUBSET (s \ {y}) : r \in T) => s \in T
    BY <1>9
  <2>2. T \subseteq SUBSET A
    OBVIOUS
  <2> HIDE DEF T
  <2> QED BY <2>1, <2>2, SubsetInduction
<1>11. h[{}] = 0
  BY <1>6 DEF FoldsUp
<1> QED BY <1>7, <1>10, <1>11 DEF SumsUp

\* powers of positive numbers are positive
LEMMA PowerPositive ==
  ASSUME NEW b \in Nat \ {0}, NEW k \in Nat
  PROVE  Power(b, k) \in Nat \ {0}
<1> DEFINE T == {i \in Nat : Power(b, i) \in Nat \ {0}}
<1>1. T = Nat
  <2>1. T \subseteq Nat /\ 0 \in T
    <3>1. Power(b, 0) = 1
      BY PowerDef
    <3> QED BY <3>1
  <2>2. ASSUME NEW i \in T PROVE i + 1 \in T
    <3>1. Power(b, i + 1) = b * Power(b, i) /\ Power(b, i) \in Nat \ {0}
      BY PowerDef
    <3>2. \A x, y \in Nat \ {0} : x * y \in Nat \ {0}
      OBVIOUS
    <3> QED BY <3>1, <3>2
  <2> HIDE DEF T
  <2> QED BY <2>1, <2>2, Induction
<1> QED BY <1>1

\* the powers of two
LEMMA PowerOfTwo ==
  ASSUME NEW k \in Nat
  PROVE  /\ Power(2, k) \in Nat \ {0} /\ Power(2, 0) = 1
         /\ Power(2, k + 1) = 2 * Power(2, k)
         /\ PowersOfTwo[k] = Power(2, k)
BY PowerPositive, PowerDef DEF PowersOfTwo

\* ... grow
LEMMA PowerMonotone ==
  ASSUME NEW j \in Nat, NEW k \in Nat, j <= k
  PROVE  Power(2, j) <= Power(2, k)
<1> DEFINE T == {i \in Nat : Power(2, j) <= Power(2, j + i)}
<1>1. T = Nat
  <2>1. T \subseteq Nat /\ 0 \in T
    BY PowerOfTwo
  <2>2. ASSUME NEW i \in T PROVE i + 1 \in T
    <3>1. Power(2, (j + i) + 1) = 2 * Power(2, j + i) /\ Power(2, j + i) \in Nat
      BY PowerOfTwo
    <3>2. Power(2, j) \in Nat /\ (j + i) + 1 = j + (i + 1)
      BY PowerOfTwo
    <3> QED BY <3>1, <3>2
  <2> HIDE DEF T
  <2> QED BY <2>1, <2>2, Induction
<1>2. k - j \in Nat /\ j + (k - j) = k
  OBVIOUS
<1>3. k - j \in T
  BY <1>1, <1>2
<1> QED BY <1>2, <1>3

\* ... and the sum of two exponents is a product
LEMMA PowerSum ==
  ASSUME NEW j \in Nat, NEW k \in Nat
  PROVE  Power(2, j + k) = Power(2, j) * Power(2, k)
<1> DEFINE T == {i \in Nat : Power(2, j + i) = Power(2, j) * Power(2, i)}
<1>1. T = Nat
  <2>1. T \subseteq Nat /\ 0 \in T
    BY PowerOfTwo
  <2>2. ASSUME NEW i \in T PROVE i + 1 \in T
    <3>1. Power(2, j + (i + 1)) = 2 * (Power(2, j) * Power(2, i))
      <4>1. (j + i) + 1 = j + (i + 1)
        OBVIOUS
      <4> QED BY <4>1, PowerOfTwo
    <3>2. Power(2, i + 1) = 2 * Power(2, i)
      BY PowerOfTwo
    <3>3. \A x, y \in Nat : 2 * (x * y) = x * (2 * y)
      OBVIOUS
    <3> QED BY <3>1, <3>2, <3>3, PowerOfTwo
  <2> HIDE DEF T
  <2> QED BY <2>1, <2>2, Induction
<1> QED BY <1>1

\* The number of some bits is less than the power of two above them.
LEMMA NumberFits ==
  ASSUME NEW n \in Nat, NEW bits \in SUBSET (0..(n - 1))
  PROVE  Number(bits) \in 0..(Power(2, n) - 1)
<1> DEFINE w == PowersOfTwo
<1>1. IsFiniteSet(bits) /\ \A a \in bits : w[a] \in Int
  <2>1. IsFiniteSet(bits)
    <3>1. IsFiniteSet(0..(n - 1)) /\ bits \subseteq 0..(n - 1)
      BY FS_Interval
    <3> QED BY <3>1, FS_Subset
  <2> QED BY <2>1, PowerOfTwo
<1>2. PICK h \in [SUBSET bits -> Int] : SumsUp(h, bits, w)
  <2> HIDE DEF w
  <2> QED BY <1>1, SumDef
<1> DEFINE T == {k \in Nat : h[bits \cap 0..(k - 1)] \in 0..(Power(2, k) - 1)}
<1>3. T = Nat
  <2>1. T \subseteq Nat
    OBVIOUS
  <2>2. 0 \in T
    <3>1. bits \cap 0..(0 - 1) = {}
      OBVIOUS
    <3> QED BY <1>2, <3>1, PowerOfTwo DEF SumsUp
  <2>3. ASSUME NEW k \in T PROVE k + 1 \in T
    <3> DEFINE r == bits \cap 0..(k - 1)
               s == bits \cap 0..((k + 1) - 1)
    <3>1. h[r] \in 0..(Power(2, k) - 1)
      OBVIOUS
    <3>2. Power(2, k + 1) = 2 * Power(2, k) /\ Power(2, k) \in Nat /\ w[k] = Power(2, k)
      BY PowerOfTwo
    <3>3. h[s] \in 0..(Power(2, k + 1) - 1)
      <4>1. CASE k \in bits
        <5>1. k \in s /\ s \ {k} = r /\ s \in SUBSET bits
          BY <4>1
        <5>2. h[s] = w[k] + h[r]
          BY <1>2, <5>1 DEF SumsUp
        <5> HIDE DEF w, r, s
        <5> QED BY <3>1, <3>2, <5>2
      <4>2. CASE k \notin bits
        <5>1. s = r
          BY <4>2
        <5> HIDE DEF w, r, s
        <5> QED BY <3>1, <3>2, <5>1
      <4> QED BY <4>1, <4>2
    <3> QED BY <3>3
  <2> HIDE DEF T
  <2> QED BY <2>1, <2>2, <2>3, Induction
<1>4. bits \cap 0..(n - 1) = bits
  OBVIOUS
<1>5. h[bits] \in 0..(Power(2, n) - 1)
  BY <1>3, <1>4
<1> QED BY <1>2, <1>5 DEF Number, SumsUp

\* and, or and exclusive or of n bits have n bits
LEMMA BitOperations ==
  ASSUME NEW n \in Nat, NEW x \in Nat, NEW y \in Nat
  PROVE  /\ And(x, y, n) \in 0..(Power(2, n) - 1)
         /\ Or(x, y, n) \in 0..(Power(2, n) - 1)
         /\ Xor(x, y, n) \in 0..(Power(2, n) - 1)
<1>1. Bits(x, n) \in SUBSET (0..(n - 1)) /\ Bits(y, n) \in SUBSET (0..(n - 1))
  BY DEF Bits
<1>2. /\ Bits(x, n) \cap Bits(y, n) \in SUBSET (0..(n - 1))
      /\ Bits(x, n) \cup Bits(y, n) \in SUBSET (0..(n - 1))
      /\ (Bits(x, n) \ Bits(y, n)) \cup (Bits(y, n) \ Bits(x, n)) \in SUBSET (0..(n - 1))
  BY <1>1
<1> QED BY <1>2, NumberFits DEF And, Or, Xor

===============================================================================
