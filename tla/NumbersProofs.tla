---------------------------- MODULE NumbersProofs -----------------------------
(***************************************************************************)
(* Numbers and their texts, for cells of any width and any set of          *)
(* characters: what FORMAT writes fits its buffer and is read back as the  *)
(* same number, numerals are read as the numbers they denote, and no other *)
(* text is read as a number.                                               *)
(***************************************************************************)
EXTENDS Numbers, ArithmeticProofs, SequenceTheorems

Result == [ok : BOOLEAN, value : Int]

\* what one digit makes of the value of those before it
Step(r, c, b) == IF r.ok /\ Accepts(c, b)
                 THEN [ok |-> TRUE, value |-> Accumulated(r.value, c, b)]
                 ELSE Failed

Start == [ok |-> TRUE, value |-> 0]

\* the numbers of Width bits, half of them and a quarter of them
LEMMA MPositive == M \in Nat \ {0} /\ M = 2 * Power(2, Width - 1)
                   /\ Power(2, Width - 1) = 2 * Power(2, Width - 2)
                   /\ Power(2, Width - 2) \in Nat \ {0}
<1>1. Width - 1 \in Nat /\ Width - 2 \in Nat /\ Width = (Width - 1) + 1 /\ Width - 1 = (Width - 2) + 1
  BY NumberSizes
<1>2. Power(2, Width) = 2 * Power(2, Width - 1) /\ Power(2, Width - 1) = 2 * Power(2, Width - 2)
  BY <1>1, PowerOfTwo
<1> QED BY <1>1, <1>2, PowerOfTwo, NumberSizes DEF M

\* one more digit leaves a result
LEMMA StepType ==
  ASSUME NEW r \in Result, NEW c \in Int, NEW b \in Int
  PROVE  Step(r, c, b) \in Result
BY MPositive DEF Result, Step, Accumulated, Failed

\* The value of a text is made digit by digit.
LEMMA ValueSteps ==
  ASSUME NEW d \in Seq(Int), NEW b \in Int
  PROVE  \E r \in [0..Len(d) -> Result] :
           /\ r[0] = Start
           /\ \A k \in 0..(Len(d) - 1) : r[k + 1] = Step(r[k], d[k + 1], b)
           /\ Value(d, b) = r[Len(d)]
<1> DEFINE A == DOMAIN d
           ch == [s \in SUBSET A |-> Max(s)]
           F == [a \in A |-> [v \in Result |-> Step(v, d[a], b)]]
           iter == CHOOSE g : g = [s \in SUBSET A |-> IF s = {} THEN Start
                                    ELSE Step(g[s \ {Max(s)}], d[Max(s)], b)]
<1>1. Value(d, b) = iter[A]
  BY DEF Value, FoldLeft, MapThenFoldSet, Step, Start
<1>2. A = 1..Len(d) /\ IsFiniteSet(A)
  <2>1. A = 1..Len(d) /\ Len(d) \in Nat
    OBVIOUS
  <2> QED BY <2>1, FS_Interval
<1>3. ASSUME NEW s \in SUBSET A, s # {} PROVE Max(s) \in s
  BY <1>2, <1>3, MaxIsGreatest
<1>4. Chooses(ch, A)
  BY <1>3 DEF Chooses
<1>5. F \in [A -> [Result -> Result]]
  BY StepType
<1>6. Start \in Result
  BY DEF Start, Result
<1>7. PICK f \in [SUBSET A -> Result] : FoldsUp(f, A, Start, ch, F)
  <2> HIDE DEF A, ch, F
  <2> QED BY <1>2, <1>4, <1>5, <1>6, Folding
<1>8. ASSUME NEW s \in SUBSET A, s # {}
      PROVE  f[s] = Step(f[s \ {Max(s)}], d[Max(s)], b)
  <2>1. Max(s) \in A /\ s \ {Max(s)} \in SUBSET A /\ ch[s] = Max(s)
    BY <1>3, <1>8
  <2>2. f[s] = F[Max(s)][f[s \ {Max(s)}]]
    BY <1>7, <1>8, <2>1 DEF FoldsUp
  <2>3. f[s \ {Max(s)}] \in Result
    BY <2>1
  <2> QED BY <2>1, <2>2, <2>3
<1>9. f[{}] = Start
  BY <1>7 DEF FoldsUp
<1>10. f = [s \in SUBSET A |-> IF s = {} THEN Start ELSE Step(f[s \ {Max(s)}], d[Max(s)], b)]
  BY <1>8, <1>9
<1>11. iter = [s \in SUBSET A |-> IF s = {} THEN Start ELSE Step(iter[s \ {Max(s)}], d[Max(s)], b)]
  BY <1>10
<1> DEFINE T == {s \in SUBSET A : iter[s] = f[s]}
<1>12. T = SUBSET A
  <2>1. {} \in T
    BY <1>9, <1>11
  <2>2. ASSUME NEW s \in SUBSET A, s # {}, s \ {ch[s]} \in T PROVE s \in T
    <3>1. iter[s] = Step(iter[s \ {Max(s)}], d[Max(s)], b)
      BY <1>11, <2>2
    <3> HIDE DEF iter
    <3>2. iter[s \ {Max(s)}] = f[s \ {Max(s)}]
      BY <2>2
    <3> QED BY <1>8, <2>2, <3>1, <3>2
  <2>3. T \subseteq SUBSET A
    OBVIOUS
  <2>4. \A s \in SUBSET A : s # {} /\ s \ {ch[s]} \in T => s \in T
    BY <2>2
  <2>5. IsFiniteSet(A)
    BY <1>2
  <2> HIDE DEF T, ch, A
  <2>6. PICK B, c, U : B = A /\ c = ch /\ U = T
    OBVIOUS
  <2>7. U = SUBSET B
    <3>1. IsFiniteSet(B) /\ Chooses(c, B) /\ U \subseteq SUBSET B /\ {} \in U
      BY <1>4, <2>1, <2>3, <2>5, <2>6
    <3>2. \A s \in SUBSET B : s # {} /\ s \ {c[s]} \in U => s \in U
      BY <2>4, <2>6
    <3> QED BY <3>1, <3>2, ChoosingInduction
  <2> QED BY <2>6, <2>7
<1>13. Value(d, b) = f[A]
  BY <1>1, <1>12
<1> DEFINE r == [k \in 0..Len(d) |-> f[1..k]]
<1>14. r \in [0..Len(d) -> Result]
  BY <1>2
<1>15. r[0] = Start
  <2>1. 1..0 = {}
    OBVIOUS
  <2> QED BY <1>9, <2>1
<1>16. ASSUME NEW k \in 0..(Len(d) - 1) PROVE r[k + 1] = Step(r[k], d[k + 1], b)
  <2>1. Max(1..(k + 1)) = k + 1
    BY DEF Max
  <2>2. PICK n \in Nat : n = Len(d)
    BY LenProperties
  <2>3. A = 1..n /\ k \in 0..(n - 1)
    BY <2>2, LenProperties
  <2>4. 1..(k + 1) \subseteq 1..n /\ (1..(k + 1)) \ {k + 1} = 1..k /\ k + 1 \in 1..(k + 1)
    <3> HIDE DEF A, F, ch, iter, r
    <3> QED BY <2>3
  <2>5. (1..(k + 1)) \ {k + 1} = 1..k /\ 1..(k + 1) \in SUBSET A /\ 1..(k + 1) # {}
    <3> HIDE DEF A
    <3> QED BY <2>3, <2>4
  <2>6. f[1..(k + 1)] = Step(f[1..k], d[k + 1], b)
    BY <1>8, <2>1, <2>5
  <2> QED BY <2>6
<1>17. Value(d, b) = r[Len(d)]
  BY <1>2, <1>13
<1> HIDE DEF r
<1> QED BY <1>14, <1>15, <1>16, <1>17

\* r goes through the digits d, to the value v
Accumulates(r, d, b, v) ==
  /\ r \in [0..Len(d) -> Result] /\ r[0] = Start
  /\ \A k \in 0..(Len(d) - 1) : r[k + 1] = Step(r[k], d[k + 1], b)
  /\ v = r[Len(d)]

\* The value of a text is made digit by digit.
LEMMA ValueAccumulates ==
  ASSUME NEW d \in Seq(Int), NEW b \in Int
  PROVE  \E r : Accumulates(r, d, b, Value(d, b))
<1>1. PICK r \in [0..Len(d) -> Result] :
        /\ r[0] = Start
        /\ \A k \in 0..(Len(d) - 1) : r[k + 1] = Step(r[k], d[k + 1], b)
        /\ Value(d, b) = r[Len(d)]
  BY ValueSteps
<1>2. Accumulates(r, d, b, Value(d, b))
  BY <1>1 DEF Accumulates
<1> QED BY <1>2

\* no digit at all
LEMMA ValueEmpty ==
  ASSUME NEW b \in Int
  PROVE  Value(<<>>, b) = Start
<1>1. <<>> \in Seq(Int) /\ Len(<<>>) = 0
  OBVIOUS
<1>2. PICK r : Accumulates(r, <<>>, b, Value(<<>>, b))
  BY <1>1, ValueAccumulates
<1> QED BY <1>1, <1>2 DEF Accumulates

\* ... and one more
LEMMA ValueAppend ==
  ASSUME NEW d \in Seq(Int), NEW c \in Int, NEW b \in Int
  PROVE  /\ Value(d, b) \in Result
         /\ Value(Append(d, c), b) = Step(Value(d, b), c, b)
<1> DEFINE n == Len(d)
           e == Append(d, c)
<1>1. /\ e \in Seq(Int) /\ Len(e) = n + 1 /\ n \in Nat /\ e[n + 1] = c
      /\ \A k \in 1..n : e[k] = d[k]
  OBVIOUS
<1>2. PICK q : Accumulates(q, d, b, Value(d, b))
  BY ValueAccumulates
<1>3. PICK r : Accumulates(r, e, b, Value(e, b))
  BY <1>1, ValueAccumulates
<1> HIDE DEF e, n
<1> DEFINE T == {k \in Nat : k <= n => r[k] = q[k]}
<1>4. T = Nat
  <2>1. T \subseteq Nat /\ 0 \in T
    BY <1>2, <1>3 DEF Accumulates
  <2>2. ASSUME NEW k \in T, k < n PROVE r[k + 1] = q[k + 1]
    <3>1. q[k + 1] = Step(q[k], d[k + 1], b)
      <4>1. \A j \in 0..(n - 1) : q[j + 1] = Step(q[j], d[j + 1], b)
        BY <1>2 DEF Accumulates, n
      <4>2. k \in 0..(n - 1)
        BY <1>1, <2>2
      <4> QED BY <4>1, <4>2
    <3>2. r[k + 1] = Step(r[k], e[k + 1], b)
      BY <2>2, <1>3, <1>1 DEF Accumulates
    <3>3. e[k + 1] = d[k + 1] /\ r[k] = q[k]
      BY <2>2, <1>1
    <3> QED BY <3>1, <3>2, <3>3
  <2>3. \A k \in T : k + 1 \in T
    BY <2>2, <1>1
  <2> HIDE DEF T
  <2> QED BY <2>1, <2>3, Induction
<1>5. r[n] = q[n]
  BY <1>4, <1>1
<1>6. q[n] = Value(d, b) /\ q[n] \in Result
  BY <1>2, <1>1 DEF Accumulates, n
<1>7. r[n + 1] = Step(r[n], c, b) /\ Value(e, b) = r[n + 1]
  BY <1>3, <1>1 DEF Accumulates
<1> QED BY <1>5, <1>6, <1>7 DEF e

\* The sum that the digits d mean.
Weights(d, b) == [i \in DOMAIN d |-> d[i] * Power(b, Len(d) - i)]
Total(d, b) == SumFunction(Weights(d, b))

\* A text has a value if all of it is digits, and then it is what they mean.
LEMMA ValueMeans ==
  ASSUME NEW d \in Seq(Int), NEW b \in Int
  PROVE  /\ Total(d, b) \in Int
         /\ Value(d, b) \in Result
         /\ Value(d, b).ok <=> \A i \in DOMAIN d : Accepts(d[i], b)
         /\ Value(d, b).ok => Value(d, b).value = Total(d, b) % M
<1> DEFINE n == Len(d)
           A == DOMAIN d
           w == Weights(d, b)
<1>1. A = 1..n /\ IsFiniteSet(A) /\ n \in Nat
  BY FS_Interval
<1>2. ASSUME NEW a \in A PROVE w[a] \in Int /\ w[a] = d[a] * Power(b, n - a)
  <2>1. n - a \in Nat /\ d[a] \in Int
    BY <1>1
  <2>2. Power(b, n - a) \in Int
    BY <2>1, PowerDef
  <2> QED BY <2>1, <2>2 DEF Weights
<1>3. PICK h \in [SUBSET A -> Int] : SumsUp(h, A, w)
  <2>1. IsFiniteSet(A)
    BY <1>1
  <2>2. PICK B, v : B = A /\ v = w
    OBVIOUS
  <2> HIDE DEF A, w
  <2>3. IsFiniteSet(B) /\ \A a \in B : v[a] \in Int
    BY <1>2, <2>1, <2>2
  <2>4. \E h \in [SUBSET B -> Int] : SumsUp(h, B, v)
    BY <2>3, SumDef
  <2> QED BY <2>2, <2>4
<1>4. PICK r : Accumulates(r, d, b, Value(d, b))
  BY ValueAccumulates
<1> DEFINE Holds(k) ==
      /\ r[k].ok <=> \A i \in 1..k : Accepts(d[i], b)
      /\ r[k].ok => \E x \in Int : r[k].value = x % M /\ h[1..k] = x * Power(b, n - k)
    T == {k \in Nat : k <= n => Holds(k)}
<1>5. Holds(0)
  <2>1. r[0] = [ok |-> TRUE, value |-> 0] /\ h[1..0] = 0
    <3>1. 1..0 = {}
      OBVIOUS
    <3> QED BY <1>3, <1>4, <3>1 DEF Accumulates, SumsUp, Start
  <2>2. 0 % M = 0 /\ Power(b, n - 0) \in Int
    <3>1. n - 0 \in Nat
      BY <1>1
    <3>2. Power(b, n - 0) \in Int
      BY <3>1, PowerDef
    <3> QED BY <3>2, MPositive, ModSmall
  <2>3. r[0].value = 0 % M /\ h[1..0] = 0 * Power(b, n - 0)
    BY <2>1, <2>2
  <2> QED BY <2>1, <2>3
<1>6. ASSUME NEW k \in Nat, k < n, Holds(k) PROVE Holds(k + 1)
  <2> DEFINE c == d[k + 1]
  <2>1. r[k + 1] = Step(r[k], c, b) /\ r[k] \in Result /\ c \in Int
    BY <1>1, <1>4, <1>6 DEF Accumulates
  <2>2. r[k + 1].ok <=> r[k].ok /\ Accepts(c, b)
    BY <2>1 DEF Step, Failed, Result
  <2>3. r[k + 1].ok <=> \A i \in 1..(k + 1) : Accepts(d[i], b)
    BY <2>2, <1>6
  <2>4. ASSUME r[k + 1].ok
        PROVE  \E x \in Int : r[k + 1].value = x % M /\ h[1..(k + 1)] = x * Power(b, n - (k + 1))
    <3>1. PICK x \in Int : r[k].value = x % M /\ h[1..k] = x * Power(b, n - k)
      BY <1>6, <2>2, <2>4
    <3> DEFINE p == Power(b, n - (k + 1))
               y == x * b + c
    <3>2. p \in Int /\ Power(b, n - k) = b * p
      <4>1. n - (k + 1) \in Nat /\ (n - (k + 1)) + 1 = n - k
        BY <1>1, <1>6
      <4>2. Power(b, (n - (k + 1)) + 1) = b * p /\ p \in Int
        BY <4>1, PowerDef
      <4> QED BY <4>1, <4>2
    <3>3. h[1..(k + 1)] = c * p + h[1..k]
      <4>1. k + 1 \in A /\ 1..(k + 1) \in SUBSET A /\ (1..(k + 1)) \ {k + 1} = 1..k
        BY <1>1, <1>6
      <4>2. w[k + 1] = c * p
        BY <1>2, <4>1
      <4>3. PICK u, a : u = 1..(k + 1) /\ a = k + 1
        OBVIOUS
      <4>4. u \in SUBSET A /\ a \in u /\ u \ {a} = 1..k
        BY <4>1, <4>3
      <4> HIDE DEF A, w
      <4>5. h[u] = w[a] + h[u \ {a}]
        BY <1>3, <4>4 DEF SumsUp
      <4> QED BY <4>2, <4>3, <4>4, <4>5
    <3>4. h[1..(k + 1)] = y * p
      <4>1. h[1..(k + 1)] = c * p + x * (b * p)
        BY <3>1, <3>2, <3>3
      <4>2. \A u \in Int : c * u + x * (b * u) = (x * b + c) * u
        BY <2>1
      <4> HIDE DEF p, c
      <4> QED BY <3>2, <4>1, <4>2
    <3>5. r[k + 1].value = y % M
      <4>1. r[k + 1].value = (r[k].value * b + c) % M
        BY <2>1, <2>2, <2>4 DEF Step, Accumulated
      <4> HIDE DEF c
      <4> QED BY <2>1, <3>1, <4>1, ModInside, MPositive
    <3>6. y \in Int
      BY <2>1
    <3> QED BY <3>4, <3>5, <3>6
  <2> QED BY <2>3, <2>4
<1>7. T = Nat
  <2>1. T \subseteq Nat /\ 0 \in T
    BY <1>5, <1>1
  <2>2. ASSUME NEW k \in T PROVE k + 1 \in T
    <3>1. k \in Nat /\ (k <= n => Holds(k))
      OBVIOUS
    <3> HIDE DEF Holds
    <3> QED BY <3>1, <1>6, <1>1
  <2> HIDE DEF T
  <2> QED BY <2>1, <2>2, Induction
<1>8. Holds(n)
  <2>1. n \in T
    BY <1>1, <1>7
  <2> HIDE DEF Holds
  <2> QED BY <2>1
<1>9. Total(d, b) = h[A] /\ h[A] \in Int
  <2>1. DOMAIN w = A
    BY DEF Weights
  <2>2. Total(d, b) = SumFunctionOnSet(w, A)
    BY <2>1 DEF Total, SumFunction
  <2> QED BY <1>3, <2>2 DEF SumsUp
<1>10. Value(d, b) = r[n] /\ r[n] \in Result
  BY <1>4, <1>1 DEF Accumulates
<1>11. Power(b, n - n) = 1
  BY PowerDef, <1>1
<1> QED BY <1>1, <1>8, <1>9, <1>10, <1>11

-----------------------------------------------------------------------------
(* Writing.                                                                *)

\* a set of numbers that holds each one whose predecessors it holds is the set of all
LEMMA CompleteInduction ==
  ASSUME NEW T, T \subseteq Nat,
         \A n \in Nat : (\A m \in 0..(n - 1) : m \in T) => n \in T
  PROVE  T = Nat
<1>1. SUFFICES ASSUME Nat \ T # {} PROVE FALSE
  OBVIOUS
<1>2. PICK x \in Nat \ T : \A y \in Nat \ T : x <= y
  BY <1>1, LeastExists
<1>3. \A m \in 0..(x - 1) : m \in T
  BY <1>2
<1> QED BY <1>2, <1>3

\* the number without its last digit in base b, and that digit
Quot(n, b) == n \div b
Rem(n, b) == n % b

\* a positive number has a smaller quotient, at most half of it, and a remainder that is a digit
LEMMA DivLess ==
  ASSUME NEW n \in Nat \ {0}, NEW b \in Nat, b >= 2
  PROVE  /\ Quot(n, b) \in 0..(n - 1) /\ Rem(n, b) \in 0..(b - 1)
         /\ n = Quot(n, b) * b + Rem(n, b) /\ 2 * Quot(n, b) <= n
<1> DEFINE q == n \div b
           r == n % b
<1>1. q \in Int /\ r \in 0..(b - 1) /\ n = q * b + r
  BY Dividing
<1> HIDE DEF q, r
<1>2. q >= 0
  <2>1. SUFFICES ASSUME q <= -1 PROVE FALSE
    BY <1>1
  <2>2. q * b <= (-1) * b
    BY <1>1, <2>1
  <2> QED BY <1>1, <2>2
<1>3. q * b >= 2 * q
  BY <1>1, <1>2
<1>4. 2 * q <= n /\ q <= n - 1
  BY <1>1, <1>2, <1>3
<1> QED BY <1>1, <1>2, <1>4 DEF q, r, Quot, Rem

\* g writes the numbers to m in base b
Writes(g, m, b) ==
  g = [n \in 0..m |-> IF n = 0 THEN <<>> ELSE Append(g[Quot(n, b)], Rem(n, b))]

\* what is written at one number
LEMMA WritesAt ==
  ASSUME NEW b, NEW m \in Nat, NEW g, Writes(g, m, b), NEW n \in 0..m
  PROVE  g[n] = IF n = 0 THEN <<>> ELSE Append(g[Quot(n, b)], Rem(n, b))
<1>1. g[n] = [i \in 0..m |-> IF i = 0 THEN <<>> ELSE Append(g[Quot(i, b)], Rem(i, b))][n]
  BY Zenon DEF Writes
<1> QED BY <1>1, Zenon

\* there are such functions for every number
LEMMA WritesExist ==
  ASSUME NEW b \in Nat, b >= 2, NEW m \in Nat
  PROVE  \E g : Writes(g, m, b)
<1> DEFINE T == {k \in Nat : \E g : Writes(g, k, b)}
<1>1. 0 \in T
  <2>1. Writes([n \in 0..0 |-> <<>>], 0, b)
    BY DEF Writes
  <2> QED BY <2>1
<1>2. ASSUME NEW k \in T PROVE k + 1 \in T
  <2>1. PICK g : Writes(g, k, b)
    OBVIOUS
  <2> DEFINE h == [n \in 0..(k + 1) |-> IF n = k + 1 THEN Append(g[Quot(n, b)], Rem(n, b)) ELSE g[n]]
  <2>2. ASSUME NEW n \in 0..(k + 1)
        PROVE  h[n] = IF n = 0 THEN <<>> ELSE Append(h[Quot(n, b)], Rem(n, b))
    <3>1. n # 0 => Quot(n, b) \in 0..k /\ Quot(n, b) # k + 1 /\ h[Quot(n, b)] = g[Quot(n, b)]
      <4>1. n # 0 => Quot(n, b) \in 0..(n - 1)
        BY DivLess
      <4> QED BY <4>1
    <3>2. CASE n = k + 1
      BY <3>1, <3>2
    <3>3. CASE n # k + 1
      <4>1. n \in 0..k /\ h[n] = g[n]
        BY <3>3
      <4>2. g[n] = IF n = 0 THEN <<>> ELSE Append(g[Quot(n, b)], Rem(n, b))
        BY <2>1, <4>1 DEF Writes
      <4> HIDE DEF h
      <4> QED BY <3>1, <4>1, <4>2
    <3> QED BY <3>2, <3>3
  <2>3. h = [n \in 0..(k + 1) |-> h[n]]
    OBVIOUS
  <2> HIDE DEF h
  <2>4. Writes(h, k + 1, b)
    BY <2>2, <2>3 DEF Writes
  <2> QED BY <2>4
<1> HIDE DEF T
<1>3. T = Nat
  <2>1. T \subseteq Nat
    BY DEF T
  <2> QED BY <1>1, <1>2, <2>1, Induction
<1> QED BY <1>3 DEF T

\* ... and Digits takes one of them
LEMMA DigitsWrite ==
  ASSUME NEW b \in Nat, b >= 2, NEW m \in Nat
  PROVE  \E g : Writes(g, m, b) /\ Digits(m, b) = g[m]
<1> DEFINE D == CHOOSE g : g = [n \in 0..m |-> IF n = 0 THEN <<>> ELSE Append(g[Quot(n, b)], Rem(n, b))]
<1>1. Writes(D, m, b)
  BY WritesExist DEF Writes, Quot, Rem
<1>2. Digits(m, b) = D[m]
  BY DEF Digits, Quot, Rem
<1> QED BY <1>1, <1>2

\* two of them write the same digits
LEMMA WritesAgree ==
  ASSUME NEW b \in Nat, b >= 2, NEW m \in Nat, NEW k \in Nat,
         NEW g, Writes(g, m, b), NEW h, Writes(h, k, b)
  PROVE  \A n \in Nat : n <= m /\ n <= k => g[n] = h[n]
<1> DEFINE T == {n \in Nat : n <= m /\ n <= k => g[n] = h[n]}
<1>1. ASSUME NEW n \in Nat, \A i \in 0..(n - 1) : i \in T, n <= m, n <= k PROVE g[n] = h[n]
  <2>1. g[n] = IF n = 0 THEN <<>> ELSE Append(g[Quot(n, b)], Rem(n, b))
    <3>1. n \in 0..m
      BY <1>1
    <3> QED BY <3>1, WritesAt
  <2>2. h[n] = IF n = 0 THEN <<>> ELSE Append(h[Quot(n, b)], Rem(n, b))
    <3>1. n \in 0..k
      BY <1>1
    <3> QED BY <3>1, WritesAt
  <2>3. CASE n # 0
    <3>1. Quot(n, b) \in 0..(n - 1)
      BY <2>3, DivLess
    <3>2. g[Quot(n, b)] = h[Quot(n, b)]
      BY <1>1, <3>1
    <3> QED BY <2>1, <2>2, <2>3, <3>2
  <2> QED BY <2>1, <2>2, <2>3
<1>2. T \subseteq Nat /\ \A n \in Nat : (\A i \in 0..(n - 1) : i \in T) => n \in T
  BY <1>1
<1>3. T = Nat
  <2> HIDE DEF T
  <2> QED BY <1>2, CompleteInduction
<1> QED BY <1>3

\* The digits of a number are those of its quotient, and then its remainder.
LEMMA DigitsAre ==
  ASSUME NEW b \in Nat, b >= 2
  PROVE  /\ Digits(0, b) = <<>>
         /\ \A n \in Nat \ {0} : Digits(n, b) = Append(Digits(Quot(n, b), b), Rem(n, b))
<1>1. Digits(0, b) = <<>>
  BY DigitsWrite DEF Writes
<1>2. ASSUME NEW n \in Nat \ {0}
      PROVE  Digits(n, b) = Append(Digits(Quot(n, b), b), Rem(n, b))
  <2> DEFINE q == Quot(n, b)
  <2>1. q \in 0..(n - 1) /\ q \in Nat
    BY DivLess
  <2>2. PICK g : Writes(g, n, b) /\ Digits(n, b) = g[n]
    BY DigitsWrite
  <2>3. PICK h : Writes(h, q, b) /\ Digits(q, b) = h[q]
    BY <2>1, DigitsWrite
  <2>4. g[n] = Append(g[q], Rem(n, b))
    <3>1. n \in 0..n /\ n # 0 /\ n \in Nat
      OBVIOUS
    <3> QED BY <2>2, <3>1, WritesAt
  <2> HIDE DEF q
  <2>5. g[q] = h[q]
    BY <2>1, <2>2, <2>3, WritesAgree
  <2> QED BY <2>2, <2>3, <2>4, <2>5 DEF q
<1> QED BY <1>1, <1>2

\* the digits of a number are digits of the base
LEMMA DigitsType ==
  ASSUME NEW b \in Nat, b >= 2, NEW n \in Nat
  PROVE  Digits(n, b) \in Seq(0..(b - 1))
<1> DEFINE T == {m \in Nat : Digits(m, b) \in Seq(0..(b - 1))}
<1>1. ASSUME NEW m \in Nat, \A i \in 0..(m - 1) : i \in T PROVE m \in T
  <2>1. CASE m = 0
    <3>1. Digits(m, b) = <<>> /\ <<>> \in Seq(0..(b - 1))
      BY <2>1, DigitsAre
    <3> QED BY <3>1
  <2>2. CASE m # 0
    <3>1. Quot(m, b) \in 0..(m - 1) /\ Rem(m, b) \in 0..(b - 1)
      BY <2>2, DivLess
    <3>2. Digits(m, b) = Append(Digits(Quot(m, b), b), Rem(m, b))
      BY <2>2, DigitsAre
    <3>3. Digits(Quot(m, b), b) \in Seq(0..(b - 1))
      BY <1>1, <3>1
    <3>4. Digits(m, b) \in Seq(0..(b - 1))
      BY <3>1, <3>2, <3>3
    <3> QED BY <3>4
  <2> QED BY <2>1, <2>2
<1>2. T \subseteq Nat
  OBVIOUS
<1>3. T = Nat
  <2> HIDE DEF T
  <2> QED BY <1>1, <1>2, CompleteInduction
<1> QED BY <1>3

\* A number of k bits has at most k digits.
LEMMA DigitsFit ==
  ASSUME NEW b \in Nat, b >= 2, NEW k \in Nat, NEW n \in Nat, n < Power(2, k)
  PROVE  Len(Digits(n, b)) <= k
<1> DEFINE T == {i \in Nat : \A m \in Nat : m < Power(2, i) => Len(Digits(m, b)) <= i}
<1>1. 0 \in T
  BY PowerOfTwo, DigitsAre
<1>2. ASSUME NEW i \in T PROVE i + 1 \in T
  <2>1. ASSUME NEW m \in Nat, m < Power(2, i + 1) PROVE Len(Digits(m, b)) <= i + 1
    <3>1. CASE m = 0
      BY <3>1, DigitsAre
    <3>2. CASE m # 0
      <4>1. 2 * Quot(m, b) <= m /\ Quot(m, b) \in Nat /\ Rem(m, b) \in 0..(b - 1)
        <5>1. m \in Nat \ {0}
          BY <3>2
        <5>2. Quot(m, b) \in 0..(m - 1) /\ 2 * Quot(m, b) <= m /\ Rem(m, b) \in 0..(b - 1)
          BY <5>1, DivLess
        <5> QED BY <5>1, <5>2
      <4>2. Quot(m, b) < Power(2, i)
        <5>1. Power(2, i + 1) = 2 * Power(2, i) /\ Power(2, i) \in Nat
          BY PowerOfTwo
        <5> QED BY <2>1, <4>1, <5>1
      <4>3. Len(Digits(Quot(m, b), b)) <= i /\ Digits(Quot(m, b), b) \in Seq(0..(b - 1))
        BY <4>1, <4>2, DigitsType
      <4>4. Digits(m, b) = Append(Digits(Quot(m, b), b), Rem(m, b))
        BY <3>2, DigitsAre
      <4>5. Len(Digits(m, b)) = Len(Digits(Quot(m, b), b)) + 1
        BY <4>1, <4>3, <4>4
      <4> QED BY <4>3, <4>5
    <3> QED BY <3>1, <3>2
  <2> QED BY <2>1
<1>3. T = Nat
  <2>1. T \subseteq Nat
    OBVIOUS
  <2> HIDE DEF T
  <2> QED BY <1>1, <1>2, <2>1, Induction
<1> QED BY <1>3

\* What is written is read as what it was.
LEMMA DigitsRead ==
  ASSUME NEW b \in 2..36, NEW n \in Nat
  PROVE  Value(Digits(n, b), b) = [ok |-> TRUE, value |-> n % M]
<1> DEFINE T == {m \in Nat : Value(Digits(m, b), b) = [ok |-> TRUE, value |-> m % M]}
<1>1. ASSUME NEW m \in Nat, \A i \in 0..(m - 1) : i \in T PROVE m \in T
  <2>1. CASE m = 0
    <3>1. 0 % M = 0
      BY MPositive, ModSmall
    <3> QED BY <2>1, <3>1, DigitsAre, ValueEmpty DEF Start
  <2>2. CASE m # 0
    <3> DEFINE q == Quot(m, b)
               c == Rem(m, b)
               d == Digits(q, b)
    <3>1. q \in 0..(m - 1) /\ q \in Nat /\ c \in 0..(b - 1) /\ m = q * b + c
      BY <2>2, DivLess
    <3>2. Digits(m, b) = Append(d, c)
      BY <2>2, DigitsAre
    <3> HIDE DEF q, c
    <3>3. d \in Seq(Int) /\ c \in Int
      BY <3>1, DigitsType
    <3>4. Value(d, b) = [ok |-> TRUE, value |-> q % M]
      BY <1>1, <3>1
    <3> HIDE DEF d
    <3>5. Value(Append(d, c), b) = Step(Value(d, b), c, b)
      BY <3>3, ValueAppend
    <3>6. Accepts(c, b)
      BY <3>1 DEF Accepts
    <3>7. ((q % M) * b + c) % M = m % M
      <4>1. PICK x \in Int, y \in Int, z \in Int, w \in Nat \ {0} : x = q /\ y = b /\ z = c /\ w = M
        BY <3>1, MPositive
      <4>2. ((x % w) * y + z) % w = (x * y + z) % w
        BY ModInside
      <4> QED BY <3>1, <4>1, <4>2
    <3>8. Step(Value(d, b), c, b) = [ok |-> TRUE, value |-> m % M]
      <4>1. PICK v : v = Value(d, b)
        OBVIOUS
      <4>2. v.ok /\ v.value = q % M
        BY <3>4, <4>1
      <4>3. Step(v, c, b) = [ok |-> TRUE, value |-> (v.value * b + c) % M]
        BY <3>6, <4>2 DEF Step, Accumulated
      <4> QED BY <3>7, <4>1, <4>2, <4>3
    <3> QED BY <3>2, <3>5, <3>8
  <2> QED BY <2>1, <2>2
<1>2. T \subseteq Nat
  OBVIOUS
<1>3. T = Nat
  <2> HIDE DEF T
  <2> QED BY <1>1, <1>2, CompleteInduction
<1> QED BY <1>3

-----------------------------------------------------------------------------
(* Reading.                                                                *)

\* a sign changes the value of the digits after it to its negation
LEMMA SignedMeans ==
  ASSUME NEW r \in Result, r.ok, NEW sum \in Int, r.value = sum % M, NEW negative \in BOOLEAN
  PROVE  /\ Signed(r, negative).ok
         /\ Signed(r, negative).value = (IF negative THEN -sum ELSE sum) % M
<1>1. CASE ~negative
  BY <1>1 DEF Signed
<1>2. CASE negative
  <2> DEFINE v == r.value
  <2>1. Signed(r, negative).ok /\ Signed(r, negative).value = (M - v) % M
    BY <1>2 DEF Signed, Result
  <2>2. PICK m \in Nat \ {0}, t \in Int : m = M /\ t = -sum
    BY MPositive
  <2>3. PICK q \in Int : sum = q * m + v /\ v \in Int
    <3>1. sum \div m \in Int /\ sum % m \in Int /\ sum = (sum \div m) * m + (sum % m)
      BY Dividing
    <3>2. v = sum % m
      BY <2>2
    <3> HIDE DEF v
    <3> QED BY <3>1, <3>2
  <2> HIDE DEF v
  <2>4. m - v = t + (q + 1) * m
    BY <2>2, <2>3
  <2>5. (t + (q + 1) * m) % m = t % m
    <3>1. q + 1 \in Int
      OBVIOUS
    <3> QED BY <3>1, ModOfMultiple
  <2> QED BY <1>2, <2>1, <2>2, <2>4, <2>5
<1> QED BY <1>1, <1>2

\* a text with a character before it
LEMMA Prefixed ==
  ASSUME NEW S, NEW c \in S, NEW e \in Seq(S), NEW f, f = <<c>> \o e
  PROVE  f \in Seq(S) /\ f # <<>> /\ Head(f) = c /\ f[1] = c /\ Tail(f) = e /\ Len(f) = Len(e) + 1
<1>1. <<c>> \in Seq(S) /\ Len(<<c>>) = 1 /\ <<c>>[1] = c
  OBVIOUS
<1>2. /\ f \in Seq(S) /\ Len(f) = 1 + Len(e) /\ Len(e) \in Nat
      /\ \A i \in 1..(1 + Len(e)) : f[i] = IF i <= 1 THEN <<c>>[i] ELSE e[i - 1]
  BY <1>1, ConcatProperties
<1>3. f # <<>> /\ f[1] = c /\ Head(f) = c
  BY <1>1, <1>2
<1>4. Tail(f) \in Seq(S) /\ Len(Tail(f)) = Len(e) /\ \A i \in 1..Len(Tail(f)) : Tail(f)[i] = f[i + 1]
  BY <1>2, <1>3, HeadTailProperties
<1>5. \A i \in 1..Len(Tail(f)) : Tail(f)[i] = e[i]
  BY <1>2, <1>4
<1>6. Tail(f) = e
  BY <1>4, <1>5, SeqEqual
<1> QED BY <1>2, <1>3, <1>6

\* ... and with one behind it
LEMMA Suffixed ==
  ASSUME NEW S, NEW c \in S, NEW e \in Seq(S), NEW f, f = e \o <<c>>
  PROVE  /\ f \in Seq(S) /\ f # <<>> /\ Last(f) = c /\ Front(f) = e /\ Len(f) = Len(e) + 1
         /\ e # <<>> => Head(f) = e[1]
<1>1. <<c>> \in Seq(S) /\ Len(<<c>>) = 1 /\ <<c>>[1] = c
  OBVIOUS
<1>2. /\ f \in Seq(S) /\ Len(f) = Len(e) + 1 /\ Len(e) \in Nat
      /\ \A i \in 1..(Len(e) + 1) : f[i] = IF i <= Len(e) THEN e[i] ELSE <<c>>[i - Len(e)]
  BY <1>1, ConcatProperties
<1>3. f # <<>> /\ f[Len(f)] = c
  <2>1. f[Len(e) + 1] = <<c>>[(Len(e) + 1) - Len(e)]
    BY <1>2
  <2> QED BY <1>1, <1>2, <2>1
<1>4. /\ Front(f) \in Seq(S) /\ Len(Front(f)) = Len(e)
      /\ \A i \in 1..Len(e) : Front(f)[i] = f[i]
  <2>1. \A i \in 1..(Len(f) - 1) : f[i] \in S
    BY <1>2
  <2>2. /\ SubSeq(f, 1, Len(f) - 1) \in Seq(S)
        /\ Len(SubSeq(f, 1, Len(f) - 1)) = IF 1 <= Len(f) - 1 THEN (Len(f) - 1) - 1 + 1 ELSE 0
        /\ \A i \in 1..((Len(f) - 1) - 1 + 1) : SubSeq(f, 1, Len(f) - 1)[i] = f[1 + i - 1]
    BY <1>2, <2>1, SubSeqProperties
  <2> QED BY <1>2, <2>2 DEF Front
<1>5. Front(f) = e
  <2>1. \A i \in 1..Len(Front(f)) : Front(f)[i] = e[i]
    BY <1>2, <1>4
  <2> QED BY <1>4, <2>1, SeqEqual
<1>6. e # <<>> => Head(f) = e[1]
  <2>1. e # <<>> => Len(e) >= 1
    OBVIOUS
  <2>2. e # <<>> => f[1] = e[1]
    BY <1>2, <2>1
  <2> QED BY <1>3, <2>2
<1> QED BY <1>2, <1>3, <1>5, <1>6 DEF Last

DotOf(form) == IF form = "double" THEN <<Dot>> ELSE <<>>

\* the characters d with the full stop of the form
Dotted(d, form) == d \o DotOf(form)

\* the point of a double cell numeral is its last character
LEMMA DottedParts ==
  ASSUME NEW form \in Forms, NEW d \in Seq(Characters)
  PROVE  /\ Dotted(d, form) \in Seq(Characters)
         /\ form = "double" => /\ Dotted(d, form) # <<>>
                               /\ Last(Dotted(d, form)) = Dot /\ Front(Dotted(d, form)) = d
         /\ form # "double" => Dotted(d, form) = d
         /\ d # <<>> => Dotted(d, form) # <<>> /\ Head(Dotted(d, form)) = d[1]
<1>1. CASE form = "double"
  <2>1. Dot \in Characters /\ Dotted(d, form) = d \o <<Dot>>
    BY <1>1 DEF Dotted, DotOf, Dot, Characters
  <2> DEFINE e == Dotted(d, form)
  <2>2. /\ e \in Seq(Characters) /\ e # <<>> /\ Last(e) = Dot /\ Front(e) = d
        /\ d # <<>> => Head(e) = d[1]
    <3>1. PICK c \in Characters : c = Dot
      BY <2>1
    <3>2. e = d \o <<c>>
      BY <2>1, <3>1
    <3> HIDE DEF e
    <3>3. e \in Seq(Characters) /\ e # <<>> /\ Last(e) = c /\ Front(e) = d /\ (d # <<>> => Head(e) = d[1])
      <4>1. PICK T, g : T = Characters /\ g = d
        OBVIOUS
      <4>2. c \in T /\ g \in Seq(T) /\ e = g \o <<c>>
        BY <3>2, <4>1
      <4>3. e \in Seq(T) /\ e # <<>> /\ Last(e) = c /\ Front(e) = g
        BY <4>2, Suffixed
      <4>4. (g # <<>> => Head(e) = g[1])
        BY <4>2, Suffixed
      <4> QED BY <4>1, <4>3, <4>4
    <3> QED BY <3>1, <3>3
  <2> HIDE DEF e
  <2> QED BY <1>1, <2>2 DEF e
<1>2. CASE form # "double"
  <2>1. Dotted(d, form) = d
    BY <1>2, ConcatEmptySeq DEF Dotted, DotOf
  <2> QED BY <1>2, <2>1
<1> QED BY <1>1, <1>2

\* texts can be joined in either order
LEMMA Regrouped ==
  ASSUME NEW s \in Seq(Characters), NEW t \in Seq(Characters), NEW u \in Seq(Characters)
  PROVE  (s \o t) \o u = s \o (t \o u)
<1>1. PICK C : C = Characters
  OBVIOUS
<1>2. s \in Seq(C) /\ t \in Seq(C) /\ u \in Seq(C)
  BY <1>1
<1> QED BY <1>2, ConcatAssociative, SMTT(30)

\* a numeral with its base, its sign and its point is a text, whose parts are found again
LEMMA Assembled ==
  ASSUME NEW form \in Forms, NEW d \in Seq(Characters), NEW p \in PrefixTexts, NEW s \in Signs
  PROVE  /\ s \o Dotted(d, form) \in Seq(Characters)
         /\ p \o (s \o Dotted(d, form)) \in Seq(Characters)
         /\ p \o s \o d \o DotOf(form) = p \o (s \o Dotted(d, form))
<1>1. p \in Seq(Characters) /\ s \in Seq(Characters) /\ DotOf(form) \in Seq(Characters)
  <2>1. \A c \in Characters : <<c>> \in Seq(Characters)
    OBVIOUS
  <2>2. <<>> \in Seq(Characters)
    OBVIOUS
  <2>3. BasePrefixes \subseteq Characters /\ Minus \in Characters /\ Dot \in Characters
    BY DEF BasePrefixes, Characters, Minus, Dot
  <2> HIDE DEF Characters
  <2> QED BY <2>1, <2>2, <2>3 DEF PrefixTexts, Signs, DotOf
<1>2. p \o s \in Seq(Characters) /\ s \o d \in Seq(Characters) /\ Dotted(d, form) \in Seq(Characters)
  BY <1>1, ConcatProperties, DottedParts
<1>3. (p \o s) \o d = p \o (s \o d)
  <2>1. p \in Seq(Characters) /\ s \in Seq(Characters)
    BY <1>1
  <2> QED BY <2>1, Regrouped
<1>4. (p \o (s \o d)) \o DotOf(form) = p \o ((s \o d) \o DotOf(form))
  <2>1. PICK t, u : t = s \o d /\ u = DotOf(form)
    OBVIOUS
  <2>2. t \in Seq(Characters) /\ u \in Seq(Characters) /\ p \in Seq(Characters)
    BY <1>1, <1>2, <2>1
  <2>3. (p \o t) \o u = p \o (t \o u)
    BY <2>2, Regrouped
  <2> QED BY <2>1, <2>3
<1>5. (s \o d) \o DotOf(form) = s \o Dotted(d, form)
  <2>1. PICK u \in Seq(Characters) : u = DotOf(form)
    BY <1>1
  <2>2. s \in Seq(Characters)
    BY <1>1
  <2>3. (s \o d) \o u = s \o (d \o u)
    BY <2>2, Regrouped
  <2> QED BY <2>1, <2>3 DEF Dotted
<1>6. s \o Dotted(d, form) \in Seq(Characters)
  BY <1>1, <1>2, ConcatProperties
<1>7. p \o (s \o Dotted(d, form)) \in Seq(Characters)
  BY <1>1, <1>6, ConcatProperties
<1> QED BY <1>3, <1>4, <1>5, <1>6, <1>7

\* the text is the prefix p, the sign s and the characters d, with neither at their start
Reading(form, b, p, s, d, text) ==
  /\ form \in Forms /\ b \in Int
  /\ p \in PrefixTexts /\ s \in Signs /\ d \in Seq(Characters)
  /\ d # <<>> /\ d[1] \notin BasePrefixes /\ d[1] # Minus
  /\ BaseOf(p, b) \in 2..36
  /\ text = p \o (s \o Dotted(d, form))

\* Such a text is read so.
LEMMA ParsedParts ==
  ASSUME NEW form, NEW b, NEW p, NEW s, NEW d, NEW text, Reading(form, b, p, s, d, text)
  PROVE  Parsed(form, text, b) = Signed(Value(d, BaseOf(p, b)), s # <<>>)
<1> USE DEF Reading
<1> DEFINE e == Dotted(d, form)
           plain == Unprefixed(text, b)
           f == s \o e
<1>1. /\ e \in Seq(Characters) /\ e # <<>> /\ Head(e) = d[1]
      /\ form = "double" => Last(e) = Dot /\ Front(e) = d
      /\ form # "double" => e = d
  BY DottedParts
<1> HIDE DEF e
<1>2. Minus \in Characters /\ Minus \notin BasePrefixes /\ BasePrefixes \subseteq Characters
  BY DEF Minus, Characters, BasePrefixes
<1>3. /\ f \in Seq(Characters) /\ f # <<>> /\ Head(f) \notin BasePrefixes
      /\ s # <<>> <=> Head(f) = Minus
      /\ s # <<>> => Tail(f) = e
      /\ s = <<>> => f = e
  <2>1. CASE s = <<>>
    <3>1. f = e
      BY <1>1, <2>1, ConcatEmptySeq
    <3> QED BY <1>1, <2>1, <3>1
  <2>2. CASE s = <<Minus>>
    <3>1. f = <<Minus>> \o e
      BY <2>2
    <3> HIDE DEF f
    <3>2. f \in Seq(Characters) /\ f # <<>> /\ Head(f) = Minus /\ Tail(f) = e
      BY <1>1, <1>2, <3>1, Prefixed
    <3>3. s # <<>>
      BY <2>2
    <3> QED BY <1>2, <3>2, <3>3
  <2> QED BY <2>1, <2>2 DEF Signs
<1> HIDE DEF f
<1>4. plain.text = f /\ plain.base = BaseOf(p, b)
  <2>1. CASE p = <<>>
    <3>1. text = f
      BY <1>3, <2>1, ConcatEmptySeq DEF f, e
    <3> QED BY <1>3, <2>1, <3>1 DEF Unprefixed, BaseOf
  <2>2. ASSUME NEW c \in BasePrefixes, p = <<c>> PROVE plain.text = f /\ plain.base = BaseOf(p, b)
    <3>1. text = <<c>> \o f /\ c \in Characters
      BY <1>2, <2>2 DEF f, e
    <3>2. text # <<>> /\ Head(text) = c /\ Tail(text) = f
      BY <1>3, <3>1, Prefixed
    <3>3. c \in {38, 39, 40, 41} /\ p # <<>> /\ Head(p) = c
      BY <2>2 DEF BasePrefixes
    <3>4. plain.text = f /\ plain.base = CASE c = 38 -> 2 [] c = 39 -> 8 [] c = 40 -> 10 [] c = 41 -> 16
      BY <3>2 DEF Unprefixed
    <3>5. BaseOf(p, b) = <<2, 8, 10, 16>>[c - 37]
      BY <3>3 DEF BaseOf
    <3> HIDE DEF plain
    <3>6. /\ c = 38 => c - 37 = 1 /\ plain.base = 2
          /\ c = 39 => c - 37 = 2 /\ plain.base = 8
          /\ c = 40 => c - 37 = 3 /\ plain.base = 10
          /\ c = 41 => c - 37 = 4 /\ plain.base = 16
      BY <3>4
    <3>7. /\ <<2, 8, 10, 16>>[1] = 2 /\ <<2, 8, 10, 16>>[2] = 8
          /\ <<2, 8, 10, 16>>[3] = 10 /\ <<2, 8, 10, 16>>[4] = 16
      OBVIOUS
    <3>8. plain.base = <<2, 8, 10, 16>>[c - 37]
      BY <3>3, <3>6, <3>7
    <3> QED BY <3>4, <3>5, <3>8
  <2> QED BY <2>1, <2>2 DEF PrefixTexts
<1> HIDE DEF plain
<1>5. Parsed(form, text, b) = Signed(Value(IF form = "double" THEN Front(e) ELSE e, BaseOf(p, b)), s # <<>>)
  BY <1>1, <1>3, <1>4 DEF Parsed, plain
<1> QED BY <1>1, <1>5

\* a part of a text between two others
LEMMA Middle ==
  ASSUME NEW S, NEW u \in Seq(S), NEW d \in Seq(S), NEW v \in Seq(S), NEW f, f = u \o (d \o v)
  PROVE  d = SubSeq(f, Len(u) + 1, Len(u) + Len(d))
<1>1. PICK e : e = d \o v
  OBVIOUS
<1>2. Len(u) \in Nat /\ Len(d) \in Nat /\ e \in Seq(S) /\ Len(e) >= Len(d) /\ Len(e) \in Nat
  BY <1>1, ConcatProperties, LenProperties
<1>3. PICK m \in Nat, n \in Nat : m = Len(u) + 1 /\ n = Len(u) + Len(d)
  BY <1>2
<1>4. CASE d = <<>>
  <2>1. n < m
    BY <1>2, <1>3, <1>4
  <2>2. SubSeq(f, m, n) = <<>>
    BY <2>1, SubSeqEmpty
  <2> QED BY <1>3, <1>4, <2>2
<1>5. CASE d # <<>>
  <2>1. /\ m \in (Len(u) + 1)..(Len(u) + Len(e)) /\ n \in (Len(u) + 1)..(Len(u) + Len(e))
        /\ m - Len(u) = 1 /\ n - Len(u) = Len(d) /\ Len(d) >= 1
    BY <1>2, <1>3, <1>5
  <2>2. SubSeq(u \o e, m, n) = SubSeq(e, m - Len(u), n - Len(u))
    BY <1>2, <2>1, SubSeqOfConcat2
  <2>3. SubSeq(d \o v, 1, Len(d)) = SubSeq(d, 1, Len(d))
    <3>1. 1 \in 1..Len(d) /\ Len(d) \in 1..Len(d)
      BY <1>2, <2>1
    <3> QED BY <3>1, SubSeqOfConcat1
  <2>4. SubSeq(d, 1, Len(d)) = d
    BY SubSeqFull
  <2> QED BY <1>1, <1>3, <2>1, <2>2, <2>3, <2>4
<1> QED BY <1>4, <1>5

\* the digits of a positive number start with a digit other than a sign
LEMMA DigitsStart ==
  ASSUME NEW b \in 2..36, NEW n \in Nat \ {0}
  PROVE  /\ Digits(n, b) \in Seq(Characters) /\ Digits(n, b) # <<>>
         /\ Digits(n, b)[1] \in 0..35
<1> DEFINE d == Digits(n, b)
<1>1. d \in Seq(0..(b - 1))
  BY DigitsType
<1>2. d # <<>>
  <2> DEFINE q == Digits(Quot(n, b), b)
             c == Rem(n, b)
  <2>1. d = Append(q, c)
    <3>1. b \in Nat /\ b >= 2
      OBVIOUS
    <3> QED BY <3>1, DigitsAre
  <2>2. q \in Seq(0..(b - 1)) /\ c \in 0..(b - 1)
    <3>1. Quot(n, b) \in Nat /\ Rem(n, b) \in 0..(b - 1)
      BY DivLess
    <3> QED BY <3>1, DigitsType
  <2> QED BY <2>1, <2>2
<1> HIDE DEF d
<1>3. 0..(b - 1) \subseteq Characters /\ 0..(b - 1) \subseteq 0..35
  BY DEF Characters
<1>4. d \in Seq(Characters)
  BY <1>1, <1>3, SeqMonotonic
<1>5. d[1] \in 0..(b - 1)
  BY <1>1, <1>2
<1> QED BY <1>2, <1>3, <1>4, <1>5 DEF d

\* the text of the number n is a sign and digits that mean m
WrittenAs(text, n, b, s, d, m) ==
  /\ text = s \o d
  /\ d # <<>> /\ d[1] \in 0..35
  /\ Value(d, b) = [ok |-> TRUE, value |-> m % M]
  /\ n = (IF s # <<>> THEN -m ELSE m) % M

\* A FORMAT word writes a sign and digits that have the number for their value.
LEMMA WrittenParts ==
  ASSUME NEW n \in Cells, NEW b \in 2..36, NEW signed \in BOOLEAN
  PROVE  \E s \in Signs, d \in Seq(Characters), m \in Nat :
           WrittenAs(Written(n, b, signed), n, b, s, d, m)
<1>1. n \in Nat /\ n < M /\ M \in Nat \ {0} /\ n % M = n
  BY MPositive, ModSmall DEF Cells
<1>2. CASE n = 0
  <2> DEFINE d == Append(<<>>, 0)
  <2>1. d \in Seq(Characters) /\ d # <<>> /\ d[1] = 0 /\ d = <<0>>
    BY DEF Characters
  <2>2. Value(d, b) = Step(Value(<<>>, b), 0, b)
    <3>1. <<>> \in Seq(Int) /\ 0 \in Int /\ b \in Int
      OBVIOUS
    <3> QED BY <3>1, ValueAppend
  <2>3. Value(<<>>, b) = [ok |-> TRUE, value |-> 0] /\ Accepts(0, b)
    BY ValueEmpty DEF Start, Accepts
  <2>4. Step([ok |-> TRUE, value |-> 0], 0, b) = [ok |-> TRUE, value |-> (0 * b + 0) % M]
    BY <2>3 DEF Step, Accumulated
  <2>5. 0 * b + 0 = 0
    OBVIOUS
  <2>6. Value(d, b) = [ok |-> TRUE, value |-> 0 % M]
    BY <2>2, <2>3, <2>4, <2>5
  <2>7. Written(n, b, signed) = <<>> \o d
    BY <1>2, <2>1, ConcatEmptySeq DEF Written
  <2>8. <<>> \in Signs /\ 0 \in Nat /\ n = 0 % M
    BY <1>1, <1>2 DEF Signs
  <2> HIDE DEF d
  <2>9. WrittenAs(Written(n, b, signed), n, b, <<>>, d, 0)
    BY <2>1, <2>6, <2>7, <2>8 DEF WrittenAs
  <2> QED BY <2>1, <2>8, <2>9
<1>3. CASE n # 0 /\ Negative(n, b, signed)
  <2> DEFINE m == M - n
             d == Digits(m, b)
  <2>1. m \in Nat \ {0}
    BY <1>1, <1>3
  <2>2. Written(n, b, signed) = <<Minus>> \o d
    BY <1>3 DEF Written
  <2>3. n = (-m) % M
    <3>1. PICK k \in Nat \ {0} : k = M
      BY <1>1
    <3>2. n % k = n /\ -m = n + (-1) * k
      BY <1>1, <3>1
    <3>3. (n + (-1) * k) % k = n % k
      <4>1. n \in Int /\ -1 \in Int
        BY <1>1
      <4> QED BY <4>1, ModOfMultiple
    <3> QED BY <3>1, <3>2, <3>3
  <2> HIDE DEF m
  <2>4. d \in Seq(Characters) /\ d # <<>> /\ d[1] \in 0..35
    BY <2>1, DigitsStart
  <2>5. Value(d, b) = [ok |-> TRUE, value |-> m % M]
    BY <2>1, DigitsRead
  <2>6. <<Minus>> \in Signs /\ <<Minus>> # <<>>
    BY DEF Signs
  <2> HIDE DEF d
  <2>7. WrittenAs(Written(n, b, signed), n, b, <<Minus>>, d, m)
    BY <2>2, <2>3, <2>4, <2>5, <2>6 DEF WrittenAs
  <2> QED BY <2>1, <2>4, <2>6, <2>7
<1>4. CASE n # 0 /\ ~Negative(n, b, signed)
  <2> DEFINE d == Digits(n, b)
  <2>1. d \in Seq(Characters) /\ d # <<>> /\ d[1] \in 0..35
    BY <1>1, <1>4, DigitsStart
  <2>2. Value(d, b) = [ok |-> TRUE, value |-> n % M]
    BY <1>1, DigitsRead
  <2>3. Written(n, b, signed) = d
    BY <1>4 DEF Written
  <2> HIDE DEF d
  <2>4. Written(n, b, signed) = <<>> \o d
    BY <2>1, <2>3, ConcatEmptySeq
  <2>5. <<>> \in Signs
    BY DEF Signs
  <2>6. WrittenAs(Written(n, b, signed), n, b, <<>>, d, n)
    BY <1>1, <2>1, <2>2, <2>4 DEF WrittenAs
  <2> QED BY <1>1, <2>1, <2>5, <2>6
<1> QED BY <1>2, <1>3, <1>4

\* what FORMAT writes is a text
LEMMA WrittenType ==
  ASSUME NEW n \in Cells, NEW b \in Nat, NEW signed \in BOOLEAN
  PROVE  Written(n, b, signed) \in Seq(Characters)
<1>1. CASE b \in 2..36
  <2>1. PICK s \in Signs, d \in Seq(Characters), m \in Nat : WrittenAs(Written(n, b, signed), n, b, s, d, m)
    BY <1>1, WrittenParts
  <2>2. s \in Seq(Characters)
    <3>1. <<>> \in Seq(Characters) /\ <<Minus>> \in Seq(Characters)
      BY DEF Characters, Minus
    <3> QED BY <3>1 DEF Signs
  <2> QED BY <2>1, <2>2, ConcatProperties DEF WrittenAs
<1>2. CASE b \notin 2..36
  <2>1. Written(n, b, signed) = <<0>> \/ Written(n, b, signed) = <<>>
    BY <1>2 DEF Written
  <2>2. <<0>> \in Seq(Characters) /\ <<>> \in Seq(Characters)
    BY DEF Characters
  <2> QED BY <2>1, <2>2
<1> QED BY <1>1, <1>2

\* FORMAT writes no more characters than a cell has bits.
LEMMA WrittenFits ==
  ASSUME NEW n \in Cells, NEW b \in Nat, NEW signed \in BOOLEAN
  PROVE  Len(Written(n, b, signed)) <= Width
<1>1. /\ n \in Nat /\ n < M /\ M \in Nat \ {0} /\ Width \in Nat /\ Width >= 2
      /\ M = Power(2, Width)
  BY MPositive, NumberSizes DEF Cells, M
<1>2. CASE n = 0
  BY <1>1, <1>2 DEF Written
<1>3. CASE n # 0 /\ b \notin 2..36
  BY <1>1, <1>3 DEF Written
<1>4. CASE n # 0 /\ b \in 2..36 /\ Negative(n, b, signed)
  <2> DEFINE m == M - n
             d == Digits(m, b)
             q == Quot(m, b)
  <2>1. b = 10 /\ b >= 2 /\ m \in Nat \ {0} /\ 2 * m <= M
    BY <1>1, <1>4 DEF Negative
  <2>2. Written(n, b, signed) = <<Minus>> \o d
    BY <1>4, <2>1 DEF Written
  <2> HIDE DEF m
  <2>3. q \in Nat /\ m = q * b + Rem(m, b) /\ Rem(m, b) \in 0..9
    <3>1. q \in 0..(m - 1) /\ m = q * b + Rem(m, b) /\ Rem(m, b) \in 0..(b - 1)
      BY <2>1, DivLess
    <3> QED BY <2>1, <3>1
  <2>4. q < Power(2, Width - 2) /\ Width - 2 \in Nat
    <3>1. PICK k \in Nat \ {0} : k = Power(2, Width - 2) /\ M = 4 * k
      BY MPositive
    <3> HIDE DEF q
    <3>2. m = q * 10 + Rem(m, b)
      BY <2>1, <2>3
    <3>3. q < k
      BY <2>1, <2>3, <3>1, <3>2
    <3> QED BY <1>1, <3>1, <3>3
  <2>5. Len(Digits(q, b)) <= Width - 2 /\ Digits(q, b) \in Seq(0..9)
    <3> HIDE DEF q
    <3>1. Len(Digits(q, b)) <= Width - 2
      BY <2>1, <2>3, <2>4, DigitsFit
    <3>2. Digits(q, b) \in Seq(0..(b - 1))
      BY <2>1, <2>3, DigitsType
    <3> QED BY <2>1, <3>1, <3>2
  <2>6. d = Append(Digits(q, b), Rem(m, b))
    BY <2>1, DigitsAre
  <2>7. d \in Seq(0..9) /\ Len(d) <= Width - 1
    <3> HIDE DEF q, d
    <3>1. d \in Seq(0..9) /\ Len(d) = Len(Digits(q, b)) + 1
      BY <2>3, <2>5, <2>6
    <3> QED BY <1>1, <2>5, <3>1
  <2> HIDE DEF d
  <2>8. Len(<<Minus>> \o d) = 1 + Len(d)
    <3>1. <<Minus>> \in Seq(Int) /\ d \in Seq(Int) /\ Len(<<Minus>>) = 1
      BY <2>7 DEF Minus
    <3> QED BY <3>1, ConcatProperties
  <2> QED BY <1>1, <2>2, <2>7, <2>8
<1>5. CASE n # 0 /\ b \in 2..36 /\ ~Negative(n, b, signed)
  <2>1. b \in Nat /\ b >= 2 /\ n < Power(2, Width)
    BY <1>1, <1>5
  <2>2. Len(Digits(n, b)) <= Width
    BY <1>1, <2>1, DigitsFit
  <2> QED BY <1>5, <2>2 DEF Written
<1> QED BY <1>2, <1>3, <1>4, <1>5

-----------------------------------------------------------------------------
(* The invariant, and what follows of it.                                  *)

WrittenInv ==
  written # Nothing =>
    /\ written.form \in Forms /\ written.base \in Bases /\ written.number \in Cells
    /\ \E signed \in BOOLEAN : written.text = Written(written.number, written.base, signed)

\* what was read is what was written, if anything was
ReadInv ==
  read # Nothing =>
    /\ read.form \in Forms /\ read.base \in Bases /\ read.text \in Seq(Characters)
    /\ read.ok = Parsed(read.form, read.text, read.base).ok
    /\ read.value = Parsed(read.form, read.text, read.base).value
    /\ written # Nothing => read.form = written.form
                            /\ read.text = Dotted(written.text, written.form)

\* The base is one of those a program sets, the last text written is the text of
\* its number, the last one read was read as the parser reads it and is the one
\* that was written.
IInv == base \in Bases /\ WrittenInv /\ ReadInv

\* what PARSE reads back keeps the invariant
LEMMA ReadsKeep ==
  ASSUME IInv, NEW form \in Forms, NEW text \in Seq(Characters), Reads(form, text),
         written # Nothing => form = written.form /\ text = Dotted(written.text, written.form)
  PROVE  IInv'
<1>1. read' = [form |-> form, base |-> base, text |-> text,
               ok |-> Parsed(form, text, base).ok, value |-> Parsed(form, text, base).value]
      /\ base' = base /\ written' = written
  BY DEF Reads
<1>2. WrittenInv'
  BY <1>1 DEF IInv, WrittenInv
<1>3. ReadInv'
  <2>1. base \in Bases
    BY DEF IInv
  <2> QED BY <1>1, <2>1 DEF ReadInv
<1> QED BY <1>1, <1>2, <1>3 DEF IInv

\* Nothing is written or read at first.
LEMMA InvInit == Init => IInv
BY NumberSizes DEF Init, IInv, WrittenInv, ReadInv, Nothing

\* Every word keeps the invariant.
LEMMA InvStep == IInv /\ [Next]_vars => IInv'
<1>1. SUFFICES ASSUME IInv, [Next]_vars PROVE IInv'
  OBVIOUS
<1>2. ASSUME NEW b \in Bases, SetBase(b) PROVE IInv'
  BY <1>1, <1>2 DEF SetBase, IInv, WrittenInv, ReadInv
<1>3. ASSUME NEW form \in Forms, NEW signed \in BOOLEAN, NEW n \in Cells, Format(form, signed, n)
      PROVE  IInv'
  <2>1. written' = [form |-> form, base |-> base, number |-> n, text |-> Written(n, base, signed)]
        /\ base' = base /\ read' = Nothing /\ base \in Bases
    BY <1>1, <1>3 DEF Format, IInv
  <2>2. WrittenInv'
    BY <2>1 DEF WrittenInv
  <2>3. ReadInv'
    BY <2>1 DEF ReadInv
  <2> QED BY <2>1, <2>2, <2>3 DEF IInv
<1>4. CASE ReadBack
  <2>1. /\ written # Nothing /\ written.form \in Forms
        /\ written.base \in Nat /\ written.number \in Cells
    BY <1>1, <1>4, NumberSizes DEF ReadBack, IInv, WrittenInv
  <2>2. written.text \in Seq(Characters)
    BY <1>1, <2>1, WrittenType DEF IInv, WrittenInv
  <2>3. PICK t, f : t = written.text /\ f = written.form
    OBVIOUS
  <2>4. (IF f = "double" THEN Append(t, Dot) ELSE t) = Dotted(t, f)
    <3>1. Dot \in Characters
      BY DEF Dot, Characters
    <3>2. t \in Seq(Characters)
      BY <2>2, <2>3
    <3>3. Append(t, Dot) = t \o <<Dot>>
      BY <3>1, <3>2, AppendIsConcat
    <3>4. t \o <<>> = t
      BY <3>2, ConcatEmptySeq
    <3> QED BY <3>3, <3>4 DEF Dotted, DotOf
  <2>5. Reads(f, Dotted(t, f))
    BY <1>4, <2>3, <2>4 DEF ReadBack
  <2>6. Dotted(t, f) \in Seq(Characters)
    BY <2>1, <2>2, <2>3, DottedParts
  <2> QED BY <1>1, <2>1, <2>3, <2>5, <2>6, ReadsKeep
<1>5. ASSUME NEW form \in Forms, NEW text \in SeqOf(Alphabet, MaxText), ReadText(form, text)
      PROVE  IInv'
  <2>1. written = Nothing /\ Reads(form, text)
    BY <1>5 DEF ReadText
  <2>2. text \in Seq(Characters)
    <3>1. PICK m \in 0..MaxText : text \in [1..m -> Alphabet]
      BY DEF SeqOf
    <3>2. m \in Nat /\ text \in Seq(Alphabet)
      BY <3>1, NumberSizes
    <3> QED BY <3>2, NumberSizes, SeqMonotonic
  <2> QED BY <1>1, <2>1, <2>2, ReadsKeep
<1>6. CASE UNCHANGED vars
  BY <1>1, <1>6 DEF vars, IInv, WrittenInv, ReadInv
<1> QED BY <1>1, <1>2, <1>3, <1>4, <1>5, <1>6 DEF Next

\* The invariant from which the four properties follow.
THEOREM SpecInv == Spec => []IInv
BY InvInit, InvStep, PTL DEF Spec

\* No FORMAT word writes more than its buffer takes: a number of Width bits has at
\* most Width digits in any base, and the only signed one, of base ten, one less.
THEOREM SpecTextFits == Spec => []TextFits
<1>1. IInv => TextFits
  BY WrittenFits, NumberSizes DEF IInv, WrittenInv, TextFits
<1> QED BY <1>1, SpecInv, PTL

\* What a FORMAT word writes is read as the number it was, while the base is the
\* one it was written in.
THEOREM SpecRoundTrip == Spec => []RoundTrip
<1>1. ASSUME IInv, written # Nothing, read # Nothing, written.base \in 2..36,
             read.base = written.base
      PROVE  read.ok /\ read.value = written.number
  <2>1. PICK form \in Forms, b \in 2..36, n \in Cells, signed \in BOOLEAN :
          /\ form = read.form /\ b = read.base /\ n = written.number
          /\ written.text = Written(n, b, signed) /\ read.text = Dotted(written.text, form)
          /\ read.ok = Parsed(form, read.text, b).ok
          /\ read.value = Parsed(form, read.text, b).value
    BY <1>1 DEF IInv, WrittenInv, ReadInv
  <2>2. PICK s \in Signs, d \in Seq(Characters), m \in Nat :
          WrittenAs(Written(n, b, signed), n, b, s, d, m)
    BY WrittenParts
  <2>3. /\ d # <<>> /\ d[1] \in 0..35 /\ written.text = s \o d
        /\ Value(d, b) = [ok |-> TRUE, value |-> m % M]
        /\ n = (IF s # <<>> THEN -m ELSE m) % M
    BY <2>1, <2>2 DEF WrittenAs
  <2>4. PICK p \in PrefixTexts : p = <<>>
    BY DEF PrefixTexts
  <2>5. read.text = p \o (s \o Dotted(d, form))
    <3>1. <<>> \o s = s
      <4>1. s \in Seq(Int)
        <5>1. <<>> \in Seq(Int) /\ <<Minus>> \in Seq(Int)
          BY DEF Minus
        <5> QED BY <5>1 DEF Signs
      <4> QED BY <4>1, ConcatEmptySeq
    <3>2. p \o s \o d \o DotOf(form) = p \o (s \o Dotted(d, form))
      BY Assembled
    <3>3. read.text = (s \o d) \o DotOf(form)
      BY <2>1, <2>3 DEF Dotted
    <3> QED BY <2>4, <3>1, <3>2, <3>3
  <2>6. BaseOf(p, b) = b
    BY <2>4 DEF BaseOf
  <2>7. Parsed(form, read.text, b) = Signed(Value(d, b), s # <<>>)
    <3>0. PICK text : text = read.text
      OBVIOUS
    <3>1. PICK c \in 0..35 : c = d[1]
      BY <2>3
    <3>2. c \notin BasePrefixes /\ c # Minus
      BY DEF BasePrefixes, Minus
    <3>3. b \in Int /\ d[1] \notin BasePrefixes /\ d[1] # Minus /\ text = p \o (s \o Dotted(d, form))
      BY <2>5, <3>0, <3>1, <3>2
    <3>4. BaseOf(p, b) \in 2..36
      BY <2>6
    <3>5. Parsed(form, text, b) = Signed(Value(d, BaseOf(p, b)), s # <<>>)
      <4>1. Reading(form, b, p, s, d, text)
        BY <2>3, <3>3, <3>4 DEF Reading
      <4> QED BY <4>1, ParsedParts
    <3> QED BY <2>6, <3>0, <3>5
  <2>8. PICK v : v = Value(d, b)
    OBVIOUS
  <2>12. PICK neg \in BOOLEAN : neg = (s # <<>>)
    OBVIOUS
  <2>13. PICK k \in Int : k = m
    OBVIOUS
  <2>9. m % M \in Int
    BY MPositive
  <2>10. v \in Result /\ v.ok /\ v.value = k % M
    BY <2>3, <2>8, <2>9, <2>13 DEF Result
  <2>11. Signed(v, neg).ok /\ Signed(v, neg).value = (IF neg THEN -k ELSE k) % M
    BY <2>10, SignedMeans
  <2> QED BY <2>1, <2>3, <2>7, <2>8, <2>11, <2>12, <2>13
<1>2. IInv => RoundTrip
  BY <1>1 DEF RoundTrip
<1> QED BY <1>2, SpecInv, PTL

\* A text of digits of the base is accepted, and its value is the one they mean.
LEMMA ReadAsMeant ==
  ASSUME NEW d \in Seq(Int), NEW e \in 2..36,
         NEW s \in Signs, NEW r, r = Signed(Value(d, e), s # <<>>)
  PROVE  /\ r.ok <=> \A i \in DOMAIN d : Accepts(d[i], e)
         /\ r.ok => r.value = Meaning(d, e, s # <<>>)
<1>1. PICK v : v = Value(d, e)
  OBVIOUS
<1>2. PICK neg \in BOOLEAN : neg = (s # <<>>)
  OBVIOUS
<1>3. PICK t : t = Total(d, e)
  OBVIOUS
<1>4. t \in Int /\ v \in Result /\ (v.ok => v.value = t % M)
      /\ (v.ok <=> \A i \in DOMAIN d : Accepts(d[i], e))
  <2>1. e \in Int
    OBVIOUS
  <2> QED BY <1>1, <1>3, <2>1, ValueMeans
<1>5. Meaning(d, e, neg) = (IF neg THEN -t ELSE t) % M
  BY <1>3 DEF Meaning, Total, Weights
<1>6. r = Signed(v, neg)
  BY <1>1, <1>2
<1>7. r.ok <=> v.ok
  BY <1>4, <1>6 DEF Signed, Result
<1>8. v.ok => r.value = Meaning(d, e, neg)
  BY <1>4, <1>5, <1>6, SignedMeans
<1> QED BY <1>2, <1>4, <1>7, <1>8

\* what is left of a text without its base, its sign and its point is a part of it
LEMMA PartOf ==
  ASSUME NEW text, NEW i \in 1..3, NEW j \in {Len(text) - 1, Len(text)}
  PROVE  SubSeq(text, i, j) \in Parts(text)
<1>1. PICK I, J : I = 1..3 /\ J = {Len(text) - 1, Len(text)}
  OBVIOUS
<1>2. Parts(text) = {SubSeq(text, k, l) : k \in I, l \in J}
  BY <1>1 DEF Parts
<1>3. i \in I /\ j \in J
  BY <1>1
<1> QED BY <1>2, <1>3

\* ... and a text
LEMMA PartsType ==
  ASSUME NEW text \in Seq(Characters), NEW d \in Parts(text)
  PROVE  d \in Seq(Characters)
<1>1. PICK i \in 1..3, j \in {Len(text) - 1, Len(text)} : d = SubSeq(text, i, j)
  BY DEF Parts
<1>2. i \in Int /\ j \in Int /\ \A k \in i..j : k \in 1..Len(text)
  BY LenProperties
<1>3. \A k \in i..j : text[k] \in Characters
  BY <1>2, ElementOfSeq
<1> QED BY <1>1, <1>2, <1>3, SubSeqProperties

\* Every text of digits of the base, a sign and a prefix or not, is read as the
\* number it means.
THEOREM SpecReadsNumerals == Spec => []ReadsNumerals
<1>1. ASSUME IInv, read # Nothing, NEW p \in PrefixTexts, NEW s \in Signs,
             NEW d \in Parts(read.text), ReadIs(p, s, d), d # <<>>,
             \A i \in DOMAIN d : d[i] < BaseOf(p, read.base)
      PROVE  ReadAs(p, s, d)
  <2>1. PICK form \in Forms, b \in Nat, text \in Seq(Characters) :
          /\ form = read.form /\ b = read.base /\ text = read.text
          /\ read.ok = Parsed(form, text, b).ok /\ read.value = Parsed(form, text, b).value
    BY <1>1, NumberSizes DEF IInv, ReadInv
  <2>2. d \in Seq(Characters)
    BY <2>1, PartsType
  <2>3. PICK e \in 2..36 : e = BaseOf(p, b)
    BY <1>1, <2>1 DEF ReadIs
  <2>4. Characters \subseteq Int /\ Characters \subseteq Nat
    BY DEF Characters
  <2>5. d \in Seq(Int) /\ \A i \in DOMAIN d : d[i] \in Nat /\ d[i] < e
    <3>1. d \in Seq(Int)
      BY <2>2, <2>4, SeqMonotonic
    <3>2. \A i \in DOMAIN d : d[i] \in Characters
      BY <2>2
    <3> QED BY <1>1, <2>1, <2>3, <2>4, <3>1, <3>2
  <2>6. text = p \o (s \o Dotted(d, form))
    <3>1. text = p \o s \o d \o DotOf(form)
      BY <1>1, <2>1 DEF ReadIs, DotOf
    <3> QED BY <2>2, <3>1, Assembled
  <2>7. Parsed(form, text, b) = Signed(Value(d, e), s # <<>>)
    <3>1. 1 \in DOMAIN d
      BY <1>1, <2>2
    <3>2. PICK c \in Nat : c = d[1] /\ c < 36
      <4>1. d[1] \in Nat /\ d[1] < e
        BY <2>5, <3>1
      <4>2. PICK c \in Nat : c = d[1]
        BY <4>1
      <4> QED BY <4>1, <4>2
    <3>3. c \notin BasePrefixes /\ c # Minus
      BY <3>2 DEF BasePrefixes, Minus
    <3>4. BaseOf(p, b) \in 2..36 /\ d[1] \notin BasePrefixes /\ d[1] # Minus
      BY <2>3, <3>2, <3>3
    <3>5. Parsed(form, text, b) = Signed(Value(d, BaseOf(p, b)), s # <<>>)
      <4>1. b \in Int /\ d # <<>>
        BY <1>1
      <4>2. Reading(form, b, p, s, d, text)
        BY <2>2, <2>6, <3>4, <4>1 DEF Reading
      <4> QED BY <4>2, ParsedParts
    <3> QED BY <2>3, <3>5
  <2>8. \A i \in DOMAIN d : Accepts(d[i], e)
    BY <2>5 DEF Accepts
  <2>9. PICK r : r = Parsed(form, text, b)
    OBVIOUS
  <2>10. r.ok /\ r.value = Meaning(d, e, s # <<>>)
    BY <2>5, <2>7, <2>8, <2>9, ReadAsMeant
  <2> QED BY <2>1, <2>3, <2>9, <2>10 DEF ReadAs
<1>2. IInv => ReadsNumerals
  BY <1>1 DEF ReadsNumerals
<1> QED BY <1>2, SpecInv, PTL

\* The parts the parser takes a text it accepts into.
LEMMA ParsedFrom ==
  ASSUME NEW form \in Forms, NEW b \in Nat, NEW text \in Seq(Characters),
         Parsed(form, text, b).ok
  PROVE  \E p \in PrefixTexts, s \in Signs, d \in Seq(Characters) :
           /\ text = p \o (s \o Dotted(d, form)) /\ BaseOf(p, b) \in 2..36
           /\ d = <<>> => form = "double"
           /\ Parsed(form, text, b) = Signed(Value(d, BaseOf(p, b)), s # <<>>)
<1> DEFINE plain == Unprefixed(text, b)
           t == plain.text
           rest == IF t # <<>> /\ Head(t) = Minus THEN Tail(t) ELSE t
           d == IF form = "double" THEN Front(rest) ELSE rest
           neg == t # <<>> /\ Head(t) = Minus
<1>1. PICK p \in PrefixTexts : text = p \o t /\ plain.base = BaseOf(p, b) /\ t \in Seq(Characters)
  <2>1. CASE text # <<>> /\ Head(text) \in BasePrefixes
    <3>1. PICK c \in BasePrefixes : c = Head(text)
      BY <2>1
    <3>2. <<c>> \in PrefixTexts /\ <<c>> # <<>> /\ Head(<<c>>) = c /\ c \in {38, 39, 40, 41}
      BY DEF PrefixTexts, BasePrefixes
    <3>3. t = Tail(text) /\ plain.base = CASE c = 38 -> 2 [] c = 39 -> 8 [] c = 40 -> 10 [] c = 41 -> 16
      BY <2>1, <3>1 DEF Unprefixed
    <3>4. BaseOf(<<c>>, b) = <<2, 8, 10, 16>>[c - 37]
      BY <3>2 DEF BaseOf
    <3>5. plain.base = BaseOf(<<c>>, b)
      <4> HIDE DEF plain
      <4> QED BY <3>2, <3>3, <3>4
    <3>6. text = <<c>> \o Tail(text) /\ Tail(text) \in Seq(Characters)
      BY <2>1, <3>1
    <3> HIDE DEF plain, t
    <3> QED BY <3>2, <3>3, <3>5, <3>6
  <2>2. CASE ~(text # <<>> /\ Head(text) \in BasePrefixes)
    <3>1. t = text /\ plain.base = b
      BY <2>2 DEF Unprefixed
    <3>2. <<>> \in PrefixTexts /\ BaseOf(<<>>, b) = b
      BY DEF PrefixTexts, BaseOf
    <3> HIDE DEF plain, t
    <3> QED BY <3>1, <3>2, ConcatEmptySeq
  <2> QED BY <2>1, <2>2
<1>2. /\ plain.base \in 2..36 /\ rest # <<>> /\ (form = "double" => Last(rest) = Dot)
      /\ Parsed(form, text, b) = Signed(Value(d, plain.base), neg)
  BY DEF Parsed, Failed
<1> HIDE DEF plain
<1>3. PICK s \in Signs : t = s \o rest /\ neg = (s # <<>>) /\ rest \in Seq(Characters)
  <2> HIDE DEF t
  <2>1. CASE neg
    <3>1. t = <<Minus>> \o Tail(t) /\ Tail(t) \in Seq(Characters) /\ rest = Tail(t)
      BY <1>1, <2>1
    <3>2. <<Minus>> \in Signs /\ <<Minus>> # <<>>
      BY DEF Signs
    <3> QED BY <2>1, <3>1, <3>2
  <2>2. CASE ~neg
    <3>1. t = rest /\ <<>> \in Signs
      BY <2>2 DEF Signs
    <3> QED BY <1>1, <2>2, <3>1, ConcatEmptySeq
  <2> QED BY <2>1, <2>2
<1> HIDE DEF rest, t, neg
<1>4. d \in Seq(Characters) /\ rest = Dotted(d, form) /\ (d = <<>> => form = "double")
  <2>1. CASE form = "double"
    <3>1. PICK q \in Seq(Characters), c \in Characters : rest = Append(q, c)
      BY <1>2, <1>3, SequenceEmptyOrAppend
    <3>2. rest = q \o <<c>>
      BY <3>1, AppendIsConcat
    <3>3. Last(rest) = c /\ Front(rest) = q
      BY <3>2, Suffixed
    <3> QED BY <1>2, <2>1, <3>1, <3>2, <3>3 DEF Dotted, DotOf
  <2>2. CASE form # "double"
    <3>1. d = rest
      BY <2>2
    <3> HIDE DEF d
    <3> QED BY <1>2, <1>3, <2>2, <3>1, ConcatEmptySeq DEF Dotted, DotOf
  <2> QED BY <2>1, <2>2
<1> HIDE DEF d
<1>5. text = p \o (s \o Dotted(d, form))
  BY <1>1, <1>3, <1>4
<1>6. BaseOf(p, b) \in 2..36 /\ Parsed(form, text, b) = Signed(Value(d, BaseOf(p, b)), s # <<>>)
  BY <1>1, <1>2, <1>3
<1> QED BY <1>4, <1>5, <1>6

\* No text but a number is read as one, save for the letters in a base below ten
\* and the double without digits.
THEOREM SpecReadsNothingElse == Spec => []ReadsNothingElse
<1>1. ASSUME IInv, read # Nothing, read.ok
      PROVE  \E p \in PrefixTexts, s \in Signs, d \in Parts(read.text) :
               /\ ReadIs(p, s, d) /\ ReadAs(p, s, d)
               /\ d = <<>> => read.form = "double"
               /\ \A i \in DOMAIN d :
                    d[i] < BaseOf(p, read.base) \/ (BaseOf(p, read.base) < 10 /\ d[i] \in 10..35)
  <2>1. PICK form \in Forms, b \in Nat, text \in Seq(Characters) :
          /\ form = read.form /\ b = read.base /\ text = read.text
          /\ read.ok = Parsed(form, text, b).ok /\ read.value = Parsed(form, text, b).value
    BY <1>1, NumberSizes DEF IInv, ReadInv
  <2>2. PICK p \in PrefixTexts, s \in Signs, d \in Seq(Characters) :
           /\ text = p \o (s \o Dotted(d, form)) /\ BaseOf(p, b) \in 2..36
           /\ d = <<>> => form = "double"
           /\ Parsed(form, text, b) = Signed(Value(d, BaseOf(p, b)), s # <<>>)
    BY <1>1, <2>1, ParsedFrom
  <2>3. ReadIs(p, s, d)
    <3>1. text = p \o s \o d \o DotOf(form)
      BY <2>2, Assembled
    <3> QED BY <2>1, <2>2, <3>1 DEF ReadIs, DotOf
  <2>4. d \in Parts(text)
    <3>1. PICK u, v : u = p \o s /\ v = DotOf(form)
      OBVIOUS
    <3>2. /\ p \in Seq(Characters) /\ s \in Seq(Characters) /\ v \in Seq(Characters)
          /\ Len(p) \in 0..1 /\ Len(s) \in 0..1 /\ Len(v) \in 0..1
      <4>1. ASSUME NEW c \in Characters PROVE <<c>> \in Seq(Characters) /\ Len(<<c>>) \in 0..1
        OBVIOUS
      <4>2. <<>> \in Seq(Characters) /\ Len(<<>>) \in 0..1
        OBVIOUS
      <4>3. BasePrefixes \subseteq Characters /\ Minus \in Characters /\ Dot \in Characters
        BY DEF BasePrefixes, Characters, Minus, Dot
      <4> HIDE DEF Characters
      <4>4. p \in Seq(Characters) /\ Len(p) \in 0..1
        BY <4>1, <4>2, <4>3 DEF PrefixTexts
      <4>5. s \in Seq(Characters) /\ Len(s) \in 0..1
        BY <4>1, <4>2, <4>3 DEF Signs
      <4>6. v \in Seq(Characters) /\ Len(v) \in 0..1
        BY <3>1, <4>1, <4>2, <4>3 DEF DotOf
      <4> QED BY <4>4, <4>5, <4>6
    <3>3. u \in Seq(Characters) /\ Len(u) = Len(p) + Len(s)
      BY <3>1, <3>2, ConcatProperties
    <3>4. PICK x : x = d \o v
      OBVIOUS
    <3>5. x \in Seq(Characters) /\ Len(x) = Len(d) + Len(v) /\ Len(d) \in Nat
      BY <3>2, <3>4, ConcatProperties, LenProperties
    <3>6. text = u \o x
      <4>1. x = Dotted(d, form)
        BY <3>1, <3>4 DEF Dotted
      <4>2. text = p \o (s \o x)
        BY <2>2, <4>1
      <4>3. (p \o s) \o x = p \o (s \o x)
        <5>1. PICK S : S = Characters
          OBVIOUS
        <5>2. p \in Seq(S) /\ s \in Seq(S) /\ x \in Seq(S)
          BY <3>2, <3>5, <5>1
        <5> QED BY <5>2, ConcatAssociative
      <4> QED BY <3>1, <4>2, <4>3
    <3>7. Len(text) = Len(u) + Len(x)
      BY <3>3, <3>5, <3>6, ConcatProperties
    <3>8. d = SubSeq(text, Len(u) + 1, Len(u) + Len(d))
      <4>1. PICK S : S = Characters
        OBVIOUS
      <4>2. d \in Seq(Characters)
        BY <3>2
      <4>3. u \in Seq(S) /\ d \in Seq(S) /\ v \in Seq(S) /\ text = u \o (d \o v)
        BY <3>2, <3>3, <3>4, <3>6, <4>1, <4>2
      <4> QED BY <4>3, Middle
    <3>9. PICK i, j : i = Len(u) + 1 /\ j = Len(u) + Len(d)
      OBVIOUS
    <3>10. i \in 1..3 /\ Len(u) \in 0..2
      <4>1. PICK a \in 0..1 : a = Len(p)
        BY <3>2
      <4>2. PICK k \in 0..1 : k = Len(s)
        BY <3>2
      <4>3. Len(u) = a + k /\ i = a + k + 1
        BY <3>3, <3>9, <4>1, <4>2
      <4> QED BY <4>3
    <3>11. j \in {Len(text) - 1, Len(text)}
      <4>1. PICK a \in 0..2 : a = Len(u)
        BY <3>10
      <4>3. PICK k \in Nat : k = Len(d)
        BY <3>5
      <4>4. PICK l \in 0..1 : l = Len(v)
        BY <3>2
      <4>2. j = a + k /\ Len(text) = a + (k + l)
        BY <3>5, <3>7, <3>9, <4>1, <4>3, <4>4
      <4> QED BY <4>2
    <3>12. d = SubSeq(text, i, j)
      BY <3>8, <3>9
    <3>13. SubSeq(text, i, j) \in Parts(text)
      BY <3>10, <3>11, PartOf
    <3> QED BY <3>12, <3>13
  <2>5. PICK e \in 2..36 : e = BaseOf(p, b)
    BY <2>2
  <2>6. d \in Seq(Int) /\ \A i \in DOMAIN d : d[i] \in Nat
    <3>1. Characters \subseteq Int /\ Characters \subseteq Nat
      BY DEF Characters
    <3>2. \A i \in DOMAIN d : d[i] \in Characters
      OBVIOUS
    <3>3. d \in Seq(Int)
      BY <3>1, SeqMonotonic
    <3> QED BY <3>1, <3>2, <3>3
  <2>7. PICK r : r = Parsed(form, text, b)
    OBVIOUS
  <2>8. r.ok /\ r = Signed(Value(d, e), s # <<>>)
    BY <1>1, <2>1, <2>2, <2>5, <2>7
  <2>9. /\ r.value = Meaning(d, e, s # <<>>)
        /\ \A i \in DOMAIN d : Accepts(d[i], e)
    BY <2>6, <2>8, ReadAsMeant
  <2>10. ReadAs(p, s, d)
    BY <1>1, <2>1, <2>5, <2>7, <2>9 DEF ReadAs
  <2>11. \A i \in DOMAIN d : d[i] < e \/ (e < 10 /\ d[i] \in 10..35)
    <3>1. ASSUME NEW i \in DOMAIN d PROVE d[i] < e \/ (e < 10 /\ d[i] \in 10..35)
      <4>1. PICK c \in Nat : c = d[i]
        BY <2>6
      <4>2. Accepts(c, e)
        BY <2>9, <4>1
      <4>3. c < e \/ (e < 10 /\ c \in 10..35)
        BY <4>2 DEF Accepts
      <4> QED BY <4>1, <4>3
    <3> QED BY <3>1
  <2> QED BY <2>1, <2>2, <2>3, <2>4, <2>5, <2>10, <2>11
<1>2. IInv => ReadsNothingElse
  BY <1>1 DEF ReadsNothingElse
<1> QED BY <1>2, SpecInv, PTL

===============================================================================
