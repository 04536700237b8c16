------------------------------- MODULE IoProofs -------------------------------
(***************************************************************************)
(* The IO thread's lists, counts and memory for every number of tasks,     *)
(* actions and file descriptors, in every state that comes before a task   *)
(* destroys an action that is done and that the IO thread still has in     *)
(* hand (Astray).                                                          *)
(***************************************************************************)
EXTENDS IoManager, FiniteSetTheorems, WellFoundedInduction, TLAPS

-----------------------------------------------------------------------------
(* Lists.                                                                  *)

\* The first place of a list where something holds is well defined.
LEMMA LeastExists ==
  ASSUME NEW T, T \subseteq Nat, T # {}
  PROVE  \E x \in T : \A y \in T : x <= y
<1>1. PICK x \in T : \A y \in T : ~ (<<y, x>> \in OpToRel(<, Nat))
  BY NatLessThanWellFounded, WFMin
<1>2. \A y \in T : ~ (y < x)
  BY <1>1 DEF OpToRel
<1> QED BY <1>2

LEMMA PlaceOf ==
  ASSUME NEW S, NEW list \in Seq(S), NEW a \in ToSet(list)
  PROVE  Place(list, a) \in 1..Len(list) /\ list[Place(list, a)] = a
BY DEF Place, ToSet

LEMMA ToSetType ==
  ASSUME NEW S, NEW list \in Seq(S)
  PROVE  ToSet(list) \subseteq S
BY DEF ToSet

\* what is behind the one that is taken out moves up by one place
LEMMA WithoutAt ==
  ASSUME NEW S, NEW list \in Seq(S), NEW a \in ToSet(list)
  PROVE  LET k == Place(list, a)
             rest == Without(list, a)
         IN  /\ k \in 1..Len(list) /\ list[k] = a
             /\ rest \in Seq(S) /\ Len(rest) = Len(list) - 1
             /\ \A i \in 1..Len(rest) : rest[i] = IF i < k THEN list[i] ELSE list[i + 1]
<1> DEFINE k == Place(list, a)
           rest == Without(list, a)
<1>1. k \in 1..Len(list) /\ list[k] = a
  BY PlaceOf
<1>2. rest = SubSeq(list, 1, k - 1) \o SubSeq(list, k + 1, Len(list))
  BY DEF Without, RemoveAt
<1> HIDE DEF k, rest
<1>3. /\ rest \in Seq(S) /\ Len(rest) = Len(list) - 1
      /\ \A i \in 1..Len(rest) : rest[i] = IF i < k THEN list[i] ELSE list[i + 1]
  <2> DEFINE before == SubSeq(list, 1, k - 1)
             behind == SubSeq(list, k + 1, Len(list))
  <2>1. /\ before \in Seq(S) /\ Len(before) = k - 1
        /\ \A i \in 1..(k - 1) : before[i] = list[i]
    BY <1>1
  <2>2. /\ behind \in Seq(S) /\ Len(behind) = Len(list) - k
        /\ \A i \in 1..(Len(list) - k) : behind[i] = list[i + k]
    BY <1>1
  <2>3. rest = before \o behind
    BY <1>2
  <2> HIDE DEF before, behind
  <2>4. rest \in Seq(S) /\ Len(rest) = Len(list) - 1
    BY <1>1, <2>1, <2>2, <2>3
  <2>5. ASSUME NEW i \in 1..Len(rest)
        PROVE  rest[i] = IF i < k THEN list[i] ELSE list[i + 1]
    <3>1. CASE i < k
      BY <1>1, <2>1, <2>2, <2>3, <2>4, <3>1
    <3>2. CASE i >= k
      <4>1. rest[i] = behind[i - (k - 1)] /\ i - (k - 1) \in 1..(Len(list) - k)
        BY <1>1, <2>1, <2>2, <2>3, <2>4, <3>2
      <4>2. behind[i - (k - 1)] = list[i - (k - 1) + k] /\ i - (k - 1) + k = i + 1
        BY <1>1, <2>2, <4>1
      <4> QED BY <1>1, <3>2, <4>1, <4>2
    <3> QED BY <1>1, <3>1, <3>2
  <2> QED BY <2>4, <2>5
<1> QED BY <1>1, <1>3 DEF k, rest

LEMMA WithoutOne ==
  ASSUME NEW S, NEW list \in Seq(S), IsInjective(list), NEW a \in ToSet(list)
  PROVE  LET rest == Without(list, a) IN
         /\ rest \in Seq(S) /\ Len(rest) = Len(list) - 1
         /\ IsInjective(rest) /\ ToSet(rest) = ToSet(list) \ {a}
<1> DEFINE k == Place(list, a)
           rest == Without(list, a)
<1>1. k \in 1..Len(list) /\ list[k] = a
  BY WithoutAt
<1>3. /\ rest \in Seq(S) /\ Len(rest) = Len(list) - 1
      /\ \A i \in 1..Len(rest) : rest[i] = IF i < k THEN list[i] ELSE list[i + 1]
  BY WithoutAt
<1> HIDE DEF k, rest
<1>0. \A i, j \in 1..Len(list) : list[i] = list[j] => i = j
  BY DEF IsInjective
<1>4. ASSUME NEW i \in 1..Len(rest), NEW j \in 1..Len(rest), rest[i] = rest[j]
      PROVE  i = j
  <2>1. i \in 1..Len(list) /\ i + 1 \in 1..Len(list)
        /\ j \in 1..Len(list) /\ j + 1 \in 1..Len(list)
    BY <1>1, <1>3
  <2> QED BY <1>0, <1>1, <1>3, <1>4, <2>1
<1>5. ASSUME NEW i \in 1..Len(rest)
      PROVE  rest[i] \in ToSet(list) \ {a}
  <2>1. PICK j \in 1..Len(list) : j # k /\ rest[i] = list[j]
    BY <1>1, <1>3
  <2> QED BY <1>0, <1>1, <2>1 DEF ToSet
<1>7. IsInjective(rest) /\ ToSet(rest) \subseteq ToSet(list) \ {a}
  <2>1. DOMAIN rest = 1..Len(rest)
    BY <1>3
  <2>2. IsInjective(rest)
    BY <1>4, <2>1 DEF IsInjective
  <2>3. ToSet(rest) \subseteq ToSet(list) \ {a}
    <3>1. \A b \in ToSet(rest) : \E i \in 1..Len(rest) : rest[i] = b
      BY <2>1 DEF ToSet
    <3> QED BY <1>5, <3>1
  <2> QED BY <2>2, <2>3
<1>6. ASSUME NEW b \in ToSet(list) \ {a} PROVE b \in ToSet(rest)
  <2>1. PICK i \in 1..Len(list) : list[i] = b
    BY DEF ToSet
  <2>2. i # k
    BY <1>1, <2>1
  <2>3. IF i < k THEN i \in 1..Len(rest) /\ rest[i] = b
        ELSE i - 1 \in 1..Len(rest) /\ rest[i - 1] = b
    BY <1>1, <1>3, <2>1, <2>2
  <2> QED BY <1>3, <2>3 DEF ToSet
<1> QED BY <1>3, <1>6, <1>7 DEF rest

LEMMA WithoutType ==
  ASSUME NEW S, NEW list \in Seq(S), NEW a
  PROVE  Without(list, a) \in Seq(S)
<1>1. CASE a \in ToSet(list)
  <2>1. Place(list, a) \in 1..Len(list)
    BY <1>1, PlaceOf
  <2> HIDE DEF Place
  <2> QED BY <1>1, <2>1 DEF Without, RemoveAt
<1>2. CASE a \notin ToSet(list)
  BY <1>2 DEF Without
<1> QED BY <1>1, <1>2

LEMMA Pushed ==
  ASSUME NEW S, NEW list \in Seq(S), IsInjective(list), NEW a \in S \ ToSet(list)
  PROVE  LET more == <<a>> \o list IN
         /\ more \in Seq(S) /\ Len(more) = Len(list) + 1
         /\ IsInjective(more) /\ ToSet(more) = ToSet(list) \cup {a}
<1> DEFINE more == <<a>> \o list
<1>1. /\ more \in Seq(S) /\ Len(more) = Len(list) + 1
      /\ \A i \in 1..Len(more) : more[i] = IF i = 1 THEN a ELSE list[i - 1]
  OBVIOUS
<1> HIDE DEF more
<1>2. IsInjective(more)
  <2>1. \A i, j \in 1..Len(list) : list[i] = list[j] => i = j
    BY DEF IsInjective
  <2>2. \A i \in 1..Len(list) : list[i] # a
    BY DEF ToSet
  <2>3. ASSUME NEW i \in 1..Len(more), NEW j \in 1..Len(more), more[i] = more[j]
        PROVE  i = j
    <3>1. /\ i # 1 => i - 1 \in 1..Len(list) /\ more[i] = list[i - 1]
          /\ j # 1 => j - 1 \in 1..Len(list) /\ more[j] = list[j - 1]
      BY <1>1
    <3>2. CASE i = 1 \/ j = 1
      BY <1>1, <2>2, <2>3, <3>1, <3>2
    <3>3. CASE i # 1 /\ j # 1
      <4>1. i - 1 = j - 1
        BY <2>1, <2>3, <3>1, <3>3
      <4> QED BY <4>1
    <3> QED BY <3>2, <3>3
  <2> QED BY <1>1, <2>3 DEF IsInjective
<1>3. ToSet(more) \subseteq ToSet(list) \cup {a}
  BY <1>1 DEF ToSet
<1>4. a \in ToSet(more)
  BY <1>1 DEF ToSet
<1>5. ASSUME NEW b \in ToSet(list) PROVE b \in ToSet(more)
  <2>1. PICK i \in 1..Len(list) : list[i] = b
    BY DEF ToSet
  <2>2. i + 1 \in 1..Len(more) /\ more[i + 1] = b
    BY <1>1, <2>1
  <2> QED BY <1>1, <2>2 DEF ToSet
<1> QED BY <1>1, <1>2, <1>3, <1>4, <1>5 DEF more

LEMMA Appended ==
  ASSUME NEW S, NEW list \in Seq(S), IsInjective(list), NEW a \in S \ ToSet(list)
  PROVE  LET more == Append(list, a) IN
         /\ more \in Seq(S)
         /\ IsInjective(more) /\ ToSet(more) = ToSet(list) \cup {a}
<1> DEFINE more == Append(list, a)
<1>1. /\ more \in Seq(S) /\ Len(more) = Len(list) + 1
      /\ \A i \in 1..Len(more) :
           more[i] = IF i = Len(list) + 1 THEN a ELSE list[i]
  OBVIOUS
<1> HIDE DEF more
<1>2. IsInjective(more)
  BY <1>1 DEF IsInjective, ToSet
<1>3. ToSet(more) \subseteq ToSet(list) \cup {a}
  BY <1>1 DEF ToSet
<1>4. a \in ToSet(more)
  BY <1>1 DEF ToSet
<1>5. ASSUME NEW b \in ToSet(list) PROVE b \in ToSet(more)
  <2>1. PICK i \in 1..Len(list) : list[i] = b
    BY DEF ToSet
  <2>2. i \in 1..Len(more) /\ more[i] = b
    BY <1>1, <2>1
  <2> QED BY <1>1, <2>2 DEF ToSet
<1> QED BY <1>1, <1>2, <1>3, <1>4, <1>5 DEF more

\* the list without its head
LEMMA Shortened ==
  ASSUME NEW S, NEW list \in Seq(S), IsInjective(list), list # <<>>
  PROVE  /\ Tail(list) \in Seq(S) /\ IsInjective(Tail(list))
         /\ ToSet(Tail(list)) = ToSet(list) \ {Head(list)}
         /\ Head(list) \in ToSet(list)
<1> DEFINE rest == Tail(list)
<1>1. /\ rest \in Seq(S) /\ Len(rest) = Len(list) - 1 /\ Head(list) = list[1]
      /\ 1 \in 1..Len(list)
      /\ \A i \in 1..Len(rest) : rest[i] = list[i + 1]
  OBVIOUS
<1> HIDE DEF rest
<1>0. \A i, j \in 1..Len(list) : list[i] = list[j] => i = j
  BY DEF IsInjective
<1>4. ASSUME NEW i \in 1..Len(rest)
      PROVE  i + 1 \in 1..Len(list) /\ i + 1 # 1 /\ rest[i] = list[i + 1]
  BY <1>1
<1>5. IsInjective(rest)
  <2>1. ASSUME NEW i \in 1..Len(rest), NEW j \in 1..Len(rest), rest[i] = rest[j]
        PROVE  i = j
    BY <1>0, <1>1, <1>4, <2>1
  <2> QED BY <1>1, <2>1 DEF IsInjective
<1>6. ASSUME NEW i \in 1..Len(rest)
      PROVE  rest[i] \in ToSet(list) \ {Head(list)}
  BY <1>0, <1>1, <1>4 DEF ToSet
<1>2. IsInjective(rest) /\ ToSet(rest) \subseteq ToSet(list) \ {Head(list)}
  BY <1>1, <1>5, <1>6 DEF ToSet
<1>3. ASSUME NEW b \in ToSet(list) \ {Head(list)} PROVE b \in ToSet(rest)
  <2>1. PICK i \in 1..Len(list) : list[i] = b
    BY DEF ToSet
  <2>2. i - 1 \in 1..Len(rest) /\ rest[i - 1] = b
    BY <1>1, <2>1
  <2> QED BY <1>1, <2>2 DEF ToSet
<1>7. Head(list) \in ToSet(list)
  BY <1>1 DEF ToSet
<1> QED BY <1>1, <1>2, <1>3, <1>7 DEF rest

LEMMA FirstOf ==
  ASSUME NEW S, NEW list \in Seq(S)
  PROVE  First(list) \in ToSet(list) \cup {Nil}
BY DEF First, ToSet

LEMMA AfterOne ==
  ASSUME NEW S, NEW list \in Seq(S), IsInjective(list), NEW a \in ToSet(list)
  PROVE  After(list, a) \in (ToSet(list) \ {a}) \cup {Nil}
<1>1. Place(list, a) \in 1..Len(list) /\ list[Place(list, a)] = a
  BY PlaceOf
<1> HIDE DEF Place
<1> QED BY <1>1 DEF After, IsInjective, ToSet

LEMMA FromOne ==
  ASSUME NEW S, NEW list \in Seq(S), NEW a \in ToSet(list)
  PROVE  From(list, a) \in Seq(S) /\ ToSet(From(list, a)) \subseteq ToSet(list)
<1>1. Place(list, a) \in 1..Len(list) /\ list[Place(list, a)] = a
  BY PlaceOf
<1> DEFINE k == Place(list, a)
           tail == From(list, a)
<1>2. tail = SubSeq(list, k, Len(list)) /\ k \in 1..Len(list)
  BY <1>1 DEF From
<1> HIDE DEF k, tail
<1>3. /\ tail \in Seq(S)
      /\ \A i \in 1..Len(tail) : i + k - 1 \in 1..Len(list) /\ tail[i] = list[i + k - 1]
  BY <1>2
<1> QED BY <1>3 DEF ToSet, tail

LEMMA FirstAmongOne ==
  ASSUME NEW S, NEW list \in Seq(S), NEW some
  PROVE  IF ToSet(list) \cap some = {} THEN FirstAmong(list, some) = Nil
         ELSE FirstAmong(list, some) \in ToSet(list) \cap some
<1> DEFINE places == {i \in DOMAIN list : list[i] \in some}
<1>1. ASSUME ToSet(list) \cap some # {}
      PROVE  FirstAmong(list, some) \in ToSet(list) \cap some
  <2>1. places # {} /\ places \subseteq Nat
    BY <1>1 DEF ToSet
  <2>2. PICK k \in places : \A i \in places : k <= i
    BY <2>1, LeastExists
  <2>3. k \in DOMAIN list /\ list[k] \in some /\ \A j \in 1..(k - 1) : list[j] \notin some
    BY <2>2
  <2> DEFINE first == CHOOSE i \in DOMAIN list :
                        list[i] \in some /\ \A j \in 1..(i - 1) : list[j] \notin some
  <2>4. first \in DOMAIN list /\ list[first] \in some
    BY <2>3
  <2> HIDE DEF first
  <2>5. FirstAmong(list, some) = list[first]
    BY <1>1 DEF FirstAmong, first
  <2> QED BY <2>4, <2>5 DEF ToSet
<1> QED BY <1>1 DEF FirstAmong

\* Order in a list.
LEMMA OrderType ==
  ASSUME NEW S, NEW list \in Seq(S), NEW x, NEW y, Precedes(list, x, y)
  PROVE  x \in ToSet(list) /\ y \in ToSet(list)
BY DEF Precedes, ToSet

LEMMA OrderOneWay ==
  ASSUME NEW S, NEW list \in Seq(S), IsInjective(list), NEW x, NEW y,
         Precedes(list, x, y)
  PROVE  x # y /\ ~ Precedes(list, y, x)
<1>1. \A i, j \in DOMAIN list : i \in Nat /\ j \in Nat
                                 /\ (list[i] = list[j] => i = j)
  BY DEF IsInjective
<1> QED BY <1>1 DEF Precedes

LEMMA WithoutOrder ==
  ASSUME NEW S, NEW list \in Seq(S), IsInjective(list), NEW a \in ToSet(list),
         NEW x, NEW y, x # a, y # a
  PROVE  Precedes(Without(list, a), x, y) <=> Precedes(list, x, y)
<1> DEFINE k == Place(list, a)
           rest == Without(list, a)
<1>1. /\ k \in 1..Len(list) /\ list[k] = a
      /\ rest \in Seq(S) /\ Len(rest) = Len(list) - 1
      /\ \A i \in 1..Len(rest) : rest[i] = IF i < k THEN list[i] ELSE list[i + 1]
  BY WithoutAt
<1> HIDE DEF k, rest
<1>2. ASSUME NEW i \in 1..Len(rest), NEW j \in 1..Len(rest), i < j,
             rest[i] = x, rest[j] = y
      PROVE  \E m, n \in 1..Len(list) : m < n /\ list[m] = x /\ list[n] = y
  <2> DEFINE m == IF i < k THEN i ELSE i + 1
             n == IF j < k THEN j ELSE j + 1
  <2>1. m \in 1..Len(list) /\ n \in 1..Len(list) /\ m < n
    BY <1>1, <1>2
  <2>2. list[m] = x /\ list[n] = y
    BY <1>1, <1>2
  <2> QED BY <2>1, <2>2
<1>3. ASSUME NEW m \in 1..Len(list), NEW n \in 1..Len(list), m < n,
             list[m] = x, list[n] = y
      PROVE  \E i, j \in 1..Len(rest) : i < j /\ rest[i] = x /\ rest[j] = y
  <2> DEFINE i == IF m < k THEN m ELSE m - 1
             j == IF n < k THEN n ELSE n - 1
  <2>1. m # k /\ n # k
    BY <1>1, <1>3
  <2>2. i \in 1..Len(rest) /\ j \in 1..Len(rest) /\ i < j
    BY <1>1, <1>3, <2>1
  <2>3. rest[i] = x
    <3>1. CASE m < k
      BY <1>1, <1>3, <2>2, <3>1
    <3>2. CASE m > k
      <4>1. i = m - 1 /\ ~ (i < k) /\ i + 1 = m
        BY <1>1, <3>2
      <4> QED BY <1>1, <1>3, <2>2, <4>1
    <3> QED BY <1>1, <2>1, <3>1, <3>2
  <2>4. rest[j] = y
    <3>1. CASE n < k
      BY <1>1, <1>3, <2>2, <3>1
    <3>2. CASE n > k
      <4>1. j = n - 1 /\ ~ (j < k) /\ j + 1 = n
        BY <1>1, <3>2
      <4> QED BY <1>1, <1>3, <2>2, <4>1
    <3> QED BY <1>1, <2>1, <3>1, <3>2
  <2> QED BY <2>2, <2>3, <2>4
<1>4. DOMAIN list = 1..Len(list) /\ DOMAIN rest = 1..Len(rest)
  BY <1>1
<1>5. Precedes(rest, x, y) <=> Precedes(list, x, y)
  BY <1>2, <1>3, <1>4 DEF Precedes
<1> QED BY <1>5 DEF rest

LEMMA AppendOrder ==
  ASSUME NEW S, NEW list \in Seq(S), NEW a \in S \ ToSet(list), NEW x, NEW y
  PROVE  Precedes(Append(list, a), x, y)
           <=> Precedes(list, x, y) \/ (x \in ToSet(list) /\ y = a)
<1> DEFINE more == Append(list, a)
<1>1. /\ more \in Seq(S) /\ Len(more) = Len(list) + 1 /\ Len(list) \in Nat
      /\ \A i \in 1..Len(more) :
           more[i] = IF i = Len(list) + 1 THEN a ELSE list[i]
      /\ DOMAIN list = 1..Len(list) /\ DOMAIN more = 1..Len(more)
  OBVIOUS
<1> HIDE DEF more
<1>2. ASSUME NEW i \in 1..Len(more), NEW j \in 1..Len(more), i < j,
             more[i] = x, more[j] = y
      PROVE  Precedes(list, x, y) \/ (x \in ToSet(list) /\ y = a)
  <2>1. i \in 1..Len(list) /\ list[i] = x
    BY <1>1, <1>2
  <2>2. CASE j = Len(list) + 1
    BY <1>1, <1>2, <2>1, <2>2 DEF ToSet
  <2>3. CASE j # Len(list) + 1
    BY <1>1, <1>2, <2>1, <2>3 DEF Precedes
  <2> QED BY <2>2, <2>3
<1>3. ASSUME Precedes(list, x, y) PROVE Precedes(more, x, y)
  <2>1. PICK i, j \in 1..Len(list) : i < j /\ list[i] = x /\ list[j] = y
    BY <1>1, <1>3 DEF Precedes
  <2>2. i \in 1..Len(more) /\ j \in 1..Len(more) /\ more[i] = x /\ more[j] = y
    BY <1>1, <2>1
  <2> QED BY <1>1, <2>1, <2>2 DEF Precedes
<1>4. ASSUME x \in ToSet(list), y = a PROVE Precedes(more, x, y)
  <2>1. PICK i \in 1..Len(list) : list[i] = x
    BY <1>1, <1>4 DEF ToSet
  <2>2. /\ i \in 1..Len(more) /\ Len(more) \in 1..Len(more) /\ i < Len(more)
        /\ more[i] = x /\ more[Len(more)] = y
    BY <1>1, <1>4, <2>1
  <2> QED BY <1>1, <2>2 DEF Precedes
<1>5. Precedes(more, x, y) <=> Precedes(list, x, y) \/ (x \in ToSet(list) /\ y = a)
  BY <1>1, <1>2, <1>3, <1>4 DEF Precedes
<1> QED BY <1>5 DEF more

\* the head of a list is before all others, and nothing else is
LEMMA HeadOrder ==
  ASSUME NEW S, NEW list \in Seq(S), IsInjective(list), NEW x \in ToSet(list),
         \A y \in ToSet(list) \ {x} : Precedes(list, x, y)
  PROVE  list # <<>> /\ Head(list) = x
<1>1. PICK k \in DOMAIN list : list[k] = x
  BY DEF ToSet
<1>2. k \in 1..Len(list) /\ DOMAIN list = 1..Len(list) /\ Len(list) \in Nat
  BY <1>1
<1>3. list # <<>> /\ Head(list) = list[1] /\ 1 \in DOMAIN list
  BY <1>2
<1>4. CASE list[1] # x
  <2>1. list[1] \in ToSet(list) \ {x}
    BY <1>3, <1>4 DEF ToSet
  <2>2. PICK i, j \in DOMAIN list : i < j /\ list[i] = x /\ list[j] = list[1]
    BY <2>1 DEF Precedes
  <2>3. j = 1
    BY <1>3, <2>2 DEF IsInjective
  <2> QED BY <1>2, <2>2, <2>3
<1> QED BY <1>3, <1>4

LEMMA FirstAmongOrder ==
  ASSUME NEW S, NEW list \in Seq(S), NEW some, ToSet(list) \cap some # {},
         NEW y \in (ToSet(list) \cap some) \ {FirstAmong(list, some)}
  PROVE  Precedes(list, FirstAmong(list, some), y)
<1> DEFINE places == {i \in DOMAIN list : list[i] \in some}
           first == CHOOSE i \in DOMAIN list :
                      list[i] \in some /\ \A j \in 1..(i - 1) : list[j] \notin some
<1>1. places # {} /\ places \subseteq Nat
  BY DEF ToSet
<1>2. PICK k \in places : \A i \in places : k <= i
  BY <1>1, LeastExists
<1>3. k \in DOMAIN list /\ list[k] \in some /\ \A j \in 1..(k - 1) : list[j] \notin some
  BY <1>2
<1>4. /\ first \in DOMAIN list /\ list[first] \in some
      /\ \A j \in 1..(first - 1) : list[j] \notin some
  BY <1>3
<1> HIDE DEF first
<1>5. FirstAmong(list, some) = list[first]
  BY DEF FirstAmong, first
<1>6. PICK j \in DOMAIN list : list[j] = y
  BY DEF ToSet
<1>7. j # first /\ ~ (j \in 1..(first - 1)) /\ j \in 1..Len(list)
      /\ first \in 1..Len(list) /\ Len(list) \in Nat
  BY <1>4, <1>5, <1>6
<1>8. first < j
  BY <1>7
<1> QED BY <1>4, <1>5, <1>6, <1>8 DEF Precedes

-----------------------------------------------------------------------------
(* The invariant.                                                          *)

\* an action is linked into one list at most, and one in the done list is done
ListsInv ==
  /\ ToSet(active) \cap ToSet(waiting) = {}
  /\ (ToSet(active) \cup ToSet(waiting)) \cap ToSet(done) = {}
  /\ \A a \in ToSet(done) : act[a].isDone

\* what af_io_main keeps in its local variables while others may change the
\* lists: the action it wakes a task for is out of the lists it serves, and is
\* its own to free if it is to be destroyed; the next one is still active, and
\* so is every action that is polled for
ThreadInv ==
  /\ at = "remove" => cursor \in ToSet(active) \cup {Nil}
  /\ at \in {"notify", "dispose"} =>
       /\ cursor \in Action \ (ToSet(active) \cup ToSet(waiting))
       /\ act[cursor].isDone
       /\ act[cursor].doomed => cursor \notin ToSet(done)
       /\ next \in ToSet(active) \cup {Nil}
  /\ at \in {"poll", "collect"} =>
       polled \subseteq {a \in ToSet(active) : act[a].type \in Transfers}

\* only a SLEEP lies on a file descriptor that the program may not have
FdInv == \A a \in Action : act[a].type # "SLEEP" => act[a].fd \in Fd

\* a task in IO-SLEEP has its action
SleepInv == \A t \in Task : user[t] = "sleep" => handle[t] # Nil

\* what the properties say of the lists and counts while they are defined
Kept == InUse \subseteq live
Exact ==
  /\ activeCount = Len(active)
  /\ pendingWrites = Leftover
       + Cardinality({a \in ToSet(active) \cup ToSet(waiting) :
                        act[a].type = "WRITE"})

IoIInv == /\ ~ Astray /\ TypeOK /\ ListsInv /\ ThreadInv /\ FdInv /\ SleepInv
          /\ Kept /\ Exact

\* TypeOK in two parts: the actions and the lists, and the rest
CoreType ==
  /\ act \in [Action -> Actions]
  /\ \A a \in Action : act[a].index <= act[a].count
  /\ active \in Seq(Action) /\ IsInjective(active)
  /\ waiting \in Seq(Action) /\ IsInjective(waiting)
  /\ done \in Seq(Action) /\ IsInjective(done)
  /\ live \subseteq Action
  /\ \A f \in Fd : issued[f] \in Seq(Action)
RestType ==
  /\ breaks \in Nat /\ handler \in BOOLEAN /\ again \in BOOLEAN
  /\ polled \subseteq Action
  /\ at \in {"top", "scan", "remove", "notify", "dispose", "poll", "collect"}
  /\ stage \in {"before", "after"} /\ {cursor, next} \subseteq Action \cup {Nil}
  /\ revents \in [Action -> SUBSET {"IN", "OUT", "HUP", "ERR", "NVAL"}]
  /\ user \in [Task -> {"idle", "sleep", "blocked", "holding", "gone"}]
  /\ handle \in [Task -> Action \cup {Nil}] /\ awake \subseteq Task
  /\ monitor \in {"off", "test", "wait", "asleep", "ended"}
  /\ data \in [Fd -> 0..MaxData]
  /\ hup \in [Fd -> BOOLEAN] /\ open \in [Fd -> BOOLEAN]
  /\ \A t \in Task : user[t] = "sleep" => handle[t] # Nil

Core == CoreType /\ ListsInv /\ ThreadInv /\ FdInv /\ Kept /\ Exact

Writes == {a \in ToSet(active) \cup ToSet(waiting) : act[a].type = "WRITE"}

LEMMA CountsNat ==
  ASSUME CoreType, Exact
  PROVE  activeCount \in Nat /\ pendingWrites \in Nat /\ IsFiniteSet(Writes)
<1>1. ToSet(active) \subseteq Action /\ ToSet(waiting) \subseteq Action
  BY ToSetType DEF CoreType
<1>2. Writes \subseteq Action
  BY <1>1 DEF Writes
<1>3. IsFiniteSet(Writes) /\ Cardinality(Writes) \in Nat
  BY <1>2, IoTaskAssumption, FS_Subset, FS_CardinalityType
<1>4. activeCount \in Nat
  BY DEF CoreType, Exact
<1>5. pendingWrites = Leftover + Cardinality(Writes) /\ Leftover \in Nat
  BY IoBoundsAssumption DEF Exact, Writes
<1> HIDE DEF Writes
<1> QED BY <1>3, <1>4, <1>5

LEMMA InvParts ==
  IoIInv <=> Core /\ RestType
<1>1. TypeOK /\ ~ Astray /\ SleepInv => CoreType /\ RestType
  BY DEF TypeOK, CoreType, RestType, Astray, SleepInv
<1>2. CoreType /\ RestType /\ Exact => TypeOK /\ ~ Astray /\ SleepInv
  BY CountsNat DEF TypeOK, CoreType, RestType, Astray, SleepInv
<1> QED BY <1>1, <1>2 DEF IoIInv, Core

LEMMA InvPartsNext ==
  Core' /\ RestType' => IoIInv'
BY InvParts, PTL

-----------------------------------------------------------------------------
(* What programs do.                                                       *)

\* Nothing that the lists' laws look at changes.
LEMMA CoreSame ==
  ASSUME Core, UNCHANGED <<act, live, active, waiting, done, activeCount,
                           pendingWrites, issued, at, cursor, next, polled>>
  PROVE  Core'
BY DEF Core, CoreType, ListsInv, ThreadInv, FdInv, Kept, InUse, InHand, Exact

\* An action that is added was free, so it is in no list and the IO thread has
\* no use for it.
LEMMA AddLists ==
  ASSUME IoIInv, NEW a \in Action \ live, NEW record, Add(a, record)
  PROVE  /\ a \notin ToSet(active) /\ a \notin ToSet(waiting) /\ a \notin ToSet(done)
         /\ at \in {"poll", "collect"} => a \notin polled
         /\ at \in {"notify", "dispose"} => a # cursor /\ a # next
         /\ active' \in Seq(Action) /\ IsInjective(active')
         /\ waiting' \in Seq(Action) /\ IsInjective(waiting')
         /\ \/ ToSet(active') = ToSet(active) \cup {a} /\ ToSet(waiting') = ToSet(waiting)
            \/ ToSet(active') = ToSet(active) /\ ToSet(waiting') = ToSet(waiting) \cup {a}
         /\ activeCount' = Len(active')
         /\ breaks' \in Nat
<1>1. Core /\ RestType
  BY InvParts
<1>3. /\ a \notin ToSet(active) /\ a \notin ToSet(waiting) /\ a \notin ToSet(done)
      /\ at \in {"poll", "collect"} => a \notin polled
      /\ at \in {"notify", "dispose"} => a # cursor /\ a # next
  <2>1. a \notin InUse /\ a # Nil
    BY <1>1, IoTaskAssumption DEF Core, Kept
  <2>2. ToSet(active) \cup ToSet(waiting) \cup ToSet(done) \subseteq InUse
    BY DEF InUse, InHand
  <2>3. at \in {"poll", "collect"} => polled \subseteq InUse
    BY DEF InUse, InHand
  <2>4. at \in {"notify", "dispose"} => {cursor, next} \ {Nil} \subseteq InUse
    BY DEF InUse, InHand
  <2> QED BY <2>1, <2>2, <2>3, <2>4
<1>4. /\ active' \in Seq(Action) /\ IsInjective(active')
      /\ waiting' \in Seq(Action) /\ IsInjective(waiting')
      /\ \/ ToSet(active') = ToSet(active) \cup {a} /\ ToSet(waiting') = ToSet(waiting)
         \/ ToSet(active') = ToSet(active) /\ ToSet(waiting') = ToSet(waiting) \cup {a}
      /\ activeCount' = Len(active')
      /\ breaks' \in Nat
  <2>1. /\ active \in Seq(Action) /\ IsInjective(active)
        /\ waiting \in Seq(Action) /\ IsInjective(waiting)
        /\ activeCount = Len(active) /\ breaks \in Nat
    BY <1>1 DEF Core, CoreType, Exact, RestType
  <2>2. CASE record.type # "SLEEP" /\ IsActive(record.fd)
    <3>1. /\ waiting' = Append(waiting, a)
          /\ UNCHANGED <<active, activeCount, breaks>>
      BY <2>2 DEF Add
    <3>2. /\ waiting' \in Seq(Action) /\ IsInjective(waiting')
          /\ ToSet(waiting') = ToSet(waiting) \cup {a}
      BY <1>3, <2>1, <3>1, Appended
    <3> QED BY <2>1, <3>1, <3>2
  <2>3. CASE ~ (record.type # "SLEEP" /\ IsActive(record.fd))
    <3>1. /\ active' = <<a>> \o active /\ activeCount' = activeCount + 1
          /\ waiting' = waiting /\ breaks' = breaks + 1
      BY <2>3 DEF Add, BreakPoll
    <3>2. /\ active' \in Seq(Action) /\ IsInjective(active')
          /\ Len(active') = Len(active) + 1
          /\ ToSet(active') = ToSet(active) \cup {a}
      BY <1>3, <2>1, <3>1, Pushed
    <3> QED BY <2>1, <3>1, <3>2
  <2> QED BY <2>2, <2>3
<1> QED BY <1>3, <1>4

LEMMA AddCore ==
  ASSUME IoIInv, NEW a \in Action \ live, NEW record \in Actions,
         record.index <= record.count, record.type # "SLEEP" => record.fd \in Fd,
         Add(a, record), UNCHANGED thread
  PROVE  Core' /\ breaks' \in Nat
<1>1. Core /\ RestType
  BY InvParts
<1>2. /\ at \notin {"scan", "remove"}
      /\ act' = [act EXCEPT ![a] = record] /\ live' = live \cup {a}
      /\ pendingWrites' = pendingWrites + (IF record.type = "WRITE" THEN 1 ELSE 0)
      /\ done' = done
      /\ UNCHANGED <<at, cursor, next, polled>>
  BY DEF Add, MutexOpen, thread
<1>3. /\ a \notin ToSet(active) /\ a \notin ToSet(waiting) /\ a \notin ToSet(done)
      /\ at \in {"poll", "collect"} => a \notin polled
      /\ at \in {"notify", "dispose"} => a # cursor /\ a # next
  BY AddLists
<1>4. /\ active' \in Seq(Action) /\ IsInjective(active')
      /\ waiting' \in Seq(Action) /\ IsInjective(waiting')
      /\ \/ ToSet(active') = ToSet(active) \cup {a} /\ ToSet(waiting') = ToSet(waiting)
         \/ ToSet(active') = ToSet(active) /\ ToSet(waiting') = ToSet(waiting) \cup {a}
      /\ activeCount' = Len(active')
      /\ breaks' \in Nat
  BY AddLists
<1>5. /\ act' \in [Action -> Actions]
      /\ \A b \in Action : act'[b].index <= act'[b].count
      /\ \A b \in Action : b # a => act'[b] = act[b]
      /\ act'[a] = record
  BY <1>1, <1>2 DEF Core, CoreType
<1>6. CoreType'
  <2>1. \A f \in Fd : issued'[f] \in Seq(Action)
    <3>1. \A f \in Fd : issued[f] \in Seq(Action)
      BY <1>1 DEF Core, CoreType
    <3>2. CASE record.type = "SLEEP"
      BY <3>1, <3>2 DEF Add
    <3>3. CASE record.type # "SLEEP"
      <4>1. issued' = [issued EXCEPT ![record.fd] = Append(@, a)]
        BY <3>3 DEF Add
      <4>2. \A f \in Fd : issued'[f] \in {issued[f], Append(issued[f], a)}
        BY <4>1
      <4>3. \A f \in Fd : Append(issued[f], a) \in Seq(Action)
        BY <3>1
      <4> QED BY <3>1, <4>2, <4>3
    <3> QED BY <3>2, <3>3
  <2> QED BY <1>1, <1>2, <1>4, <1>5, <2>1 DEF Core, CoreType
<1>7. ToSet(active) \subseteq Action /\ ToSet(waiting) \subseteq Action
      /\ ToSet(done) \subseteq Action
  BY <1>1, ToSetType DEF Core, CoreType
<1>8. ListsInv'
  <2>1. ListsInv
    BY <1>1 DEF Core
  <2>2. \A b \in ToSet(done') : act'[b].isDone
    BY <1>2, <1>3, <1>5, <1>7, <2>1 DEF ListsInv
  <2> QED BY <1>2, <1>3, <1>4, <2>1, <2>2 DEF ListsInv
<1>9. ThreadInv'
  <2>1. ThreadInv
    BY <1>1 DEF Core
  <2>2. at' \in {"notify", "dispose"} =>
          /\ cursor' \in Action \ (ToSet(active') \cup ToSet(waiting'))
          /\ act'[cursor'].isDone
          /\ act'[cursor'].doomed => cursor' \notin ToSet(done')
          /\ next' \in ToSet(active') \cup {Nil}
    BY <1>2, <1>3, <1>4, <1>5, <2>1 DEF ThreadInv
  <2>3. at' \in {"poll", "collect"} =>
          polled' \subseteq {b \in ToSet(active') : act'[b].type \in Transfers}
    BY <1>2, <1>3, <1>4, <1>5, <1>7, <2>1 DEF ThreadInv
  <2> QED BY <1>2, <2>2, <2>3 DEF ThreadInv
<1>10. FdInv'
  BY <1>1, <1>5 DEF Core, FdInv
<1>11. Kept'
  BY <1>1, <1>2, <1>4 DEF Core, Kept, InUse, InHand
<1>12. Exact'
  <2>1. IsFiniteSet(Writes) /\ pendingWrites = Leftover + Cardinality(Writes)
    BY <1>1, CountsNat DEF Core, Exact, Writes
  <2>2. Writes' = IF record.type = "WRITE" THEN Writes \cup {a} ELSE Writes
    BY <1>3, <1>4, <1>5, <1>7 DEF Writes
  <2>3. a \notin Writes
    BY <1>3 DEF Writes
  <2> HIDE DEF Writes
  <2>4. pendingWrites' = Leftover + Cardinality(Writes')
    <3>1. Cardinality(Writes) \in Nat /\ Leftover \in Nat
      BY <2>1, FS_CardinalityType, IoBoundsAssumption
    <3>2. Cardinality(Writes \cup {a}) = Cardinality(Writes) + 1
      BY <2>1, <2>3, FS_AddElement
    <3> QED BY <1>2, <2>1, <2>2, <3>1, <3>2
  <2> QED BY <1>4, <2>4 DEF Exact, Writes
<1> QED BY <1>4, <1>6, <1>8, <1>9, <1>10, <1>11, <1>12 DEF Core

\* The lists that are served stay, and what is freed nobody is to be woken for.
LEMMA DestroyLists ==
  ASSUME ~ Astray', NEW a \in Action, Destroy(a)
  PROVE  /\ active' = active /\ waiting' = waiting /\ at' = at
         /\ \/ act' = [act EXCEPT ![a].doomed = TRUE] /\ live' = live
            \/ /\ act' = [act EXCEPT ![a] = Blank] /\ live' = live \ {a}
               /\ act[a].isDone /\ a \notin InHand
<1>1. CASE ~ act[a].isDone
  BY <1>1 DEF Destroy
<1>2. CASE act[a].isDone
  <2>1. Freed(a) /\ Free(a)
    BY <1>2 DEF Destroy
  <2>2. a \notin InHand /\ at' = at
    BY <2>1 DEF Freed, Astray
  <2>3. a \notin ToSet(active) /\ a \notin ToSet(waiting)
    BY <2>2 DEF InHand
  <2>4. active' = active /\ waiting' = waiting
    BY <1>2, <2>3 DEF Destroy
  <2> QED BY <1>2, <2>1, <2>2, <2>4 DEF Free
<1> QED BY <1>1, <1>2

\* An action that is destroyed is either marked, and then it is not done, or
\* freed, and then no list but the done list held it.
LEMMA DestroyCore ==
  ASSUME ~ Astray', IoIInv, NEW a \in Action, Destroy(a),
         UNCHANGED <<activeCount, pendingWrites, issued, cursor, next, polled>>
  PROVE  Core'
<1>1. Core /\ RestType
  BY InvParts
<1>2. /\ at \notin {"scan", "remove"}
      /\ UNCHANGED <<at, cursor, next, polled, activeCount, pendingWrites, issued>>
  BY DestroyLists DEF Destroy, MutexOpen
<1>3. /\ ToSet(active) \subseteq Action /\ ToSet(waiting) \subseteq Action
      /\ ToSet(done) \subseteq Action /\ Nil \notin Action
  BY <1>1, ToSetType, IoTaskAssumption DEF Core, CoreType
<1>4. CASE ~ act[a].isDone
  <2>1. /\ act' = [act EXCEPT ![a].doomed = TRUE]
        /\ UNCHANGED <<live, active, waiting, done>>
    BY <1>4 DEF Destroy
  <2>2. /\ act' \in [Action -> Actions]
        /\ \A b \in Action : /\ act'[b].index = act[b].index
                             /\ act'[b].count = act[b].count
                             /\ act'[b].type = act[b].type
                             /\ act'[b].fd = act[b].fd
                             /\ act'[b].isDone = act[b].isDone
                             /\ b # a => act'[b] = act[b]
    <3>1. act \in [Action -> Actions]
      BY <1>1 DEF Core, CoreType
    <3>2. act[a] \in Actions
      BY <3>1
    <3>3. /\ [act[a] EXCEPT !.doomed = TRUE] \in Actions
          /\ [act[a] EXCEPT !.doomed = TRUE].index = act[a].index
          /\ [act[a] EXCEPT !.doomed = TRUE].count = act[a].count
          /\ [act[a] EXCEPT !.doomed = TRUE].type = act[a].type
          /\ [act[a] EXCEPT !.doomed = TRUE].fd = act[a].fd
          /\ [act[a] EXCEPT !.doomed = TRUE].isDone = act[a].isDone
      BY <3>2 DEF Actions
    <3>4. act' = [act EXCEPT ![a] = [act[a] EXCEPT !.doomed = TRUE]]
      BY <2>1, <3>1
    <3> QED BY <3>1, <3>3, <3>4
  <2>3. CoreType'
    BY <1>1, <1>2, <2>1, <2>2 DEF Core, CoreType
  <2>4. ListsInv'
    BY <1>1, <1>3, <2>1, <2>2 DEF Core, ListsInv
  <2>5. ThreadInv'
    BY <1>1, <1>2, <1>3, <1>4, <2>1, <2>2 DEF Core, ThreadInv
  <2>6. FdInv'
    BY <1>1, <2>2 DEF Core, FdInv
  <2>7. Kept'
    BY <1>1, <1>2, <2>1 DEF Core, Kept, InUse, InHand
  <2>8. Exact'
    <3>1. {b \in ToSet(active) \cup ToSet(waiting) : act'[b].type = "WRITE"}
            = {b \in ToSet(active) \cup ToSet(waiting) : act[b].type = "WRITE"}
      BY <1>3, <2>2
    <3> QED BY <1>1, <1>2, <2>1, <3>1 DEF Core, Exact
  <2> QED BY <2>3, <2>4, <2>5, <2>6, <2>7, <2>8 DEF Core
<1>5. CASE act[a].isDone
  <2>0. Freed(a)
    BY <1>5 DEF Destroy
  <2>1. /\ a \notin InHand /\ a # Nil
        /\ at \in {"notify", "dispose"} => a # cursor /\ a # next
        /\ at \in {"poll", "collect"} => a \notin polled
    <3>1. a \notin InHand /\ a # Nil
      BY <1>3, <2>0 DEF Freed, Astray
    <3> QED BY <3>1 DEF InHand
  <2>2. a \notin ToSet(active) /\ a \notin ToSet(waiting)
    BY <2>1 DEF InHand
  <2>3. /\ live' = live \ {a} /\ act' = [act EXCEPT ![a] = Blank]
    BY <1>5 DEF Destroy, Free
  <2>4. active' = active /\ waiting' = waiting
    BY <1>5, <2>2 DEF Destroy
  <2>5. /\ done' \in Seq(Action) /\ IsInjective(done')
        /\ ToSet(done') = ToSet(done) \ {a}
    <3>1. done \in Seq(Action) /\ IsInjective(done)
          /\ active \in Seq(Action) /\ waiting \in Seq(Action)
      BY <1>1 DEF Core, CoreType
    <3>2. First(active) # a /\ First(waiting) # a
      BY <1>3, <2>2, <3>1, FirstOf
    <3>4. CASE First(done) = a
      <4>0. done # <<>>
        BY <1>3, <3>4 DEF First
      <4>1. (CHOOSE l \in {active, waiting, done} : First(l) = a) = done
        BY <3>2, <3>4
      <4>2. done' = Tail(done)
        BY <1>5, <3>4, <4>1 DEF Destroy
      <4>3. Head(done) = a
        BY <3>4, <4>0 DEF First
      <4> QED BY <3>1, <4>0, <4>2, <4>3, Shortened
    <3>5. CASE First(done) # a /\ a \in ToSet(done)
      <4>0. done # <<>>
        BY <3>5 DEF ToSet
      <4>1. Head(done) # a
        BY <3>5, <4>0 DEF First
      <4>2. done' = Without(done, a)
        BY <1>5, <3>2, <3>5, <4>1 DEF Destroy
      <4> QED BY <3>1, <3>5, <4>2, WithoutOne
    <3>6. CASE First(done) # a /\ a \notin ToSet(done)
      <4>1. done' = done
        BY <1>5, <3>2, <3>6 DEF Destroy
      <4> QED BY <3>1, <3>6, <4>1
    <3> QED BY <3>4, <3>5, <3>6
  <2>6. /\ act' \in [Action -> Actions]
        /\ \A b \in Action : act'[b].index <= act'[b].count
        /\ \A b \in Action : b # a => act'[b] = act[b]
        /\ act'[a].type = "SLEEP"
    <3>1. /\ act \in [Action -> Actions]
          /\ \A b \in Action : act[b].index <= act[b].count
      BY <1>1 DEF Core, CoreType
    <3>2. Blank \in Actions /\ Blank.index <= Blank.count /\ Blank.type = "SLEEP"
      BY DEF Blank, Actions, AllTypes
    <3> QED BY <2>2, <2>3, <3>1, <3>2
  <2>7. CoreType'
    BY <1>1, <1>2, <2>3, <2>4, <2>5, <2>6 DEF Core, CoreType
  <2>8. ListsInv'
    BY <1>1, <1>3, <2>4, <2>5, <2>6 DEF Core, ListsInv
  <2>9. ThreadInv'
    BY <1>1, <1>2, <1>3, <2>1, <2>2, <2>4, <2>5, <2>6 DEF Core, ThreadInv
  <2>10. FdInv'
    BY <1>1, <2>6 DEF Core, FdInv
  <2>11. Kept'
    <3>1. InUse' \subseteq InUse
      BY <1>2, <2>4, <2>5 DEF InUse, InHand
    <3>2. a \notin InUse'
      BY <1>1, <1>2, <1>3, <2>1, <2>2, <2>4, <2>5 DEF InUse, InHand, Core, ThreadInv
    <3> QED BY <1>1, <2>3, <3>1, <3>2 DEF Core, Kept
  <2>12. Exact'
    <3>1. {b \in ToSet(active) \cup ToSet(waiting) : act'[b].type = "WRITE"}
            = {b \in ToSet(active) \cup ToSet(waiting) : act[b].type = "WRITE"}
      BY <1>3, <2>2, <2>6
    <3> QED BY <1>1, <1>2, <2>4, <3>1 DEF Core, Exact
  <2> QED BY <2>7, <2>8, <2>9, <2>10, <2>11, <2>12 DEF Core
<1> QED BY <1>4, <1>5

\* what the words hand to af_io_add
LEMMA RecordsType ==
  ASSUME NEW f \in Fd, NEW waker \in Task \cup {Nil},
         NEW record \in InstantRecords(f, waker) \cup TransferRecords(f, waker)
  PROVE  /\ record \in Actions /\ record.index <= record.count
         /\ record.fd \in Fd /\ record.type # "SLEEP"
<1>1. CASE record \in InstantRecords(f, waker)
  <2>1. PICK type \in Types \cap Instant :
          record = [Blank EXCEPT !.type = type, !.fd = f, !.task = waker]
    BY <1>1 DEF InstantRecords
  <2>2. type \in AllTypes /\ type # "SLEEP"
    BY IoTypesAssumption DEF Instant, Transfers
  <2>3. record = [type |-> type, fd |-> f, count |-> 0, index |-> 0,
                  task |-> waker, doomed |-> FALSE, isDone |-> FALSE,
                  isClosed |-> FALSE, hasHangup |-> FALSE, hasError |-> FALSE,
                  due |-> FALSE]
    BY <2>1 DEF Blank
  <2> QED BY <2>2, <2>3 DEF Actions
<1>2. CASE record \in TransferRecords(f, waker)
  <2>2. PICK type \in Types \cap Transfers, count \in Counts :
          record = TransferRecord(type, f, waker, count)
    BY <1>2 DEF TransferRecords
  <2>3. type \in AllTypes /\ type # "SLEEP" /\ count \in Nat /\ (count = 0) \in BOOLEAN
    BY IoTypesAssumption DEF Instant, Transfers
  <2> DEFINE none == count = 0
  <2>4. record = [type |-> type, fd |-> f, count |-> count, index |-> 0,
                  task |-> waker, doomed |-> FALSE, isDone |-> none,
                  isClosed |-> FALSE, hasHangup |-> FALSE, hasError |-> FALSE,
                  due |-> FALSE]
    BY <2>2 DEF TransferRecord, Blank
  <2>5. none \in BOOLEAN
    OBVIOUS
  <2> HIDE DEF none
  <2> QED BY <2>3, <2>4, <2>5 DEF Actions
<1> QED BY <1>1, <1>2

\* The words, and whatever else programs do.
LEMMA WordsStep ==
  ASSUME ~ Astray', IoIInv, NEW t \in Task,
         \/ BlockWord(t) \/ AsyncWord(t) \/ SleepWord(t) \/ SleepWait(t)
         \/ DestroyWord(t) \/ NonblockRead(t) \/ OpenWord(t) \/ Exit(t)
  PROVE  IoIInv'
<1>1. Core /\ RestType
  BY InvParts
<1>2. CASE BlockWord(t) \/ AsyncWord(t)
  <2>1. PICK waker \in Task \cup {Nil} : Issue(t, waker)
    BY <1>2 DEF BlockWord, AsyncWord
  <2>2. PICK a \in Action \ live, f \in Fd :
          \E record \in InstantRecords(f, waker) \cup TransferRecords(f, waker) :
            Add(a, record) /\ handle' = [handle EXCEPT ![t] = a]
    BY <2>1 DEF Issue
  <2>3. PICK record \in InstantRecords(f, waker) \cup TransferRecords(f, waker) :
          Add(a, record) /\ handle' = [handle EXCEPT ![t] = a]
    BY <2>2
  <2>4. record \in Actions /\ record.index <= record.count /\ record.fd \in Fd
    BY RecordsType
  <2>5. UNCHANGED <<handler, thread, monitor, world>>
    BY <2>1 DEF Issue
  <2>6. Core' /\ breaks' \in Nat
    BY <2>3, <2>4, <2>5, AddCore
  <2>7. user' \in [Task -> {"idle", "sleep", "blocked", "holding", "gone"}]
        /\ awake' \subseteq Task /\ handle' \in [Task -> Action \cup {Nil}]
        /\ \A u \in Task : user'[u] = "sleep" => handle'[u] # Nil
    BY <1>1, <1>2, <2>3, IoTaskAssumption DEF RestType, BlockWord, AsyncWord
  <2>8. RestType'
    BY <1>1, <2>5, <2>6, <2>7 DEF RestType, thread, world
  <2> QED BY <2>6, <2>8, InvPartsNext
<1>3. CASE SleepWord(t)
  <2>1. PICK a \in Action \ live : /\ Add(a, [Blank EXCEPT !.task = t])
                                   /\ handle' = [handle EXCEPT ![t] = a]
    BY <1>3 DEF SleepWord
  <2>2. [Blank EXCEPT !.task = t] \in Actions
    BY DEF Blank, Actions, AllTypes
  <2>3. LET r == [Blank EXCEPT !.task = t]
        IN  r.index <= r.count /\ r.type = "SLEEP"
    BY DEF Blank
  <2>4. UNCHANGED <<handler, thread, awake, monitor, world>>
    BY <1>3 DEF SleepWord
  <2>5. Core' /\ breaks' \in Nat
    BY <2>1, <2>2, <2>3, <2>4, AddCore
  <2>6. user' \in [Task -> {"idle", "sleep", "blocked", "holding", "gone"}]
        /\ handle' \in [Task -> Action \cup {Nil}]
        /\ \A u \in Task : user'[u] = "sleep" => handle'[u] # Nil
    BY <1>1, <1>3, <2>1, IoTaskAssumption DEF RestType, SleepWord
  <2>7. RestType'
    BY <1>1, <2>4, <2>5, <2>6 DEF RestType, thread, world
  <2> QED BY <2>5, <2>7, InvPartsNext
<1>4. CASE SleepWait(t) \/ DestroyWord(t)
  <2>1. /\ UNCHANGED <<activeCount, pendingWrites, issued, handler, breaks, stage,
                       cursor, next, again, polled, revents, monitor>>
        /\ UNCHANGED world
        /\ user' \in [Task -> {"idle", "sleep", "blocked", "holding", "gone"}]
        /\ handle' \in [Task -> Action \cup {Nil}] /\ awake' \subseteq Task
        /\ \A u \in Task : user'[u] = "sleep" => handle'[u] # Nil
    BY <1>1, <1>4 DEF RestType, SleepWait, DestroyWord
  <2>2. CASE handle[t] # Nil /\ Destroy(handle[t])
    <3>1. handle[t] \in Action
      BY <1>1, <2>2 DEF RestType
    <3>2. Core'
      BY <2>1, <2>2, <3>1, DestroyCore
    <3>3. at' = at
      BY <2>2, <3>1, DestroyLists
    <3>4. RestType'
      BY <1>1, <2>1, <3>3 DEF RestType, world
    <3> QED BY <3>2, <3>4, InvPartsNext
  <2>3. CASE UNCHANGED <<act, live, active, waiting, done, at>>
    <3>1. Core'
      BY <1>1, <2>1, <2>3, CoreSame
    <3>2. RestType'
      BY <1>1, <2>1, <2>3 DEF RestType, world
    <3> QED BY <3>1, <3>2, InvPartsNext
  <2> QED BY <1>1, <1>4, <2>2, <2>3 DEF SleepWait, DestroyWord, RestType
<1>5. CASE NonblockRead(t) \/ OpenWord(t) \/ Exit(t)
  <2>1. /\ UNCHANGED <<act, lists, handler, breaks, thread, handle, monitor>>
        /\ data' \in [Fd -> 0..MaxData]
        /\ hup' \in [Fd -> BOOLEAN] /\ open' \in [Fd -> BOOLEAN]
        /\ user' \in [Task -> {"idle", "sleep", "blocked", "holding", "gone"}]
        /\ awake' \subseteq Task
        /\ \A u \in Task : user'[u] = "sleep" => handle'[u] # Nil
    <3>1. CASE NonblockRead(t)
      <4>1. PICK f \in Fd, count \in Counts \ {0} :
              data' = [data EXCEPT ![f] = IF @ < count THEN 0 ELSE @ - count]
        BY <3>1 DEF NonblockRead
      <4>2. count \in Nat
        BY IoTypesAssumption
      <4>3. data' \in [Fd -> 0..MaxData]
        BY <1>1, <4>1, <4>2, IoBoundsAssumption DEF RestType
      <4> QED BY <1>1, <3>1, <4>3 DEF NonblockRead, RestType, tasks
    <3>2. CASE OpenWord(t)
      BY <1>1, <3>2, IoBoundsAssumption DEF OpenWord, RestType, tasks
    <3>3. CASE Exit(t)
      BY <1>1, <3>3 DEF Exit, RestType, world
    <3> QED BY <1>5, <3>1, <3>2, <3>3
  <2>2. Core'
    BY <1>1, <2>1, CoreSame DEF thread, lists
  <2>3. RestType'
    BY <1>1, <2>1 DEF RestType, thread
  <2> QED BY <2>2, <2>3, InvPartsNext
<1> QED BY <1>2, <1>3, <1>4, <1>5
-----------------------------------------------------------------------------
(* What the IO thread and the rest of the world do.                        *)

\* Actions change, the lists do not, and neither does what an action is.
LEMMA CoreMarked ==
  ASSUME Core, act' \in [Action -> Actions],
         \A a \in Action : /\ act'[a].index <= act'[a].count
                           /\ act'[a].type = act[a].type
                           /\ act'[a].fd = act[a].fd,
         \A a \in ToSet(done) : act'[a].isDone,
         UNCHANGED <<live, active, waiting, done, activeCount, pendingWrites,
                     issued>>,
         ThreadInv', InUse' \subseteq InUse
  PROVE  Core'
<1>1. ToSet(active) \subseteq Action /\ ToSet(waiting) \subseteq Action
  BY ToSetType DEF Core, CoreType
<1>2. CoreType'
  BY DEF Core, CoreType
<1>3. ListsInv'
  BY DEF Core, ListsInv
<1>4. FdInv' /\ Kept'
  BY DEF Core, FdInv, Kept
<1>5. Exact'
  <2>1. {a \in ToSet(active) \cup ToSet(waiting) : act'[a].type = "WRITE"}
          = {a \in ToSet(active) \cup ToSet(waiting) : act[a].type = "WRITE"}
    BY <1>1
  <2> QED BY <2>1 DEF Core, Exact
<1> QED BY <1>2, <1>3, <1>4, <1>5 DEF Core

LEMMA MonitorStep ==
  ASSUME IoIInv, Monitor
  PROVE  IoIInv'
<1>1. Core /\ RestType
  BY InvParts
<1>2. /\ UNCHANGED <<act, lists, breaks, thread, tasks, world>>
      /\ handler' \in BOOLEAN
      /\ monitor' \in {"off", "test", "wait", "asleep", "ended"}
  BY <1>1 DEF Monitor, StartMonitor, TestWrites, MonitorWait, RestType
<1>3. Core'
  BY <1>1, <1>2, CoreSame DEF lists, thread
<1>4. RestType'
  BY <1>1, <1>2 DEF RestType, thread, tasks, world
<1> QED BY <1>3, <1>4, InvPartsNext

LEMMA WorldStep ==
  ASSUME IoIInv, World
  PROVE  IoIInv'
<1>1. Core /\ RestType
  BY InvParts
<1>2. ASSUME NEW f \in Fd, Arrive(f) \/ HangUp(f)
      PROVE  IoIInv'
  <2>1. /\ UNCHANGED <<act, lists, handler, breaks, thread, tasks, monitor, open>>
        /\ data' \in [Fd -> 0..MaxData] /\ hup' \in [Fd -> BOOLEAN]
    <3>1. CASE Arrive(f)
      <4>1. /\ UNCHANGED <<act, lists, handler, breaks, thread, tasks, monitor, hup, open>>
            /\ data[f] < MaxData /\ data' = [data EXCEPT ![f] = data[f] + 1]
        BY <3>1 DEF Arrive
      <4>2. data \in [Fd -> 0..MaxData] /\ MaxData \in Nat /\ hup \in [Fd -> BOOLEAN]
        BY <1>1, IoBoundsAssumption DEF RestType
      <4>3. data[f] + 1 \in 0..MaxData
        BY <4>1, <4>2
      <4> QED BY <4>1, <4>2, <4>3
    <3>2. CASE HangUp(f)
      BY <1>1, <3>2 DEF RestType, HangUp
    <3> QED BY <1>2, <3>1, <3>2
  <2>2. Core'
    BY <1>1, <2>1, CoreSame DEF lists, thread
  <2>3. RestType'
    BY <1>1, <2>1 DEF RestType, thread, tasks
  <2> QED BY <2>2, <2>3, InvPartsNext
<1>3. ASSUME NEW a \in Action, TimePasses(a)
      PROVE  IoIInv'
  <2>1. /\ act' = [act EXCEPT ![a].due = TRUE]
        /\ UNCHANGED <<lists, handler, breaks, thread, tasks, monitor, world>>
    BY <1>3 DEF TimePasses
  <2>2. act \in [Action -> Actions] /\ \A b \in Action : act[b].index <= act[b].count
    BY <1>1 DEF Core, CoreType
  <2>3. /\ act' \in [Action -> Actions]
        /\ \A b \in Action : /\ act'[b].index <= act'[b].count
                             /\ act'[b].type = act[b].type
                             /\ act'[b].fd = act[b].fd
                             /\ act'[b].isDone = act[b].isDone
                             /\ act'[b].doomed = act[b].doomed
    <3>1. act' = [act EXCEPT ![a] = [act[a] EXCEPT !.due = TRUE]]
      BY <2>1, <2>2
    <3>2. [act[a] EXCEPT !.due = TRUE] \in Actions
      BY <2>2 DEF Actions
    <3>3. act[a] \in Actions
      BY <2>2
    <3>4. /\ [act[a] EXCEPT !.due = TRUE].index = act[a].index
          /\ [act[a] EXCEPT !.due = TRUE].count = act[a].count
          /\ [act[a] EXCEPT !.due = TRUE].type = act[a].type
          /\ [act[a] EXCEPT !.due = TRUE].fd = act[a].fd
          /\ [act[a] EXCEPT !.due = TRUE].isDone = act[a].isDone
          /\ [act[a] EXCEPT !.due = TRUE].doomed = act[a].doomed
      BY <3>3 DEF Actions
    <3> QED BY <2>2, <3>1, <3>2, <3>4
  <2>4. ToSet(active) \subseteq Action /\ ToSet(done) \subseteq Action
    BY <1>1, ToSetType DEF Core, CoreType
  <2>5. UNCHANGED <<live, active, waiting, done, activeCount, pendingWrites, issued,
                    at, cursor, next, polled>>
    BY <2>1 DEF lists, thread
  <2>6. ThreadInv'
    BY <1>1, <2>3, <2>4, <2>5 DEF Core, ThreadInv
  <2>7. InUse' \subseteq InUse
    BY <2>5 DEF InUse, InHand
  <2>8. \A b \in ToSet(done) : act'[b].isDone
    BY <1>1, <2>3, <2>4 DEF Core, ListsInv
  <2>9. Core'
    BY <1>1, <2>3, <2>5, <2>6, <2>7, <2>8, CoreMarked
  <2>10. RestType'
    BY <1>1, <2>1 DEF RestType, thread, tasks, world
  <2> QED BY <2>9, <2>10, InvPartsNext
<1> QED BY <1>2, <1>3 DEF World

LEMMA ScanStep ==
  ASSUME IoIInv, Scan
  PROVE  IoIInv'
<1>1. Core /\ RestType
  BY InvParts
<1> DEFINE finished == {a \in ToSet(active) :
                          \/ act[a].type \in Instant
                          \/ act[a].type \in Transfers /\ act[a].count = 0
                          \/ Expired(a)}
           Wrong(a) == /\ act[a].type \in {"SEEK", "TELL"}
                       /\ ~ open[act[a].fd]
           Closes(f) ==
             \E a \in ToSet(active) : act[a].fd = f /\ act[a].type = "CLOSE"
<1>2. /\ act' = [a \in Action |->
                   IF a \notin finished THEN act[a]
                   ELSE [act[a] EXCEPT !.isDone = TRUE, !.hasError = Wrong(a)]]
      /\ open' = [f \in Fd |-> open[f] /\ ~ Closes(f)]
      /\ again' = (finished # {})
  BY DEF Scan
<1>3. finished \subseteq ToSet(active)
  OBVIOUS
<1>4. \A a \in Action : Wrong(a) \in BOOLEAN
  OBVIOUS
<1>5. again' \in BOOLEAN
  BY <1>2
<1>6. open' \in [Fd -> BOOLEAN]
  BY <1>2
<1> HIDE DEF finished, Wrong, Closes
<1>7. /\ UNCHANGED <<lists, handler, breaks, next, polled, revents, tasks, monitor,
                     data, hup>>
      /\ at' = "remove" /\ stage' = "before" /\ cursor' = First(active)
  BY DEF Scan
<1>8. /\ act \in [Action -> Actions] /\ \A a \in Action : act[a].index <= act[a].count
      /\ active \in Seq(Action) /\ done \in Seq(Action)
  BY <1>1 DEF Core, CoreType
<1>9. /\ act' \in [Action -> Actions]
      /\ \A a \in Action : /\ act'[a].index <= act'[a].count
                           /\ act'[a].type = act[a].type
                           /\ act'[a].fd = act[a].fd
                           /\ a \notin finished => act'[a] = act[a]
  <2>1. ASSUME NEW a \in Action
        PROVE  LET r == [act[a] EXCEPT !.isDone = TRUE, !.hasError = Wrong(a)]
               IN  /\ r \in Actions /\ r.index = act[a].index
                   /\ r.count = act[a].count
                   /\ r.type = act[a].type /\ r.fd = act[a].fd
    <3>1. act[a] \in Actions /\ Wrong(a) \in BOOLEAN
      BY <1>4, <1>8
    <3> QED BY <3>1 DEF Actions
  <2> QED BY <1>2, <1>8, <2>1
<1>10. ToSet(done) \subseteq Action /\ ToSet(active) \subseteq Action
  BY <1>8, ToSetType
<1>11. \A a \in ToSet(done) : act'[a].isDone
  BY <1>1, <1>3, <1>9, <1>10 DEF Core, ListsInv
<1>12. First(active) \in ToSet(active) \cup {Nil}
  BY <1>8, FirstOf
<1>13. UNCHANGED <<live, active, waiting, done, activeCount, pendingWrites, issued>>
  BY <1>7 DEF lists
<1>14. ThreadInv'
  BY <1>7, <1>12, <1>13 DEF ThreadInv
<1>15. InUse' \subseteq InUse
  BY <1>7, <1>13 DEF InUse, InHand
<1>16. Core'
  BY <1>1, <1>9, <1>11, <1>13, <1>14, <1>15, CoreMarked
<1>17. RestType'
  BY <1>1, <1>5, <1>6, <1>7, <1>10, <1>12 DEF RestType, tasks
<1> QED BY <1>16, <1>17, InvPartsNext
LEMMA PollStep ==
  ASSUME IoIInv, PollReturns
  PROVE  IoIInv'
<1>1. Core /\ RestType
  BY InvParts
<1>2. /\ UNCHANGED <<act, lists, handler, stage, cursor, next, again, polled, tasks,
                     monitor, world>>
      /\ at = "poll" /\ at' = "collect"
  BY DEF PollReturns
<1>3. breaks' \in Nat
  BY <1>1 DEF RestType, PollReturns
<1>4. revents' \in [Action -> SUBSET {"IN", "OUT", "HUP", "ERR", "NVAL"}]
  BY DEF PollReturns, Events
<1>5. ThreadInv' /\ InUse' = InUse
  BY <1>1, <1>2 DEF Core, ThreadInv, InUse, InHand, lists
<1>6. Core'
  BY <1>1, <1>2, <1>5
     DEF Core, CoreType, ListsInv, FdInv, Kept, Exact, lists
<1>7. RestType'
  BY <1>1, <1>2, <1>3, <1>4 DEF RestType, tasks, world
<1> QED BY <1>6, <1>7, InvPartsNext

LEMMA EndPassStep ==
  ASSUME IoIInv, EndPass
  PROVE  IoIInv'
<1>1. Core /\ RestType
  BY InvParts
<1>2. /\ UNCHANGED <<act, lists, handler, breaks, stage, cursor, next, again, revents,
                     tasks, monitor, world>>
      /\ at = "remove" /\ cursor = Nil
      /\ \/ at' = "top" /\ polled' = {}
         \/ at' = "scan" /\ polled' = polled
         \/ /\ at' = "poll"
            /\ polled' = {a \in ToSet(active) : act[a].type \in Transfers}
  BY DEF EndPass
<1>3. ToSet(active) \subseteq Action
  BY <1>1, ToSetType DEF Core, CoreType
<1>4. ThreadInv' /\ InUse' \subseteq InUse
  BY <1>2 DEF ThreadInv, InUse, InHand, lists
<1>5. Core'
  BY <1>1, <1>2, <1>4
     DEF Core, CoreType, ListsInv, FdInv, Kept, Exact, lists
<1>6. RestType'
  BY <1>1, <1>2, <1>3 DEF RestType, tasks, world
<1> QED BY <1>5, <1>6, InvPartsNext

LEMMA NotifyStep ==
  ASSUME IoIInv, Notify
  PROVE  IoIInv'
<1>1. Core /\ RestType
  BY InvParts
<1>2. /\ UNCHANGED <<act, lists, handler, breaks, stage, cursor, next, again, polled,
                     revents, user, handle, world>>
      /\ at = "notify" /\ at' = "dispose"
      /\ awake' = awake \cup {t \in Task : t = act[cursor].task /\ user[t] # "gone"}
      /\ monitor' = IF handler /\ monitor = "asleep" THEN "test" ELSE monitor
  BY DEF Notify
<1>3. ThreadInv' /\ InUse' = InUse
  BY <1>1, <1>2 DEF Core, ThreadInv, InUse, InHand, lists
<1>4. Core'
  BY <1>1, <1>2, <1>3
     DEF Core, CoreType, ListsInv, FdInv, Kept, Exact, lists
<1>5. RestType'
  BY <1>1, <1>2 DEF RestType, world
<1> QED BY <1>4, <1>5, InvPartsNext

\* Freeing an action that is in no list, and that the thread is done with.
LEMMA FreeCore ==
  ASSUME CoreType, ListsInv, FdInv, Exact, Kept,
         NEW a \in Action, Free(a), a \notin InUse',
         UNCHANGED <<active, waiting, done, activeCount, pendingWrites, issued>>,
         InUse' \subseteq InUse
  PROVE  CoreType' /\ ListsInv' /\ FdInv' /\ Exact' /\ Kept'
<1>1. /\ a \notin ToSet(active) /\ a \notin ToSet(waiting) /\ a \notin ToSet(done)
  BY DEF InUse, InHand
<1>2. /\ act' = [act EXCEPT ![a] = Blank] /\ live' = live \ {a}
      /\ act \in [Action -> Actions]
      /\ \A b \in Action : act[b].index <= act[b].count
  BY DEF Free, CoreType
<1>3. Blank \in Actions /\ Blank.index <= Blank.count /\ Blank.type = "SLEEP"
  BY DEF Blank, Actions, AllTypes
<1>4. /\ act' \in [Action -> Actions]
      /\ \A b \in Action : act'[b].index <= act'[b].count
      /\ \A b \in Action : b # a => act'[b] = act[b]
      /\ act'[a].type = "SLEEP"
  BY <1>2, <1>3
<1>5. ToSet(active) \subseteq Action /\ ToSet(waiting) \subseteq Action
      /\ ToSet(done) \subseteq Action
  BY ToSetType DEF CoreType
<1>6. CoreType'
  BY <1>2, <1>4 DEF CoreType
<1>7. ListsInv'
  BY <1>1, <1>4, <1>5 DEF ListsInv
<1>8. FdInv'
  BY <1>4 DEF FdInv
<1>9. Exact'
  <2>1. {b \in ToSet(active) \cup ToSet(waiting) : act'[b].type = "WRITE"}
          = {b \in ToSet(active) \cup ToSet(waiting) : act[b].type = "WRITE"}
    BY <1>1, <1>4, <1>5
  <2> QED BY <2>1 DEF Exact
<1>10. Kept'
  BY <1>2 DEF Kept
<1> QED BY <1>6, <1>7, <1>8, <1>9, <1>10

LEMMA DisposeStep ==
  ASSUME IoIInv, Dispose
  PROVE  IoIInv'
<1>1. Core /\ RestType
  BY InvParts
<1>2. /\ UNCHANGED <<active, waiting, done, activeCount, pendingWrites, issued,
                     handler, breaks, stage, again, polled, revents, tasks, monitor,
                     world>>
      /\ at = "dispose" /\ at' = "remove" /\ cursor' = next /\ next' = Nil
  BY DEF Dispose
<1>3. /\ cursor \in Action \ (ToSet(active) \cup ToSet(waiting))
      /\ act[cursor].doomed => cursor \notin ToSet(done)
      /\ next \in ToSet(active) \cup {Nil}
  BY <1>1, <1>2 DEF Core, ThreadInv
<1>4. ThreadInv'
  BY <1>2, <1>3 DEF ThreadInv
<1>5. InUse' \subseteq ToSet(active) \cup ToSet(waiting) \cup ToSet(done)
      /\ InUse' \subseteq InUse
  BY <1>2 DEF InUse, InHand
<1>6. Core'
  <2>1. CASE act[cursor].doomed
    <3>1. Free(cursor) /\ cursor \notin InUse'
      BY <1>3, <1>5, <2>1 DEF Dispose
    <3> QED BY <1>1, <1>2, <1>3, <1>4, <1>5, <3>1, FreeCore DEF Core
  <2>2. CASE ~ act[cursor].doomed
    <3>1. UNCHANGED <<live, act>>
      BY <2>2 DEF Dispose
    <3> QED BY <1>1, <1>2, <1>4, <1>5, <3>1
            DEF Core, CoreType, ListsInv, FdInv, Kept, Exact
  <2> QED BY <2>1, <2>2
<1>7. ToSet(active) \subseteq Action
  BY <1>1, ToSetType DEF Core, CoreType
<1>8. RestType'
  BY <1>1, <1>2, <1>3, <1>7 DEF RestType, tasks, world
<1> QED BY <1>6, <1>8, InvPartsNext
\* What one action is after the poll: it has moved by what was there or what
\* was left of its buffer, whichever is less.
LEMMA AnsweredType ==
  ASSUME act \in [Action -> Actions], data \in [Fd -> 0..MaxData],
         NEW a \in Action, act[a].index <= act[a].count, act[a].fd \in Fd,
         NEW room \in -1..2, NEW failing
  PROVE  LET r == Answered(a, room, failing) IN
         /\ r \in Actions /\ r.index <= r.count
         /\ r.type = act[a].type /\ r.fd = act[a].fd
         /\ act[a].type # "WRITE" => r.index - act[a].index \in 0..data[act[a].fd]
<1> DEFINE r == act[a]
           H == r.hasHangup \/ "HUP" \in revents[a]
           E == r.hasError \/ "ERR" \in revents[a]
           D == r.isDone \/ "ERR" \in revents[a]
           hung == [r EXCEPT !.hasHangup = H, !.hasError = E, !.isDone = D]
           left == r.count - r.index
           here == data[r.fd]
<1>1. r \in Actions /\ r.index <= r.count /\ r.fd \in Fd
  OBVIOUS
<1>2. /\ Counts \subseteq Nat /\ MaxData \in Nat /\ here \in Nat
  <2>1. here \in 0..MaxData /\ MaxData \in Nat
    BY <1>1, IoBoundsAssumption
  <2> QED BY <2>1, IoTypesAssumption
<1>3. H \in BOOLEAN /\ E \in BOOLEAN /\ D \in BOOLEAN
  BY <1>1 DEF Actions
<1>4. Answered(a, room, failing) =
        IF revents[a] \cap {"IN", "OUT"} = {} THEN hung
        ELSE IF a \in failing THEN [Ended(hung) EXCEPT !.hasError = TRUE]
        ELSE IF r.type = "WRITE"
        THEN IF room < 0 THEN hung
             ELSE IF room = 0 THEN Ended(hung) ELSE Moved(hung, Step(room, left))
        ELSE IF here > 0 THEN Moved(hung, Step(here, left))
        ELSE IF hup[r.fd] THEN Ended(hung)
        ELSE hung
  BY DEF Answered
<1>5. /\ r.index \in Nat /\ r.count \in Nat /\ left \in Nat
      /\ r.index <= r.count
  <2>1. r.index \in Nat /\ r.count \in Counts \cup {0}
    BY <1>1 DEF Actions
  <2> HIDE DEF r
  <2>2. \A n \in Counts \cup {0} : n \in Nat
    BY <1>2
  <2>3. r.count \in Nat
    BY <2>1, <2>2
  <2> QED BY <1>1, <2>1, <2>3
<1> HIDE DEF H, E, D
<1>6. /\ hung \in Actions /\ hung.index = r.index /\ hung.count = r.count
      /\ hung.type = r.type /\ hung.fd = r.fd
  BY <1>1, <1>3 DEF Actions
<1> HIDE DEF hung, here, left, r
<1>7. /\ Ended(hung) \in Actions /\ Ended(hung).index = r.index
      /\ Ended(hung).count = r.count
      /\ Ended(hung).type = r.type /\ Ended(hung).fd = r.fd
  BY <1>6 DEF Ended, Actions
<1>8. LET failed == [Ended(hung) EXCEPT !.hasError = TRUE]
      IN  /\ failed \in Actions /\ failed.index = r.index
          /\ failed.count = r.count
          /\ failed.type = r.type /\ failed.fd = r.fd
  BY <1>7 DEF Actions
<1>9. ASSUME NEW n \in Nat, n <= left
      PROVE  LET m == Moved(hung, n)
             IN  /\ m \in Actions /\ m.index = r.index + n
                 /\ m.count = r.count /\ m.index <= m.count
                 /\ m.type = r.type /\ m.fd = r.fd
  <2> DEFINE over == hung.index + n >= hung.count
             where == hung.index + n
  <2>1. over \in BOOLEAN /\ where \in Nat /\ where = r.index + n
    BY <1>5, <1>6
  <2>2. Moved(hung, n) = [hung EXCEPT !.index = where, !.isDone = over]
    BY DEF Moved
  <2> HIDE DEF over, where
  <2>3. LET m == [hung EXCEPT !.index = where, !.isDone = over]
        IN  /\ m \in Actions /\ m.index = where /\ m.count = hung.count
            /\ m.type = hung.type /\ m.fd = hung.fd
    BY <1>6, <2>1 DEF Actions
  <2>4. r.index + n <= r.count
    BY <1>5, <1>9 DEF left
  <2> QED BY <1>6, <2>1, <2>2, <2>3, <2>4
<1>10. ASSUME NEW size \in Nat
       PROVE  Step(size, left) \in Nat /\ Step(size, left) <= left
              /\ Step(size, left) <= size
  BY <1>5 DEF Step
<1> DEFINE result == Answered(a, room, failing)
<1>11. CASE result \in {hung, Ended(hung), [Ended(hung) EXCEPT !.hasError = TRUE]}
  <2>1. /\ result \in Actions /\ result.index = r.index /\ result.count = r.count
        /\ result.type = r.type /\ result.fd = r.fd
    BY <1>6, <1>7, <1>8, <1>11
  <2>2. result.index - r.index = 0 /\ 0 \in 0..here
    BY <1>2, <1>5, <2>1
  <2> QED BY <1>5, <2>1, <2>2 DEF r, here
<1>12. CASE r.type = "WRITE" /\ room > 0 /\ result = Moved(hung, Step(room, left))
  <2> HIDE DEF result
  <2>1. room \in Nat
    BY <1>12
  <2> QED BY <1>9, <1>10, <1>12, <2>1 DEF r, result
<1>13. CASE result = Moved(hung, Step(here, left))
  <2>1. Step(here, left) \in 0..here /\ Step(here, left) <= left
    BY <1>2, <1>10
  <2>2. /\ result \in Actions /\ result.index = r.index + Step(here, left)
        /\ result.index <= result.count
        /\ result.type = r.type /\ result.fd = r.fd
    BY <1>9, <1>13, <2>1
  <2>3. result.index - r.index \in 0..here
    BY <1>5, <2>1, <2>2
  <2> QED BY <2>2, <2>3 DEF r, here
<1> QED BY <1>4, <1>11, <1>12, <1>13
LEMMA CollectStep ==
  ASSUME IoIInv, Collect
  PROVE  IoIInv'
<1>1. Core /\ RestType
  BY InvParts
<1>2. /\ act \in [Action -> Actions] /\ \A a \in Action : act[a].index <= act[a].count
      /\ active \in Seq(Action) /\ done \in Seq(Action)
      /\ data \in [Fd -> 0..MaxData]
  BY <1>1 DEF Core, CoreType, RestType
<1>3. /\ at = "collect" /\ at' = "remove" /\ stage' = "after" /\ cursor' = First(active)
      /\ revents' = [a \in Action |-> {}]
      /\ UNCHANGED <<lists, handler, breaks, next, again, polled, tasks, monitor, hup,
                     open>>
  BY DEF Collect
<1> DEFINE Read(f) == {a \in polled : act[a].fd = f /\ act[a].type = "READ"}
<1>4. PICK room \in -1..2, failing \in SUBSET polled :
        /\ act' = [a \in Action |->
                     IF a \in polled THEN Answered(a, room, failing)
                     ELSE IF a \in ToSet(active) /\ Expired(a)
                          THEN [act[a] EXCEPT !.isDone = TRUE] ELSE act[a]]
        /\ data' = [f \in Fd |->
                     IF Read(f) = {} THEN data[f]
                     ELSE LET a == CHOOSE b \in Read(f) : TRUE
                          IN  data[f] - (Answered(a, room, failing).index
                                           - act[a].index)]
  BY DEF Collect
<1>5. ToSet(active) \subseteq Action /\ ToSet(done) \subseteq Action
  BY <1>2, ToSetType
<1>6. /\ polled \subseteq ToSet(active)
      /\ \A a \in polled : act[a].fd \in Fd /\ a \in Action
  BY <1>1, <1>3, <1>5 DEF Core, ThreadInv, FdInv, Transfers
<1>7. ASSUME NEW a \in polled
      PROVE  LET r == Answered(a, room, failing) IN
             /\ r \in Actions /\ r.index <= r.count
             /\ r.type = act[a].type /\ r.fd = act[a].fd
             /\ act[a].type # "WRITE"
                  => r.index - act[a].index \in 0..data[act[a].fd]
  <2>1. a \in Action /\ act[a].fd \in Fd /\ act[a].index <= act[a].count
        /\ room \in -1..2
    BY <1>2, <1>6
  <2> QED BY <1>2, <2>1, AnsweredType
<1>8. ASSUME NEW a \in Action
      PROVE  LET r == [act[a] EXCEPT !.isDone = TRUE] IN
             /\ r \in Actions /\ r.index = act[a].index /\ r.count = act[a].count
             /\ r.type = act[a].type /\ r.fd = act[a].fd
  BY <1>2 DEF Actions
<1>9. /\ act' \in [Action -> Actions]
      /\ \A a \in Action : /\ act'[a].index <= act'[a].count
                           /\ act'[a].type = act[a].type
                           /\ act'[a].fd = act[a].fd
                           /\ a \notin ToSet(active) => act'[a] = act[a]
  BY <1>2, <1>4, <1>6, <1>7, <1>8
<1>10. data' \in [Fd -> 0..MaxData]
  <2>1. ASSUME NEW f \in Fd, Read(f) # {}
        PROVE  data'[f] \in 0..MaxData
    <3> DEFINE a == CHOOSE b \in Read(f) : TRUE
               read == Answered(a, room, failing).index - act[a].index
    <3>1. a \in Read(f)
      BY <2>1
    <3>2. data'[f] = data[f] - read
      BY <1>4, <2>1
    <3>3. a \in polled /\ act[a].fd = f /\ act[a].type = "READ"
      BY <3>1
    <3> HIDE DEF a
    <3>4. read \in 0..data[f]
      BY <1>7, <3>3
    <3>5. data[f] \in 0..MaxData /\ MaxData \in Nat
      BY <1>2, IoBoundsAssumption
    <3> HIDE DEF read
    <3> QED BY <3>2, <3>4, <3>5
  <2>2. \A f \in Fd : Read(f) = {} => data'[f] = data[f]
    BY <1>4
  <2>3. data' = [f \in Fd |-> data'[f]]
    BY <1>4
  <2>4. \A f \in Fd : data'[f] \in 0..MaxData
    BY <1>2, <2>1, <2>2
  <2> QED BY <2>3, <2>4
<1>11. \A a \in ToSet(done) : act'[a].isDone
  BY <1>1, <1>5, <1>9 DEF Core, ListsInv
<1>12. First(active) \in ToSet(active) \cup {Nil}
  BY <1>2, FirstOf
<1>13. UNCHANGED <<live, active, waiting, done, activeCount, pendingWrites, issued>>
  BY <1>3 DEF lists
<1>14. ThreadInv' /\ InUse' \subseteq InUse
  BY <1>3, <1>12, <1>13 DEF ThreadInv, InUse, InHand
<1>15. Core'
  BY <1>1, <1>9, <1>11, <1>13, <1>14, CoreMarked
<1>16. RestType'
  BY <1>1, <1>3, <1>5, <1>10, <1>12 DEF RestType, tasks
<1> QED BY <1>15, <1>16, InvPartsNext
\* An action that is done leaves the lists that are served, and the one that
\* waits longest for its file descriptor comes in.
LEMMA TakeOutLists ==
  ASSUME CoreType, ListsInv, Exact, NEW a \in ToSet(active), TakeOut(a)
  PROVE  /\ active' \in Seq(Action) /\ IsInjective(active')
         /\ waiting' \in Seq(Action) /\ IsInjective(waiting')
         /\ ToSet(active') \cap ToSet(waiting') = {}
         /\ ToSet(active') \cup ToSet(waiting')
              = (ToSet(active) \cup ToSet(waiting)) \ {a}
         /\ ToSet(active) \ {a} \subseteq ToSet(active')
         /\ activeCount' = Len(active')
<1> DEFINE successor == Successor(a)
           rest == Without(active, a)
<1>1. /\ active \in Seq(Action) /\ IsInjective(active)
      /\ waiting \in Seq(Action) /\ IsInjective(waiting)
      /\ ToSet(active) \cap ToSet(waiting) = {}
      /\ activeCount = Len(active)
  BY DEF CoreType, ListsInv, Exact
<1>2. ToSet(waiting) \subseteq Action /\ Nil \notin Action
  BY <1>1, ToSetType, IoTaskAssumption
<1>3. successor \in ToSet(waiting) \cup {Nil}
  BY <1>1, FirstAmongOne DEF Successor
<1>4. /\ rest \in Seq(Action) /\ Len(rest) = Len(active) - 1
      /\ IsInjective(rest) /\ ToSet(rest) = ToSet(active) \ {a}
  BY <1>1, WithoutOne
<1>5. /\ IF successor = Nil
         THEN active' = rest /\ waiting' = waiting
         ELSE /\ active' = <<successor>> \o rest
              /\ waiting' = Without(waiting, successor)
      /\ activeCount' = IF successor = Nil THEN activeCount - 1 ELSE activeCount
  BY DEF TakeOut, CountWithout
<1> HIDE DEF successor, rest
<1>6. CASE successor = Nil
  BY <1>1, <1>4, <1>5, <1>6
<1>7. CASE successor # Nil
  <2>1. successor \in ToSet(waiting) /\ successor \in Action \ ToSet(rest)
    BY <1>1, <1>2, <1>3, <1>4, <1>7
  <2>2. /\ active' \in Seq(Action) /\ Len(active') = Len(rest) + 1
        /\ IsInjective(active') /\ ToSet(active') = ToSet(rest) \cup {successor}
    <3>1. active' = <<successor>> \o rest
      BY <1>5, <1>7
    <3>2. LET more == <<successor>> \o rest IN
          /\ more \in Seq(Action) /\ Len(more) = Len(rest) + 1
          /\ IsInjective(more) /\ ToSet(more) = ToSet(rest) \cup {successor}
      BY <1>4, <2>1, Pushed
    <3> QED BY <3>1, <3>2
  <2>3. /\ waiting' \in Seq(Action) /\ IsInjective(waiting')
        /\ ToSet(waiting') = ToSet(waiting) \ {successor}
    BY <1>1, <1>5, <1>7, <2>1, WithoutOne
  <2>4. activeCount' = Len(active')
    <3>1. Len(active) \in Nat /\ Len(rest) \in Nat
      BY <1>1, <1>4
    <3> QED BY <1>1, <1>4, <1>5, <1>7, <2>2, <3>1
  <2>5. a \notin ToSet(waiting)
    BY <1>1
  <2> QED BY <1>1, <1>4, <2>1, <2>2, <2>3, <2>4, <2>5
<1> QED BY <1>6, <1>7

LEMMA TakeOutCore ==
  ASSUME IoIInv, NEW a \in ToSet(active), act[a].isDone, TakeOut(a),
         at = "remove", UNCHANGED polled
  PROVE  Core' /\ at' \in {"remove", "notify"}
         /\ {cursor', next'} \subseteq Action \cup {Nil}
<1>1. Core /\ RestType
  BY InvParts
<1>2. /\ CoreType /\ ListsInv /\ FdInv /\ Kept /\ Exact
      /\ active \in Seq(Action) /\ IsInjective(active)
      /\ waiting \in Seq(Action) /\ done \in Seq(Action) /\ IsInjective(done)
      /\ act \in [Action -> Actions] /\ live \subseteq Action
      /\ \A b \in Action : act[b].index <= act[b].count
  BY <1>1 DEF Core, CoreType
<1>3. /\ ToSet(active) \subseteq Action /\ ToSet(waiting) \subseteq Action
      /\ ToSet(done) \subseteq Action /\ Nil \notin Action /\ a \in Action
      /\ a \notin ToSet(done)
  BY <1>2, ToSetType, IoTaskAssumption DEF ListsInv
<1>4. /\ active' \in Seq(Action) /\ IsInjective(active')
      /\ waiting' \in Seq(Action) /\ IsInjective(waiting')
      /\ ToSet(active') \cap ToSet(waiting') = {}
      /\ ToSet(active') \cup ToSet(waiting')
           = (ToSet(active) \cup ToSet(waiting)) \ {a}
      /\ ToSet(active) \ {a} \subseteq ToSet(active')
      /\ activeCount' = Len(active')
  BY <1>2, TakeOutLists
<1>5. After(active, a) \in (ToSet(active) \ {a}) \cup {Nil}
  BY <1>2, AfterOne
<1>6. /\ pendingWrites' = pendingWrites - (IF act[a].type = "WRITE" THEN 1 ELSE 0)
      /\ done' = IF act[a].doomed THEN done ELSE <<a>> \o done
      /\ issued' = IF act[a].type = "SLEEP" THEN issued
                   ELSE [issued EXCEPT ![act[a].fd] = Without(@, a)]
      /\ IF Answers(a)
         THEN at' = "notify" /\ cursor' = a /\ next' = After(active, a)
         ELSE at' = at /\ cursor' = After(active, a) /\ next' = Nil
      /\ IF act[a].doomed /\ ~ Answers(a) THEN Free(a) ELSE UNCHANGED <<live, act>>
  BY DEF TakeOut
<1> HIDE DEF After, Answers, Without
<1>7. /\ done' \in Seq(Action) /\ IsInjective(done')
      /\ ToSet(done') = IF act[a].doomed THEN ToSet(done) ELSE ToSet(done) \cup {a}
  <2>1. CASE act[a].doomed
    BY <1>2, <1>6, <2>1
  <2>2. CASE ~ act[a].doomed
    <3>1. done' = <<a>> \o done /\ a \in Action \ ToSet(done)
      BY <1>3, <1>6, <2>2
    <3> QED BY <1>2, <2>2, <3>1, Pushed
  <2> QED BY <2>1, <2>2
<1>8. /\ act' \in [Action -> Actions] /\ live' \subseteq Action
      /\ \A b \in Action : act'[b].index <= act'[b].count
      /\ \A b \in Action : b # a => act'[b] = act[b]
      /\ act'[a] # act[a] => act'[a].type = "SLEEP"
      /\ (act[a].doomed /\ ~ Answers(a)) \/ (act' = act /\ live' = live)
      /\ live \ {a} \subseteq live'
  <2>1. CASE act[a].doomed /\ ~ Answers(a)
    <3>1. live' = live \ {a} /\ act' = [act EXCEPT ![a] = Blank]
      BY <1>6, <2>1 DEF Free
    <3>2. Blank \in Actions /\ Blank.index <= Blank.count /\ Blank.type = "SLEEP"
      BY DEF Blank, Actions, AllTypes
    <3> QED BY <1>2, <1>3, <2>1, <3>1, <3>2
  <2>2. CASE ~ (act[a].doomed /\ ~ Answers(a))
    BY <1>2, <1>6, <2>2
  <2> QED BY <2>1, <2>2
<1>9. CoreType'
  <2>1. \A f \in Fd : issued'[f] \in Seq(Action)
    <3>1. \A f \in Fd : issued[f] \in Seq(Action)
      BY <1>2 DEF CoreType
    <3>2. \A f \in Fd : issued'[f] \in {issued[f], Without(issued[f], a)}
      BY <1>6
    <3>3. \A f \in Fd : Without(issued[f], a) \in Seq(Action)
      BY <3>1, WithoutType
    <3> QED BY <3>1, <3>2, <3>3
  <2> QED BY <1>4, <1>7, <1>8, <2>1 DEF CoreType
<1>10. ListsInv'
  <2>1. \A b \in ToSet(done') : act'[b].isDone
    <3>1. \A b \in ToSet(done) : act[b].isDone /\ b # a /\ b \in Action
      BY <1>2, <1>3 DEF ListsInv
    <3>2. ~ act[a].doomed => act'[a].isDone
      BY <1>8
    <3> QED BY <1>7, <1>8, <3>1, <3>2
  <2> QED BY <1>2, <1>4, <1>7, <2>1 DEF ListsInv
<1>11. ThreadInv'
  <2>1. CASE Answers(a)
    <3>1. at' = "notify" /\ cursor' = a /\ next' = After(active, a) /\ act' = act
      BY <1>6, <1>8, <2>1
    <3>2. act[a].doomed => a \notin ToSet(done')
      BY <1>3, <1>7
    <3> QED BY <1>3, <1>4, <1>5, <3>1, <3>2 DEF ThreadInv
  <2>2. CASE ~ Answers(a)
    <3>1. at' = "remove" /\ cursor' = After(active, a)
      BY <1>6, <2>2
    <3> QED BY <1>4, <1>5, <3>1 DEF ThreadInv
  <2> QED BY <2>1, <2>2
<1>12. FdInv'
  BY <1>2, <1>8 DEF FdInv
<1>13. Kept'
  <2>1. ToSet(active) \cup ToSet(waiting) \cup ToSet(done) \subseteq live
    BY <1>2 DEF Kept, InUse, InHand
  <2>2. CASE Answers(a)
    <3>1. at' = "notify" /\ cursor' = a /\ next' = After(active, a) /\ live' = live
      BY <1>6, <1>8, <2>2
    <3>2. InUse' = ToSet(active') \cup ToSet(waiting') \cup ToSet(done')
                     \cup ({cursor', next'} \ {Nil})
      BY <3>1 DEF InUse, InHand
    <3> QED BY <1>4, <1>5, <1>7, <2>1, <3>1, <3>2 DEF Kept
  <2>3. CASE ~ Answers(a)
    <3>1. at' = "remove"
      BY <1>6, <2>3
    <3>2. InUse' = ToSet(active') \cup ToSet(waiting') \cup ToSet(done')
      BY <3>1 DEF InUse, InHand
    <3>3. act[a].doomed => a \notin ToSet(done')
      BY <1>3, <1>7
    <3>4. ~ act[a].doomed => live' = live
      BY <1>8
    <3> QED BY <1>4, <1>7, <1>8, <2>1, <3>2, <3>3, <3>4 DEF Kept
  <2> QED BY <2>2, <2>3
<1>14. Exact'
  <2>1. IsFiniteSet(Writes) /\ pendingWrites = Leftover + Cardinality(Writes)
    BY <1>2, CountsNat DEF Exact, Writes
  <2>2. Writes' = Writes \ {a}
    BY <1>3, <1>4, <1>8 DEF Writes
  <2>3. a \in Writes <=> act[a].type = "WRITE"
    BY DEF Writes
  <2> HIDE DEF Writes
  <2>4. pendingWrites' = Leftover + Cardinality(Writes')
    <3>1. Cardinality(Writes) \in Nat /\ Leftover \in Nat
      BY <2>1, FS_CardinalityType, IoBoundsAssumption
    <3>2. CASE act[a].type = "WRITE"
      <4>1. Cardinality(Writes \ {a}) = Cardinality(Writes) - 1
        BY <2>1, <2>3, <3>2, FS_RemoveElement
      <4> QED BY <1>6, <2>1, <2>2, <3>1, <3>2, <4>1
    <3>3. CASE act[a].type # "WRITE"
      <4>1. Writes' = Writes
        BY <2>2, <2>3, <3>3
      <4> QED BY <1>6, <2>1, <3>1, <3>3, <4>1
    <3> QED BY <3>2, <3>3
  <2> QED BY <1>4, <2>4 DEF Exact, Writes
<1>15. at' \in {"remove", "notify"} /\ {cursor', next'} \subseteq Action \cup {Nil}
  BY <1>3, <1>5, <1>6
<1> QED BY <1>9, <1>10, <1>11, <1>12, <1>13, <1>14, <1>15 DEF Core

\* What is taken out is active and done.
LEMMA RemoveDoneCases ==
  ASSUME IoIInv, RemoveDone
  PROVE  \/ \E a \in ToSet(active) : act[a].isDone /\ TakeOut(a)
         \/ cursor' = Nil /\ UNCHANGED <<act, lists, at, next>>
<1>1. Core /\ RestType
  BY InvParts
<1> DEFINE finished == FirstAmong(From(active, cursor), {a \in Action : IsDone(a)})
<1>2. /\ at = "remove" /\ cursor # Nil
      /\ IF finished # Nil THEN TakeOut(finished)
         ELSE cursor' = Nil /\ UNCHANGED <<act, lists, at, next>>
  BY DEF RemoveDone
<1>3. cursor \in ToSet(active) /\ active \in Seq(Action)
  BY <1>1, <1>2 DEF Core, ThreadInv, CoreType
<1>4. /\ From(active, cursor) \in Seq(Action)
      /\ ToSet(From(active, cursor)) \subseteq ToSet(active)
  BY <1>3, FromOne
<1>5. finished # Nil => finished \in ToSet(active) /\ act[finished].isDone
  <2> DEFINE some == {a \in Action : IsDone(a)}
             list == From(active, cursor)
  <2> HIDE DEF list
  <2>1. list \in Seq(Action)
    BY <1>4 DEF list
  <2>2. IF ToSet(list) \cap some = {} THEN FirstAmong(list, some) = Nil
        ELSE FirstAmong(list, some) \in ToSet(list) \cap some
    BY <2>1, FirstAmongOne
  <2> HIDE DEF some
  <2>3. finished = FirstAmong(list, some)
    BY DEF list, some
  <2> HIDE DEF finished
  <2>4. finished # Nil => finished \in ToSet(list) \cap some
    BY <2>2, <2>3
  <2> QED BY <1>4, <2>4 DEF list, some, IsDone
<1> HIDE DEF finished
<1> QED BY <1>2, <1>5

LEMMA RemoveDoneStep ==
  ASSUME IoIInv, RemoveDone
  PROVE  IoIInv'
<1>1. Core /\ RestType
  BY InvParts
<1>2. /\ UNCHANGED <<handler, breaks, stage, again, polled, revents, tasks,
                     monitor, world>>
      /\ at = "remove"
  BY DEF RemoveDone
<1>6. /\ Core' /\ at' \in {"remove", "notify"}
      /\ {cursor', next'} \subseteq Action \cup {Nil}
  <2>1. CASE \E a \in ToSet(active) : act[a].isDone /\ TakeOut(a)
    BY <1>2, <2>1, TakeOutCore
  <2>2. CASE cursor' = Nil /\ UNCHANGED <<act, lists, at, next>>
    <3>1. cursor' = Nil /\ UNCHANGED <<act, lists, at, next, polled>>
      BY <1>2, <2>2
    <3>2. ThreadInv' /\ InUse' = InUse
      BY <1>2, <3>1 DEF ThreadInv, InUse, InHand, lists
    <3>3. Core'
      BY <1>1, <3>1, <3>2
         DEF Core, CoreType, ListsInv, FdInv, Kept, Exact, lists
    <3> QED BY <1>1, <1>2, <3>1, <3>3 DEF RestType
  <2> QED BY <2>1, <2>2, RemoveDoneCases
<1>7. RestType'
  BY <1>1, <1>2, <1>6 DEF RestType, tasks, world
<1> QED BY <1>6, <1>7, InvPartsNext
-----------------------------------------------------------------------------
(* The theorems.                                                           *)

LEMMA IoInit ==
  Init => IoIInv
<1> SUFFICES ASSUME Init PROVE IoIInv
  OBVIOUS
<1>1. /\ active = <<>> /\ waiting = <<>> /\ done = <<>>
      /\ ToSet(active) = {} /\ ToSet(waiting) = {} /\ ToSet(done) = {}
  BY DEF Init, ToSet
<1>2. Blank \in Actions /\ Blank.index <= Blank.count /\ Blank.type = "SLEEP"
  BY DEF Blank, Actions, AllTypes
<1>3. CoreType
  <2>1. \A f \in Fd : issued[f] \in Seq(Action)
    BY DEF Init
  <2>2. \A a \in Action : act[a] = Blank
    BY DEF Init
  <2> QED BY <1>1, <1>2, <2>1, <2>2 DEF Init, CoreType, IsInjective
<1>4. RestType
  <2>1. MaxData \in Nat
    BY IoBoundsAssumption
  <2>2. revents \in [Action -> SUBSET {"IN", "OUT", "HUP", "ERR", "NVAL"}]
    BY DEF Init
  <2>3. data \in [Fd -> 0..MaxData]
    BY <2>1 DEF Init
  <2> QED BY <2>2, <2>3 DEF Init, RestType
<1>5. ListsInv /\ ThreadInv
  BY <1>1 DEF Init, ListsInv, ThreadInv
<1>6. FdInv
  BY <1>2 DEF Init, FdInv
<1>7. Kept
  BY <1>1 DEF Init, Kept, InUse, InHand
<1>8. Exact
  <2>1. {a \in ToSet(active) \cup ToSet(waiting) : act[a].type = "WRITE"} = {}
    BY <1>1
  <2>2. Cardinality({}) = 0 /\ Leftover \in Nat
    BY FS_EmptySet, IoBoundsAssumption
  <2>3. activeCount = 0 /\ pendingWrites = Leftover
    BY DEF Init
  <2>4. activeCount = Len(active)
    BY <1>1, <2>3
  <2>5. pendingWrites = Leftover + Cardinality({})
    BY <2>2, <2>3
  <2> QED BY <2>1, <2>4, <2>5 DEF Exact
<1> QED BY <1>3, <1>4, <1>5, <1>6, <1>7, <1>8, InvParts DEF Core

LEMMA IoStep ==
  ASSUME ~ Astray', IoIInv, [Next]_vars
  PROVE  IoIInv'
<1>1. CASE IoThread
  BY <1>1, ScanStep, RemoveDoneStep, NotifyStep, DisposeStep, EndPassStep,
     PollStep, CollectStep DEF IoThread
<1>2. CASE Monitor
  BY <1>2, MonitorStep
<1>3. CASE World
  BY <1>3, WorldStep
<1>4. CASE \E t \in Task : \/ BlockWord(t) \/ AsyncWord(t) \/ SleepWord(t)
                           \/ SleepWait(t) \/ DestroyWord(t) \/ NonblockRead(t)
                           \/ OpenWord(t) \/ Exit(t)
  BY <1>4, WordsStep
<1>5. CASE UNCHANGED vars
  <2>1. Core /\ RestType
    BY InvParts
  <2>2. UNCHANGED <<act, lists, thread>> /\ UNCHANGED <<handler, breaks, tasks,
                                                        monitor, world>>
    BY <1>5 DEF vars
  <2>3. Core'
    BY <2>1, <2>2, CoreSame DEF lists, thread
  <2>4. RestType'
    BY <2>1, <2>2 DEF RestType, thread, tasks, world
  <2> QED BY <2>3, <2>4, InvPartsNext
<1> QED BY <1>1, <1>2, <1>3, <1>4, <1>5 DEF Next

\* The task that leads the thread astray leaves lists of actions behind.
LEMMA TornType ==
  ASSUME IoIInv, NEW t \in Task, SleepWait(t) \/ DestroyWord(t), Astray'
  PROVE  TypeOK'
<1>1. Core /\ RestType /\ at # "astray" /\ Nil \notin Action
  BY InvParts, IoTaskAssumption DEF RestType
<1>2. /\ UNCHANGED <<activeCount, pendingWrites, issued, handler, breaks, stage,
                     cursor, next, again, polled, revents, monitor>>
      /\ UNCHANGED world
      /\ user' \in [Task -> {"idle", "sleep", "blocked", "holding", "gone"}]
      /\ handle' \in [Task -> Action \cup {Nil}] /\ awake' \subseteq Task
  BY <1>1 DEF RestType, SleepWait, DestroyWord
<1>3. PICK a \in Action : Destroy(a)
  BY <1>1 DEF RestType, SleepWait, DestroyWord, Astray
<1>4. act[a].isDone
  BY <1>1, <1>3 DEF Destroy, Astray
<1>5. /\ act \in [Action -> Actions]
      /\ \A b \in Action : act[b].index <= act[b].count
      /\ active \in Seq(Action) /\ IsInjective(active)
      /\ waiting \in Seq(Action) /\ IsInjective(waiting)
      /\ done \in Seq(Action) /\ IsInjective(done)
      /\ live \subseteq Action /\ \A f \in Fd : issued[f] \in Seq(Action)
      /\ activeCount \in Nat /\ pendingWrites \in Nat
  BY <1>1, CountsNat DEF Core, CoreType
<1>6. live' = live \ {a} /\ act' = [act EXCEPT ![a] = Blank]
  BY <1>3, <1>4 DEF Destroy, Free
<1>7. Blank \in Actions /\ Blank.index <= Blank.count
  BY DEF Blank, Actions, AllTypes
<1>8. /\ act' \in [Action -> Actions]
      /\ \A b \in Action : act'[b].index <= act'[b].count
  BY <1>5, <1>6, <1>7
<1> DEFINE Linked(list) == a \in ToSet(list) /\ Head(list) # a
           Out(list) == IF Linked(list) THEN Without(list, a) ELSE list
<1>9. ASSUME NEW list \in Seq(Action), IsInjective(list)
      PROVE  Out(list) \in Seq(Action) /\ IsInjective(Out(list))
  BY <1>9, WithoutOne
<1>10. ASSUME NEW list \in Seq(Action), IsInjective(list), First(list) = a
       PROVE  Tail(list) \in Seq(Action) /\ IsInjective(Tail(list))
  <2>1. list # <<>>
    BY <1>1, <1>10 DEF First
  <2> QED BY <1>10, <2>1, Shortened
<1>11. /\ active' = Out(active) /\ waiting' = Out(waiting)
       /\ done' = IF \E l \in {active, waiting, done} : First(l) = a
                  THEN Tail(CHOOSE l \in {active, waiting, done} : First(l) = a)
                  ELSE Out(done)
  BY <1>3, <1>4 DEF Destroy
<1> HIDE DEF Out, Linked
<1>12. /\ active' \in Seq(Action) /\ IsInjective(active')
       /\ waiting' \in Seq(Action) /\ IsInjective(waiting')
  BY <1>5, <1>9, <1>11
<1>13. done' \in Seq(Action) /\ IsInjective(done')
  <2>1. CASE \E l \in {active, waiting, done} : First(l) = a
    <3>1. PICK list \in {active, waiting, done} : First(list) = a /\ done' = Tail(list)
      BY <1>11, <2>1
    <3> QED BY <1>5, <1>10, <3>1
  <2>2. CASE ~ \E l \in {active, waiting, done} : First(l) = a
    BY <1>5, <1>9, <1>11, <2>2
  <2> QED BY <2>1, <2>2
<1> QED BY <1>1, <1>2, <1>5, <1>6, <1>8, <1>12, <1>13 DEF TypeOK, RestType, Astray, world

\* The lists of the IO thread, its local variables and the counts obey their
\* laws (io.c:720-745, 775-1098) in every state that comes before the IO thread
\* is led astray; in those that come after nothing is said but their type.
IoInv == IoIInv \/ (Astray /\ TypeOK)

LEMMA IoInvStep ==
  ASSUME IoInv, [Next]_vars
  PROVE  IoInv'
<1>1. CASE Astray /\ TypeOK
  <2>1. UNCHANGED vars
    BY <1>1 DEF Next
  <2>2. Astray' /\ TypeOK'
    BY <1>1, <2>1
       DEF Astray, TypeOK, vars, lists, thread, tasks, world
  <2> QED BY <2>2 DEF IoInv
<1>2. CASE IoIInv /\ ~ Astray'
  BY <1>2, IoStep DEF IoInv
<1>3. CASE IoIInv /\ Astray'
  <2>0. ~ Astray
    BY <1>3 DEF IoIInv
  <2>1. IoIInv' => ~ Astray'
    BY DEF IoIInv
  <2>2. ~ IoThread
    BY <1>3, <2>1, ScanStep, RemoveDoneStep, NotifyStep, DisposeStep, EndPassStep,
       PollStep, CollectStep DEF IoThread
  <2>3. ~ Monitor /\ ~ World
    BY <1>3, <2>1, MonitorStep, WorldStep
  <2>4. at' # at
    BY <1>3, <2>0 DEF Astray
  <2>5. PICK t \in Task : SleepWait(t) \/ DestroyWord(t)
    BY <2>2, <2>3, <2>4
       DEF Next, BlockWord, AsyncWord, SleepWord, NonblockRead, OpenWord, Exit, Issue,
           vars, thread
  <2> QED BY <1>3, <2>5, TornType DEF IoInv
<1> QED BY <1>1, <1>2, <1>3 DEF IoInv

THEOREM IoInductive == Spec => []IoInv
<1>1. Init => IoInv
  BY IoInit DEF IoInv
<1> QED BY <1>1, IoInvStep, PTL DEF Spec

\* Every variable has its type, no list holds an action twice, and a transfer
\* never passes the end of its buffer (io.c:889, 916).
THEOREM IoTypeCorrect == Spec => []TypeOK
<1>1. IoInv => TypeOK
  BY DEF IoInv, IoIInv
<1> QED BY <1>1, IoInductive, PTL

\* Up to the step in which a task destroys a done action that the IO thread has
\* in hand, the thread never looks at an action that has been freed: neither one
\* that is in a list, nor one it polls for, nor the one whose task it wakes with
\* the mutex given up (io.c:158-175, 1046-1066).
THEOREM IoInUseKept == Spec => []InUseKept
<1>1. IoInv => InUseKept
  BY DEF IoInv, IoIInv, Kept, InUseKept
<1> QED BY <1>1, IoInductive, PTL

\* Up to that step active_action_count is the length of the active list, and
\* pending_write_count, less what af_io_init left in it, the number of writes in
\* the lists that are served (io.c:725-742, 1002-1042).
THEOREM IoCountsCorrect == Spec => []CountsExact
<1>1. IoInv => CountsExact
  BY DEF IoInv, IoIInv, Exact, CountsExact
<1> QED BY <1>1, IoInductive, PTL

-----------------------------------------------------------------------------
(* Who is woken for what.                                                  *)

\* the actions that somebody has yet to be woken for
Unserved ==
  ToSet(active) \cup ToSet(waiting) \cup (IF at = "notify" THEN {cursor} ELSE {})

\* a handle is an action of its own, which nobody else frees, and the action
\* that a task waits for is to wake it
HandlesInv ==
  /\ \A t \in Task : handle[t] # Nil =>
       /\ handle[t] \in live /\ ~ act[handle[t]].doomed
       /\ user[t] \in {"sleep", "blocked", "holding"}
       /\ user[t] # "holding" => act[handle[t]].task = t
  /\ \A t, u \in Task : handle[t] # Nil /\ handle[t] = handle[u] => t = u
  /\ \A t \in Task : user[t] = "sleep" => handle[t] # Nil

\* whoever an action is to wake sleeps for it, or is on its way to
Awaits(a, t) ==
  \/ user[t] = "sleep" /\ handle[t] = a
  \/ user[t] = "blocked" /\ t \notin awake /\ handle[t] \in {a, Nil}

SleepersInv ==
  /\ \A a \in Unserved, t \in Task : act[a].task = t => Awaits(a, t)
  /\ \A a, b \in Unserved : act[a].task = act[b].task /\ act[a].task # Nil => a = b

Resumes ==
  \A t \in awake : user[t] = "blocked" /\ handle[t] # Nil => act[handle[t]].isDone

WakeInv == HandlesInv /\ SleepersInv /\ Resumes

LEMMA UnservedType ==
  ASSUME IoIInv
  PROVE  /\ Unserved \subseteq live /\ Unserved \subseteq Action
         /\ \A a \in Unserved : act[a].task \in Task \cup {Nil}
<1>1. Core /\ RestType
  BY InvParts
<1>2. ToSet(active) \cup ToSet(waiting) \subseteq InUse
  BY DEF InUse, InHand
<1>3. at = "notify" => cursor \in Action /\ cursor \in InUse
  BY <1>1, IoTaskAssumption DEF Core, ThreadInv, InUse, InHand
<1>4. Unserved \subseteq live /\ live \subseteq Action
  BY <1>1, <1>2, <1>3 DEF Unserved, Core, CoreType, Kept
<1>5. \A a \in Action : act[a].task \in Task \cup {Nil}
  BY <1>1 DEF Core, CoreType, Actions
<1> QED BY <1>4, <1>5

\* Nobody moves, and what is freed was to be destroyed.
LEMMA WakeSame ==
  ASSUME IoIInv, WakeInv, UNCHANGED <<user, handle, awake>>,
         Unserved' \subseteq Unserved,
         \A a \in Unserved' : act'[a].task \in {act[a].task, Nil},
         \A a \in live : ~ act[a].doomed =>
           /\ a \in live' /\ ~ act'[a].doomed /\ act'[a].task = act[a].task
           /\ act[a].isDone /\ a \notin Unserved => act'[a].isDone
  PROVE  WakeInv'
<1>1. HandlesInv'
  BY DEF WakeInv, HandlesInv
<1>2. SleepersInv'
  BY IoTaskAssumption DEF WakeInv, SleepersInv, Awaits
<1>3. Resumes'
  <2>1. awake \subseteq Task
    BY InvParts DEF RestType
  <2>2. ASSUME NEW t \in awake, user[t] = "blocked", handle[t] # Nil
        PROVE  /\ handle[t] \in live \ Unserved /\ ~ act[handle[t]].doomed
               /\ act[handle[t]].isDone
    BY <2>1, <2>2, IoTaskAssumption
       DEF WakeInv, HandlesInv, SleepersInv, Awaits, Resumes
  <2> QED BY <2>2 DEF Resumes
<1> QED BY <1>1, <1>2, <1>3 DEF WakeInv

\* Active actions get on, and neither their tasks nor the memory change.
LEMMA WakeMarked ==
  ASSUME IoIInv, WakeInv, UNCHANGED <<user, handle, awake, live>>,
         Unserved' \subseteq Unserved,
         \A a \in Action : /\ act'[a].task = act[a].task
                           /\ act'[a].doomed = act[a].doomed
                           /\ a \notin ToSet(active) => act'[a].isDone = act[a].isDone
  PROVE  WakeInv'
<1>1. Unserved \subseteq Action /\ live \subseteq Action
  BY UnservedType, InvParts DEF Core, CoreType
<1>2. ToSet(active) \subseteq Unserved
  BY DEF Unserved
<1> QED BY <1>1, <1>2, WakeSame

LEMMA ScanWake ==
  ASSUME IoIInv, WakeInv, Scan
  PROVE  WakeInv'
<1>1. act \in [Action -> Actions]
  BY InvParts DEF Core, CoreType
<1> DEFINE finished == {a \in ToSet(active) :
                          \/ act[a].type \in Instant
                          \/ act[a].type \in Transfers /\ act[a].count = 0
                          \/ Expired(a)}
           Wrong(a) == /\ act[a].type \in {"SEEK", "TELL"}
                       /\ ~ open[act[a].fd]
           Closes(f) ==
             \E a \in ToSet(active) : act[a].fd = f /\ act[a].type = "CLOSE"
<1>2. /\ act' = [a \in Action |->
                   IF a \notin finished THEN act[a]
                   ELSE [act[a] EXCEPT !.isDone = TRUE, !.hasError = Wrong(a)]]
      /\ open' = [f \in Fd |-> open[f] /\ ~ Closes(f)]
      /\ again' = (finished # {})
  BY DEF Scan
<1>3. finished \subseteq ToSet(active) /\ \A a \in Action : Wrong(a) \in BOOLEAN
  OBVIOUS
<1> HIDE DEF finished, Wrong, Closes
<1>4. \A a \in Action : /\ act'[a].task = act[a].task
                        /\ act'[a].doomed = act[a].doomed
                        /\ a \notin ToSet(active) => act'[a].isDone = act[a].isDone
  <2>1. ASSUME NEW a \in Action
        PROVE  LET r == [act[a] EXCEPT !.isDone = TRUE, !.hasError = Wrong(a)]
               IN  r.task = act[a].task /\ r.doomed = act[a].doomed
    <3>1. act[a] \in Actions /\ Wrong(a) \in BOOLEAN
      BY <1>1, <1>3
    <3> QED BY <3>1 DEF Actions
  <2> QED BY <1>2, <1>3, <2>1
<1>5. UNCHANGED <<lists, tasks>> /\ at' = "remove"
  BY DEF Scan
<1>6. UNCHANGED <<user, handle, awake, live>> /\ Unserved' \subseteq Unserved
  BY <1>5 DEF lists, tasks, Unserved
<1> QED BY <1>4, <1>6, WakeMarked

LEMMA AnsweredKept ==
  ASSUME act \in [Action -> Actions], NEW a \in Action, NEW room, NEW failing
  PROVE  LET r == Answered(a, room, failing)
         IN  r.task = act[a].task /\ r.doomed = act[a].doomed
<1> DEFINE r == act[a]
           H == r.hasHangup \/ "HUP" \in revents[a]
           E == r.hasError \/ "ERR" \in revents[a]
           D == r.isDone \/ "ERR" \in revents[a]
           hung == [r EXCEPT !.hasHangup = H, !.hasError = E, !.isDone = D]
           left == r.count - r.index
           here == data[r.fd]
           result == Answered(a, room, failing)
<1>1. r \in Actions
  OBVIOUS
<1>2. H \in BOOLEAN /\ E \in BOOLEAN /\ D \in BOOLEAN
  BY <1>1 DEF Actions
<1>3. result \in {hung, Ended(hung), [Ended(hung) EXCEPT !.hasError = TRUE],
                  Moved(hung, Step(room, left)), Moved(hung, Step(here, left))}
  BY DEF Answered
<1> HIDE DEF H, E, D, result, left, here
<1>4. /\ hung \in Actions /\ hung.task = r.task /\ hung.doomed = r.doomed
  BY <1>1, <1>2, ZenonT(60) DEF Actions
<1> HIDE DEF hung, r
<1>5. /\ Ended(hung).task = r.task /\ Ended(hung).doomed = r.doomed
      /\ LET failed == [Ended(hung) EXCEPT !.hasError = TRUE]
         IN  failed.task = r.task /\ failed.doomed = r.doomed
  BY <1>4 DEF Ended, Actions
<1>6. ASSUME NEW n
      PROVE  Moved(hung, n).task = r.task /\ Moved(hung, n).doomed = r.doomed
  <2> DEFINE over == hung.index + n >= hung.count
             where == hung.index + n
  <2>1. Moved(hung, n) = [hung EXCEPT !.index = where, !.isDone = over]
    BY DEF Moved
  <2> HIDE DEF over, where
  <2> QED BY <1>4, <2>1 DEF Actions
<1>7. result.task = r.task /\ result.doomed = r.doomed
  BY <1>3, <1>4, <1>5, <1>6
<1> QED BY <1>7 DEF r, result

LEMMA CollectWake ==
  ASSUME IoIInv, WakeInv, Collect
  PROVE  WakeInv'
<1>1. act \in [Action -> Actions] /\ at = "collect" /\ at' = "remove"
      /\ polled \subseteq ToSet(active)
  BY InvParts DEF Core, CoreType, ThreadInv, Collect
<1>2. PICK room \in -1..2, failing \in SUBSET polled :
        act' = [a \in Action |->
                  IF a \in polled THEN Answered(a, room, failing)
                  ELSE IF a \in ToSet(active) /\ Expired(a)
                       THEN [act[a] EXCEPT !.isDone = TRUE] ELSE act[a]]
  BY DEF Collect
<1>3. ASSUME NEW a \in Action
      PROVE  /\ act'[a].task = act[a].task /\ act'[a].doomed = act[a].doomed
             /\ a \notin ToSet(active) => act'[a].isDone = act[a].isDone
  <2>1. LET r == [act[a] EXCEPT !.isDone = TRUE]
        IN  r.task = act[a].task /\ r.doomed = act[a].doomed
    BY <1>1 DEF Actions
  <2>2. LET r == Answered(a, room, failing)
        IN  r.task = act[a].task /\ r.doomed = act[a].doomed
    BY <1>1, AnsweredKept
  <2> QED BY <1>1, <1>2, <2>1, <2>2
<1>4. UNCHANGED <<user, handle, awake, live>> /\ Unserved' \subseteq Unserved
  BY <1>1 DEF Collect, lists, tasks, Unserved
<1> QED BY <1>3, <1>4, WakeMarked

LEMMA QuietWake ==
  ASSUME IoIInv, WakeInv, EndPass \/ PollReturns \/ Monitor \/ World
  PROVE  WakeInv'
<1>1. UNCHANGED <<user, handle, awake, live>> /\ Unserved' \subseteq Unserved
  BY DEF EndPass, PollReturns, Monitor, StartMonitor, TestWrites, MonitorWait, World,
         Arrive, HangUp, TimePasses, lists, tasks, thread, Unserved
<1>2. act \in [Action -> Actions]
  BY InvParts DEF Core, CoreType
<1>3. \/ act' = act
      \/ \E a \in Action : act' = [act EXCEPT ![a].due = TRUE]
  BY DEF EndPass, PollReturns, Monitor, StartMonitor, TestWrites, MonitorWait, World,
         Arrive, HangUp, TimePasses
<1>4. ASSUME NEW b \in Action
      PROVE  /\ act'[b].task = act[b].task /\ act'[b].doomed = act[b].doomed
             /\ act'[b].isDone = act[b].isDone
  <2>1. LET r == [act[b] EXCEPT !.due = TRUE]
        IN  /\ r.task = act[b].task /\ r.doomed = act[b].doomed
            /\ r.isDone = act[b].isDone
    BY <1>2 DEF Actions
  <2> QED BY <1>2, <1>3, <2>1
<1> QED BY <1>1, <1>4, WakeMarked

LEMMA RemoveDoneWake ==
  ASSUME IoIInv, WakeInv, RemoveDone
  PROVE  WakeInv'
<1>1. /\ at = "remove" /\ UNCHANGED <<user, handle, awake>>
      /\ \/ \E a \in ToSet(active) : act[a].isDone /\ TakeOut(a)
         \/ cursor' = Nil /\ UNCHANGED <<act, lists, at, next>>
  BY RemoveDoneCases DEF RemoveDone, tasks
<1>2. CASE cursor' = Nil /\ UNCHANGED <<act, lists, at, next>>
  <2>1. UNCHANGED live /\ Unserved' = Unserved
    BY <1>1, <1>2 DEF lists, Unserved
  <2> QED BY <1>1, <1>2, <2>1, WakeMarked
<1>3. ASSUME NEW a \in ToSet(active), TakeOut(a)
      PROVE  WakeInv'
  <2>1. CoreType /\ ListsInv /\ Exact /\ a \in Action
    BY InvParts, ToSetType DEF Core, CoreType
  <2>2. ToSet(active') \cup ToSet(waiting') = (ToSet(active) \cup ToSet(waiting)) \ {a}
    BY <1>3, <2>1, TakeOutLists
  <2>3. /\ at' = "notify" => cursor' = a
        /\ \/ act[a].doomed /\ Free(a)
           \/ UNCHANGED <<live, act>>
    BY <1>1, <1>3 DEF TakeOut
  <2>4. Unserved' \subseteq Unserved
    BY <1>1, <2>2, <2>3 DEF Unserved
  <2>5. \A b \in Action : \/ act'[b] = act[b] /\ (b \in live => b \in live')
                          \/ b = a /\ act[b].doomed /\ act'[b].task = Nil
    <3>1. CASE act[a].doomed /\ Free(a)
      <4>1. act' = [act EXCEPT ![a] = Blank] /\ live' = live \ {a}
        BY <3>1 DEF Free
      <4>2. Blank.task = Nil
        BY DEF Blank
      <4> QED BY <2>1, <3>1, <4>1, <4>2 DEF CoreType
    <3> QED BY <2>3, <3>1
  <2>6. Unserved \subseteq Action /\ live \subseteq Action
    BY <2>1, UnservedType DEF CoreType
  <2> QED BY <1>1, <2>4, <2>5, <2>6, WakeSame
<1> QED BY <1>1, <1>2, <1>3

LEMMA DisposeWake ==
  ASSUME IoIInv, WakeInv, Dispose
  PROVE  WakeInv'
<1>1. /\ UNCHANGED <<user, handle, awake, active, waiting>> /\ at' = "remove"
      /\ \/ act[cursor].doomed /\ Free(cursor)
         \/ UNCHANGED <<live, act>>
  BY DEF Dispose, tasks
<1>2. cursor \in Action /\ act \in [Action -> Actions] /\ live \subseteq Action
  BY InvParts DEF Core, CoreType, ThreadInv, Dispose
<1>3. Unserved' \subseteq Unserved /\ Unserved \subseteq Action
  BY <1>1, UnservedType DEF Unserved
<1>4. \A b \in Action : \/ act'[b] = act[b] /\ (b \in live => b \in live')
                        \/ act[b].doomed /\ act'[b].task = Nil
  <2>1. CASE act[cursor].doomed /\ Free(cursor)
    <3>1. act' = [act EXCEPT ![cursor] = Blank] /\ live' = live \ {cursor}
      BY <2>1 DEF Free
    <3>2. Blank.task = Nil
      BY DEF Blank
    <3> QED BY <1>2, <2>1, <3>1, <3>2
  <2> QED BY <1>1, <2>1
<1> QED BY <1>1, <1>2, <1>3, <1>4, WakeSame

\* Whoever is woken waited for the action that is done, and for no other.
LEMMA NotifyWake ==
  ASSUME IoIInv, WakeInv, Notify
  PROVE  WakeInv'
<1>1. /\ UNCHANGED <<act, live, active, waiting, user, handle, cursor>>
      /\ at = "notify" /\ at' = "dispose" /\ NoneInWord
      /\ awake' = awake \cup {t \in Task : t = act[cursor].task /\ user[t] # "gone"}
  BY DEF Notify, lists
<1>2. /\ cursor \in Action \ (ToSet(active) \cup ToSet(waiting))
      /\ act[cursor].isDone /\ awake \subseteq Task
  BY <1>1, InvParts DEF Core, ThreadInv, RestType
<1>3. cursor \in Unserved /\ Unserved' = Unserved \ {cursor}
  BY <1>1, <1>2 DEF Unserved
<1>4. HandlesInv'
  BY <1>1 DEF WakeInv, HandlesInv
<1>5. SleepersInv'
  <2>1. ASSUME NEW a \in Unserved', NEW t \in Task, act[a].task = t
        PROVE  Awaits(a, t)'
    <3>1. Awaits(a, t) /\ t # act[cursor].task
      BY <1>3, <2>1, IoTaskAssumption DEF WakeInv, SleepersInv
    <3> QED BY <1>1, <3>1 DEF Awaits
  <2> QED BY <1>1, <1>3, <2>1 DEF WakeInv, SleepersInv
<1>6. Resumes'
  <2>1. ASSUME NEW t \in Task, t = act[cursor].task, user[t] = "blocked",
               handle[t] # Nil
        PROVE  act[handle[t]].isDone
    <3>1. Awaits(cursor, t)
      BY <1>3, <2>1, IoTaskAssumption DEF WakeInv, SleepersInv
    <3> QED BY <1>2, <2>1, <3>1 DEF Awaits
  <2> QED BY <1>1, <1>2, <2>1 DEF WakeInv, Resumes
<1> QED BY <1>4, <1>5, <1>6 DEF WakeInv

-----------------------------------------------------------------------------
(* The same for the words.                                                 *)

\* A task that has just issued an action is on its way to sleep for it, or
\* nobody is to be woken.
LEMMA IssueWake ==
  ASSUME IoIInv, WakeInv, NEW t \in Task, user[t] = "idle",
         NEW a \in Action \ live, NEW record, Add(a, record), ~ record.doomed,
         UNCHANGED thread, handle' = [handle EXCEPT ![t] = a],
         \/ /\ user' = [user EXCEPT ![t] = "blocked"] /\ awake' = awake \ {t}
            /\ record.task = t
         \/ /\ user' = [user EXCEPT ![t] = "holding"] /\ awake' = awake
            /\ record.task = Nil
         \/ /\ user' = [user EXCEPT ![t] = "sleep"] /\ awake' = awake
            /\ record.task = t
  PROVE  WakeInv'
<1>1. Core /\ RestType
  BY InvParts
<1>2. /\ act \in [Action -> Actions] /\ live \subseteq Action
      /\ handle \in [Task -> Action \cup {Nil}] /\ awake \subseteq Task
      /\ user \in [Task -> {"idle", "sleep", "blocked", "holding", "gone"}]
      /\ a # Nil /\ t # Nil
  BY <1>1, IoTaskAssumption DEF Core, CoreType, RestType
<1>3. act' = [act EXCEPT ![a] = record] /\ live' = live \cup {a}
  BY DEF Add
<1>4. /\ act'[a] = record
      /\ \A b \in Action : b # a => act'[b] = act[b]
  BY <1>2, <1>3
<1>5. /\ handle'[t] = a /\ user'[t] \in {"blocked", "holding", "sleep"}
      /\ record.task = (IF user'[t] = "holding" THEN Nil ELSE t)
      /\ user'[t] = "blocked" => t \notin awake'
      /\ \A u \in Task \ {t} : /\ handle'[u] = handle[u] /\ user'[u] = user[u]
                               /\ u \in awake' <=> u \in awake
      /\ awake' \subseteq Task
  BY <1>2
<1>6. /\ Unserved' \subseteq Unserved \cup {a} /\ Unserved \subseteq live
      /\ \A b \in Unserved : act[b].task \in Task \cup {Nil} /\ act[b].task # t
  <2>1. /\ Unserved \subseteq live
        /\ \A b \in Unserved : act[b].task \in Task \cup {Nil}
    BY UnservedType
  <2>2. \A b \in Unserved : act[b].task # t
    BY <1>2 DEF WakeInv, SleepersInv, Awaits
  <2>3. ToSet(active') \cup ToSet(waiting') \subseteq
          ToSet(active) \cup ToSet(waiting) \cup {a}
    BY AddLists
  <2>4. UNCHANGED <<at, cursor>>
    BY DEF thread
  <2> QED BY <2>1, <2>2, <2>3, <2>4 DEF Unserved
<1>7. \A u \in Task : handle[u] # Nil =>
        /\ handle[u] \in live /\ handle[u] \in Action /\ handle[u] # a
        /\ ~ act[handle[u]].doomed
  BY <1>2 DEF WakeInv, HandlesInv
<1>8. HandlesInv'
  <2>1. ASSUME NEW u \in Task, handle'[u] # Nil
        PROVE  /\ handle'[u] \in live' /\ ~ act'[handle'[u]].doomed
               /\ user'[u] \in {"sleep", "blocked", "holding"}
               /\ user'[u] # "holding" => act'[handle'[u]].task = u
    <3>1. CASE u = t
      BY <1>3, <1>4, <1>5, <3>1
    <3>2. CASE u # t
      BY <1>3, <1>4, <1>5, <1>7, <2>1, <3>2 DEF WakeInv, HandlesInv
    <3> QED BY <3>1, <3>2
  <2>2. ASSUME NEW u \in Task, NEW v \in Task, handle'[u] # Nil,
               handle'[u] = handle'[v]
        PROVE  u = v
    BY <1>5, <1>7, <2>2 DEF WakeInv, HandlesInv
  <2>3. ASSUME NEW u \in Task, user'[u] = "sleep"
        PROVE  handle'[u] # Nil
    BY <1>2, <1>5, <2>3 DEF WakeInv, HandlesInv
  <2> QED BY <2>1, <2>2, <2>3 DEF HandlesInv
<1>9. SleepersInv'
  <2>1. ASSUME NEW b \in Unserved', NEW u \in Task, act'[b].task = u
        PROVE  Awaits(b, u)' /\ (u = t <=> b = a)
    <3>1. CASE b = a
      <4>1. u # Nil
        BY IoTaskAssumption
      <4>2. u = t /\ user'[t] # "holding"
        BY <1>4, <1>5, <2>1, <3>1, <4>1
      <4> QED BY <1>5, <3>1, <4>2 DEF Awaits
    <3>2. CASE b # a
      <4>1. b \in Unserved /\ act[b].task = u /\ u # t
        BY <1>2, <1>4, <1>6, <2>1, <3>2
      <4>2. Awaits(b, u)
        BY <2>1, <4>1 DEF WakeInv, SleepersInv
      <4> QED BY <1>5, <3>2, <4>1, <4>2 DEF Awaits
    <3> QED BY <3>1, <3>2
  <2>2. ASSUME NEW b \in Unserved', NEW c \in Unserved',
               act'[b].task = act'[c].task, act'[b].task # Nil
        PROVE  b = c
    <3>0. act'[b].task \in Task
      <4>1. \A d \in Unserved' : act'[d].task \in Task \cup {Nil}
        BY <1>2, <1>4, <1>5, <1>6
      <4> QED BY <2>2, <4>1
    <3>1. CASE b = a \/ c = a
      BY <2>1, <2>2, <3>0, <3>1
    <3>2. CASE b # a /\ c # a
      <4>1. b \in Unserved /\ c \in Unserved /\ act'[b] = act[b] /\ act'[c] = act[c]
        BY <1>2, <1>4, <1>6, <3>2
      <4> QED BY <2>2, <4>1 DEF WakeInv, SleepersInv
    <3> QED BY <3>1, <3>2
  <2> QED BY <2>1, <2>2 DEF SleepersInv
<1>10. Resumes'
  <2>1. ASSUME NEW u \in awake', user'[u] = "blocked", handle'[u] # Nil
        PROVE  act'[handle'[u]].isDone
    <3>1. u \in awake /\ u \in Task \ {t}
      BY <1>5, <2>1
    <3> QED BY <1>4, <1>5, <1>7, <2>1, <3>1 DEF WakeInv, Resumes
  <2> QED BY <2>1 DEF Resumes
<1> QED BY <1>8, <1>9, <1>10 DEF WakeInv

\* A task that lets go of its action has been woken for it, or goes to sleep
\* without a handle.
LEMMA LetGoWake ==
  ASSUME ~ Astray', IoIInv, WakeInv, NEW t \in Task, UNCHANGED cursor,
         handle' = [handle EXCEPT ![t] = Nil],
         IF handle[t] = Nil THEN UNCHANGED <<act, live, active, waiting, done, at>>
         ELSE Destroy(handle[t]),
         \/ /\ user' = [user EXCEPT ![t] = "blocked"] /\ awake' = awake \ {t}
         \/ /\ user' = [user EXCEPT ![t] = "idle"] /\ awake' = awake
            /\ t \in awake /\ user[t] \in {"holding", "blocked"}
  PROVE  WakeInv'
<1>1. Core /\ RestType
  BY InvParts
<1>2. /\ act \in [Action -> Actions] /\ live \subseteq Action
      /\ handle \in [Task -> Action \cup {Nil}] /\ awake \subseteq Task
      /\ user \in [Task -> {"idle", "sleep", "blocked", "holding", "gone"}]
      /\ t # Nil /\ Nil \notin Action
  BY <1>1, IoTaskAssumption DEF Core, CoreType, RestType
<1>3. /\ handle'[t] = Nil /\ user'[t] \in {"blocked", "idle"}
      /\ user'[t] = "blocked" => t \notin awake'
      /\ user'[t] = "idle" => t \in awake /\ user[t] \in {"holding", "blocked"}
      /\ \A u \in Task \ {t} : /\ handle'[u] = handle[u] /\ user'[u] = user[u]
                               /\ u \in awake' <=> u \in awake
      /\ awake' \subseteq Task
  BY <1>2
<1>4. /\ active' = active /\ waiting' = waiting /\ at' = at
      /\ \A b \in Action : b # handle[t] => /\ act'[b] = act[b]
                                            /\ b \in live => b \in live'
      /\ \A b \in Unserved : act'[b].task = act[b].task
  <2>1. CASE handle[t] = Nil
    BY <2>1
  <2>2. CASE handle[t] # Nil
    <3>1. handle[t] \in Action /\ Destroy(handle[t])
      BY <1>2, <2>2
    <3>2. /\ active' = active /\ waiting' = waiting /\ at' = at
          /\ \/ /\ act' = [act EXCEPT ![handle[t]].doomed = TRUE] /\ live' = live
             \/ /\ act' = [act EXCEPT ![handle[t]] = Blank]
                /\ live' = live \ {handle[t]} /\ handle[t] \notin Unserved
      <4>1. handle[t] \notin InHand => handle[t] \notin Unserved
        BY <1>2, <3>1 DEF InHand, Unserved
      <4> QED BY <3>1, <4>1, DestroyLists
    <3>3. \A b \in Action : b # handle[t] => /\ act'[b] = act[b]
                                             /\ b \in live => b \in live'
      BY <1>2, <3>2
    <3>4. \/ act'[handle[t]].task = act[handle[t]].task
          \/ handle[t] \notin Unserved
      <4>1. LET r == [act[handle[t]] EXCEPT !.doomed = TRUE]
            IN  r.task = act[handle[t]].task
        BY <1>2, <3>1 DEF Actions
      <4> QED BY <1>2, <3>1, <3>2, <4>1
    <3>5. Unserved \subseteq Action
      BY UnservedType
    <3> QED BY <3>2, <3>3, <3>4, <3>5
  <2> QED BY <2>1, <2>2
<1>5. Unserved' = Unserved /\ Unserved \subseteq Action
      /\ \A b \in Unserved : act[b].task \in Task \cup {Nil}
  BY <1>4, UnservedType DEF Unserved
<1>6. \A u \in Task \ {t} : handle[u] # Nil =>
        /\ handle[u] \in live /\ handle[u] \in Action /\ handle[u] # handle[t]
        /\ ~ act[handle[u]].doomed
  BY <1>2 DEF WakeInv, HandlesInv
<1>7. HandlesInv'
  <2>1. ASSUME NEW u \in Task, handle'[u] # Nil
        PROVE  /\ u # t
               /\ handle'[u] \in live' /\ ~ act'[handle'[u]].doomed
               /\ user'[u] \in {"sleep", "blocked", "holding"}
               /\ user'[u] # "holding" => act'[handle'[u]].task = u
    BY <1>3, <1>4, <1>6, <2>1 DEF WakeInv, HandlesInv
  <2>2. ASSUME NEW u \in Task, NEW v \in Task, handle'[u] # Nil,
               handle'[u] = handle'[v]
        PROVE  u = v
    BY <1>3, <2>1, <2>2 DEF WakeInv, HandlesInv
  <2>3. ASSUME NEW u \in Task, user'[u] = "sleep"
        PROVE  handle'[u] # Nil
    BY <1>3, <2>3 DEF WakeInv, HandlesInv
  <2> QED BY <2>1, <2>2, <2>3 DEF HandlesInv
<1>8. SleepersInv'
  <2>1. ASSUME NEW b \in Unserved, NEW u \in Task, act[b].task = u
        PROVE  Awaits(b, u)'
    <3>1. Awaits(b, u)
      BY <2>1 DEF WakeInv, SleepersInv
    <3>2. CASE u = t
      <4>1. user'[t] = "blocked"
        BY <1>3, <3>1, <3>2 DEF Awaits
      <4> QED BY <1>3, <3>2, <4>1 DEF Awaits
    <3>3. CASE u # t
      BY <1>3, <3>1, <3>3 DEF Awaits
    <3> QED BY <3>2, <3>3
  <2> QED BY <1>4, <1>5, <2>1 DEF WakeInv, SleepersInv
<1>9. Resumes'
  <2>1. ASSUME NEW u \in awake', user'[u] = "blocked", handle'[u] # Nil
        PROVE  act'[handle'[u]].isDone
    <3>1. u \in awake /\ u \in Task \ {t}
      BY <1>3, <2>1
    <3> QED BY <1>3, <1>4, <1>6, <2>1, <3>1 DEF WakeInv, Resumes
  <2> QED BY <2>1 DEF Resumes
<1> QED BY <1>7, <1>8, <1>9 DEF WakeInv

LEMMA WordsWake ==
  ASSUME ~ Astray', IoIInv, WakeInv, NEW t \in Task,
         \/ BlockWord(t) \/ AsyncWord(t) \/ SleepWord(t) \/ SleepWait(t)
         \/ DestroyWord(t) \/ NonblockRead(t) \/ OpenWord(t) \/ Exit(t)
  PROVE  WakeInv'
<1>1. CASE BlockWord(t) \/ AsyncWord(t)
  <2>1. PICK waker \in Task \cup {Nil} :
          /\ Issue(t, waker)
          /\ \/ /\ user' = [user EXCEPT ![t] = "blocked"] /\ awake' = awake \ {t}
                /\ waker = t
             \/ /\ user' = [user EXCEPT ![t] = "holding"] /\ awake' = awake
                /\ waker = Nil
    BY <1>1 DEF BlockWord, AsyncWord
  <2>2. user[t] = "idle" /\ UNCHANGED thread
    BY <2>1 DEF Issue
  <2>3. PICK a \in Action \ live, f \in Fd :
          \E record \in InstantRecords(f, waker) \cup TransferRecords(f, waker) :
            Add(a, record) /\ handle' = [handle EXCEPT ![t] = a]
    BY <2>1 DEF Issue
  <2>4. PICK record \in InstantRecords(f, waker) \cup TransferRecords(f, waker) :
          Add(a, record) /\ handle' = [handle EXCEPT ![t] = a]
    BY <2>3
  <2>5. record.task = waker /\ ~ record.doomed
    <3>1. CASE record \in InstantRecords(f, waker)
      BY <3>1 DEF InstantRecords, Blank
    <3>2. CASE record \in TransferRecords(f, waker)
      <4>1. PICK type \in Types \cap Transfers, count \in Counts :
              record = TransferRecord(type, f, waker, count)
        BY <3>2 DEF TransferRecords
      <4> DEFINE none == count = 0
      <4>2. record = [Blank EXCEPT !.type = type, !.fd = f, !.task = waker,
                                   !.count = count, !.isDone = none]
        BY <4>1 DEF TransferRecord
      <4> HIDE DEF none
      <4> QED BY <4>2 DEF Blank
    <3> QED BY <3>1, <3>2
  <2> QED BY <2>1, <2>2, <2>4, <2>5, IssueWake
<1>2. CASE SleepWord(t)
  <2>1. PICK a \in Action \ live : /\ Add(a, [Blank EXCEPT !.task = t])
                                   /\ handle' = [handle EXCEPT ![t] = a]
    BY <1>2 DEF SleepWord
  <2>2. /\ user[t] = "idle" /\ UNCHANGED <<thread, awake>>
        /\ user' = [user EXCEPT ![t] = "sleep"]
    BY <1>2 DEF SleepWord
  <2>3. LET record == [Blank EXCEPT !.task = t]
        IN  record.task = t /\ ~ record.doomed
    BY DEF Blank
  <2> QED BY <2>1, <2>2, <2>3, IssueWake
<1>3. CASE SleepWait(t)
  <2>1. handle[t] # Nil
    BY <1>3 DEF SleepWait, WakeInv, HandlesInv
  <2> QED BY <1>3, <2>1, LetGoWake DEF SleepWait
<1>4. CASE DestroyWord(t)
  BY <1>4, LetGoWake DEF DestroyWord
<1>5. CASE NonblockRead(t) \/ OpenWord(t)
  <2>1. UNCHANGED <<act, lists, thread, tasks>>
    BY <1>5 DEF NonblockRead, OpenWord
  <2>2. Unserved' = Unserved /\ UNCHANGED <<live, act, user, handle, awake>>
    BY <2>1 DEF Unserved, lists, thread, tasks
  <2> QED BY <2>2, WakeMarked
<1>6. CASE Exit(t)
  <2>1. /\ UNCHANGED <<act, live, handle>> /\ Unserved' = Unserved
        /\ user[t] = "idle" /\ user' = [user EXCEPT ![t] = "gone"]
        /\ awake' = awake \ {t}
    BY <1>6 DEF Exit, lists, thread, Unserved
  <2>2. user \in [Task -> {"idle", "sleep", "blocked", "holding", "gone"}]
        /\ awake \subseteq Task
    BY InvParts DEF RestType
  <2>3. HandlesInv'
    BY <2>1, <2>2 DEF WakeInv, HandlesInv
  <2>4. SleepersInv'
    BY <2>1, <2>2 DEF WakeInv, SleepersInv, Awaits
  <2>5. Resumes'
    BY <2>1, <2>2 DEF WakeInv, Resumes
  <2> QED BY <2>3, <2>4, <2>5 DEF WakeInv
<1> QED BY <1>1, <1>2, <1>3, <1>4, <1>5, <1>6

LEMMA WakeInit ==
  Init => WakeInv
<1> SUFFICES ASSUME Init PROVE WakeInv
  OBVIOUS
<1>1. Unserved = {}
  BY DEF Init, Unserved, ToSet
<1>2. HandlesInv /\ Resumes
  BY DEF Init, HandlesInv, Resumes
<1>3. SleepersInv
  BY <1>1 DEF SleepersInv
<1> QED BY <1>2, <1>3 DEF WakeInv

LEMMA WakeStep ==
  ASSUME ~ Astray', IoIInv, WakeInv, [Next]_vars
  PROVE  WakeInv'
<1>1. CASE IoThread \/ Monitor \/ World
  BY <1>1, ScanWake, RemoveDoneWake, NotifyWake, DisposeWake, CollectWake, QuietWake
     DEF IoThread
<1>2. CASE \E t \in Task : \/ BlockWord(t) \/ AsyncWord(t) \/ SleepWord(t)
                           \/ SleepWait(t) \/ DestroyWord(t) \/ NonblockRead(t)
                           \/ OpenWord(t) \/ Exit(t)
  BY <1>2, WordsWake
<1>3. CASE UNCHANGED vars
  <2>1. UNCHANGED <<act, lists, thread, tasks>>
    BY <1>3 DEF vars
  <2>2. Unserved' = Unserved /\ UNCHANGED <<live, act, user, handle, awake>>
    BY <2>1 DEF Unserved, lists, thread, tasks
  <2> QED BY <2>2, WakeMarked
<1> QED BY <1>1, <1>2, <1>3 DEF Next

\* Up to the step that leads the IO thread astray, a task that blocked on an
\* action and runs again finds it done: of all that af_wake is called for it is
\* this action, since the task can have no other outstanding that is to wake it
\* (io.c:1046-1049, prim.c:4622-4990).
THEOREM IoResumesCorrect == Spec => []ResumesWhenDone
<1>1. Spec => [](IoInv /\ (Astray \/ WakeInv))
  <2>1. Init => IoInv /\ (Astray \/ WakeInv)
    BY IoInit, WakeInit DEF IoInv
  <2>2. ASSUME IoInv /\ (Astray \/ WakeInv), [Next]_vars
        PROVE  IoInv' /\ (Astray' \/ WakeInv')
    <3>1. IoInv'
      BY <2>2, IoInvStep
    <3>2. CASE Astray
      BY <2>2, <3>1, <3>2 DEF Next, Astray, vars, thread
    <3>3. CASE ~ Astray
      BY <2>2, <3>1, <3>3, WakeStep DEF IoInv
    <3> QED BY <3>2, <3>3
  <2> QED BY <2>1, <2>2, PTL DEF Spec
<1>2. Astray \/ WakeInv => ResumesWhenDone
  BY DEF WakeInv, Resumes, ResumesWhenDone
<1> QED BY <1>1, <1>2, PTL

-----------------------------------------------------------------------------
(* The order of service.                                                   *)

\* only a SLEEP, which never waits for its turn, lies on Stdin
Serves == \A f \in Fd : InOrder(f)

OrderInv ==
  /\ issued \in [Fd -> Seq(Action)] /\ \A f \in Fd : IsInjective(issued[f])
  /\ \A a \in ToSet(waiting) : act[a].type # "SLEEP"
  /\ \A a \in Action : act[a].type = "SLEEP" => act[a].fd = Stdin
  /\ Serves

\* OnFd in terms of what an action is
LEMMA OnFdIs ==
  ASSUME NEW list \in Seq(Action), NEW f, NEW a
  PROVE  a \in OnFd(list, f)
           <=> a \in ToSet(list) /\ act[a].fd = f /\ act[a].type # "SLEEP"
<1>1. ToSet(list) \subseteq Action
  BY ToSetType
<1> QED BY <1>1 DEF OnFd, UsesFd

LEMMA OrderSame ==
  ASSUME IoIInv, OrderInv, UNCHANGED <<active, waiting, issued>>,
         \A a \in ToSet(active) \cup ToSet(waiting) :
           act'[a].type = act[a].type /\ act'[a].fd = act[a].fd,
         \A a \in Action : act'[a].type = "SLEEP" => act'[a].fd = Stdin
  PROVE  OrderInv'
<1>1. \A f \in Fd : /\ OnFd(active, f)' = OnFd(active, f)
                    /\ OnFd(waiting, f)' = OnFd(waiting, f)
  BY DEF OnFd, UsesFd
<1>2. Serves'
  BY <1>1 DEF OrderInv, Serves, InOrder, Foremost
<1> QED BY <1>2 DEF OrderInv

\* Nothing but what an action says of itself changes.
LEMMA OrderMarked ==
  ASSUME IoIInv, OrderInv, UNCHANGED <<active, waiting, issued>>,
         \A a \in Action : act'[a].type = act[a].type /\ act'[a].fd = act[a].fd
  PROVE  OrderInv'
<1>1. ToSet(active) \subseteq Action /\ ToSet(waiting) \subseteq Action
  BY ToSetType, InvParts DEF Core, CoreType
<1>2. \A a \in Action : act'[a].type = "SLEEP" => act'[a].fd = Stdin
  BY DEF OrderInv
<1> QED BY <1>1, <1>2, OrderSame

LEMMA FreeOrder ==
  ASSUME IoIInv, OrderInv, UNCHANGED <<active, waiting, issued>>,
         NEW a \in Action, act' = [act EXCEPT ![a] = Blank],
         a \notin ToSet(active) \cup ToSet(waiting)
  PROVE  OrderInv'
<1>1. ToSet(active) \subseteq Action /\ ToSet(waiting) \subseteq Action
      /\ act \in [Action -> Actions]
  BY ToSetType, InvParts DEF Core, CoreType
<1>2. Blank.fd = Stdin
  BY DEF Blank
<1>3. \A b \in Action : act'[b].type = "SLEEP" => act'[b].fd = Stdin
  BY <1>1, <1>2 DEF OrderInv
<1> QED BY <1>1, <1>3, OrderSame

\* An action that is issued waits behind the others on its file descriptor, or
\* there are none.
LEMMA AddOrder ==
  ASSUME IoIInv, OrderInv, NEW a \in Action \ live, NEW record \in Actions,
         record.type # "SLEEP" => record.fd \in Fd,
         record.type = "SLEEP" => record.fd = Stdin,
         Add(a, record)
  PROVE  OrderInv'
<1>1. /\ act \in [Action -> Actions] /\ active \in Seq(Action) /\ IsInjective(active)
      /\ waiting \in Seq(Action) /\ IsInjective(waiting)
  BY InvParts DEF Core, CoreType
<1>2. /\ a \notin ToSet(active) /\ a \notin ToSet(waiting) /\ active' \in Seq(Action)
      /\ waiting' \in Seq(Action)
  BY AddLists
<1>3. ToSet(active) \subseteq Action /\ ToSet(waiting) \subseteq Action
  BY <1>1, ToSetType
<1>4. act' = [act EXCEPT ![a] = record]
  BY DEF Add
<1>5. act'[a] = record /\ \A b \in Action : b # a => act'[b] = act[b]
  BY <1>1, <1>4
<1>6. \A b \in Action : act'[b].type = "SLEEP" => act'[b].fd = Stdin
  BY <1>5 DEF OrderInv
<1> DEFINE g == record.fd
           L == issued[g]
<1>7. ASSUME NEW f, NEW b
      PROVE  /\ b \in OnFd(active, f)' <=>
                  b \in ToSet(active') /\ act'[b].fd = f /\ act'[b].type # "SLEEP"
             /\ b \in OnFd(waiting, f)' <=>
                  b \in ToSet(waiting') /\ act'[b].fd = f /\ act'[b].type # "SLEEP"
             /\ b \in OnFd(active, f) <=>
                  b \in ToSet(active) /\ act[b].fd = f /\ act[b].type # "SLEEP"
             /\ b \in OnFd(waiting, f) <=>
                  b \in ToSet(waiting) /\ act[b].fd = f /\ act[b].type # "SLEEP"
  <2>1. ToSet(active') \subseteq Action /\ ToSet(waiting') \subseteq Action
    BY <1>2, ToSetType
  <2> QED BY <1>3, <2>1 DEF OnFd, UsesFd
<1>8. CASE record.type = "SLEEP"
  <2>1. active' = <<a>> \o active /\ waiting' = waiting /\ issued' = issued
    BY <1>8 DEF Add
  <2>2. ToSet(active') = ToSet(active) \cup {a}
    BY <1>1, <1>2, <2>1, Pushed
  <2>3. \A f : OnFd(active, f)' = OnFd(active, f) /\ OnFd(waiting, f)' = OnFd(waiting, f)
    <3>1. ASSUME NEW f, NEW b
          PROVE  /\ b \in OnFd(active, f)' <=> b \in OnFd(active, f)
                 /\ b \in OnFd(waiting, f)' <=> b \in OnFd(waiting, f)
      BY <1>2, <1>3, <1>5, <1>7, <1>8, <2>1, <2>2
    <3> QED BY <3>1, SetExtensionality
  <2>4. Serves'
    BY <2>1, <2>3 DEF OrderInv, Serves, InOrder, Foremost
  <2>5. \A b \in ToSet(waiting') : act'[b].type # "SLEEP"
    BY <1>2, <1>3, <1>5, <2>1 DEF OrderInv
  <2> QED BY <1>6, <2>1, <2>4, <2>5 DEF OrderInv
<1>9. CASE record.type # "SLEEP"
  <2>1. g \in Fd /\ issued' = [issued EXCEPT ![g] = Append(issued[g], a)]
    BY <1>9 DEF Add
  <2>2. /\ issued \in [Fd -> Seq(Action)] /\ L \in Seq(Action) /\ IsInjective(L)
        /\ InOrder(g)
    BY <2>1 DEF OrderInv, Serves
  <2>3. issued'[g] = Append(L, a) /\ \A f \in Fd \ {g} : issued'[f] = issued[f]
    BY <2>1, <2>2
  <2>4. ToSet(L) = OnFd(active, g) \cup OnFd(waiting, g) /\ a \notin ToSet(L)
    <3>1. L # <<>> => Head(L) \in ToSet(L)
      BY <2>2, Shortened
    <3>2. ToSet(<<>>) = {}
      BY DEF ToSet
    <3>3. Foremost(g) \subseteq ToSet(L)
      BY <3>1, <3>2 DEF Foremost
    <3> QED BY <1>2, <1>7, <2>2, <3>3 DEF InOrder
  <2>5. /\ Append(L, a) \in Seq(Action) /\ IsInjective(Append(L, a))
        /\ ToSet(Append(L, a)) = ToSet(L) \cup {a}
    BY <2>2, <2>4, Appended
  <2>6. issued' \in [Fd -> Seq(Action)] /\ \A f \in Fd : IsInjective(issued'[f])
    BY <2>1, <2>2, <2>3, <2>5 DEF OrderInv
  <2>7. IsActive(g) <=> OnFd(active, g) # {}
    BY <1>7 DEF IsActive
  <2>8. CASE IsActive(g)
    <3>1. active' = active /\ waiting' = Append(waiting, a)
      BY <1>9, <2>8 DEF Add
    <3>2. ToSet(waiting') = ToSet(waiting) \cup {a}
      BY <1>1, <1>2, <3>1, Appended
    <3>3. /\ \A f : OnFd(active, f)' = OnFd(active, f)
          /\ \A f : f # g => OnFd(waiting, f)' = OnFd(waiting, f)
          /\ OnFd(waiting, g)' = OnFd(waiting, g) \cup {a}
      <4>1. ASSUME NEW f, NEW b
            PROVE  /\ b \in OnFd(active, f)' <=> b \in OnFd(active, f)
                   /\ b \in OnFd(waiting, f)' <=>
                        b \in OnFd(waiting, f) \/ (b = a /\ f = g)
        BY <1>2, <1>3, <1>5, <1>7, <1>9, <3>1, <3>2
      <4>2. \A f : OnFd(active, f)' = OnFd(active, f)
        BY <4>1, SetExtensionality
      <4>3. ASSUME NEW f, f # g PROVE OnFd(waiting, f)' = OnFd(waiting, f)
        BY <4>1, <4>3, SetExtensionality
      <4>4. OnFd(waiting, g)' = OnFd(waiting, g) \cup {a}
        BY <4>1, SetExtensionality
      <4> QED BY <4>2, <4>3, <4>4
    <3>4. \A x, y : Precedes(waiting', x, y)
                      <=> Precedes(waiting, x, y) \/ (x \in ToSet(waiting) /\ y = a)
      BY <1>1, <1>2, <3>1, AppendOrder
    <3>5. \A x, y : Precedes(issued'[g], x, y)
                      <=> Precedes(L, x, y) \/ (x \in ToSet(L) /\ y = a)
      BY <2>2, <2>3, <2>4, AppendOrder
    <3>6. Foremost(g)' = Foremost(g)
      <4>1. L # <<>>
        BY <2>2, <2>7, <2>8 DEF InOrder, Foremost
      <4>2. Append(L, a) # <<>> /\ Head(Append(L, a)) = Head(L)
        BY <2>2, <4>1
      <4> QED BY <2>3, <4>1, <4>2 DEF Foremost
    <3>7. InOrder(g)'
      <4>1. OnFd(active, g)' = Foremost(g)'
        BY <2>2, <3>3, <3>6 DEF InOrder
      <4>2. a \notin Foremost(g)
        BY <1>2, <1>7, <2>2 DEF InOrder
      <4>3. OnFd(waiting, g)' = ToSet(issued'[g]) \ Foremost(g)'
        BY <2>2, <2>3, <2>5, <3>3, <3>6, <4>2 DEF InOrder
      <4>4. ASSUME NEW x \in OnFd(waiting, g)', NEW y \in OnFd(waiting, g)'
            PROVE  Precedes(waiting', x, y) <=> Precedes(issued'[g], x, y)
        <5>1. ~ Precedes(waiting, a, y) /\ ~ Precedes(L, a, y)
              /\ ~ Precedes(waiting, x, a) /\ ~ Precedes(L, x, a)
          BY <1>1, <1>2, <2>2, <2>4, OrderType
        <5>2. OnFd(waiting, g) \subseteq ToSet(waiting) /\ OnFd(waiting, g) \subseteq ToSet(L)
          BY <1>7, <2>4
        <5>3. x \in ToSet(waiting) <=> x # a
          BY <1>2, <3>3, <5>2
        <5>4. x \in ToSet(L) <=> x # a
          BY <2>4, <3>3, <5>2
        <5>5. x # a /\ y # a => (Precedes(waiting, x, y) <=> Precedes(L, x, y))
          BY <2>2, <3>3 DEF InOrder
        <5> QED BY <3>4, <3>5, <5>1, <5>3, <5>4, <5>5
      <4> QED BY <4>1, <4>3, <4>4 DEF InOrder
    <3>8. ASSUME NEW f \in Fd \ {g} PROVE InOrder(f)'
      <4>1. InOrder(f) /\ issued'[f] = issued[f] /\ Foremost(f)' = Foremost(f)
        BY <2>3 DEF OrderInv, Serves, Foremost
      <4>2. \A y \in OnFd(waiting, f) : y # a
        BY <1>2, <1>7
      <4> QED BY <3>3, <3>4, <4>1, <4>2 DEF InOrder
    <3>9. \A b \in ToSet(waiting') : act'[b].type # "SLEEP"
      BY <1>2, <1>3, <1>5, <1>9, <3>2 DEF OrderInv
    <3> QED BY <1>6, <2>6, <3>7, <3>8, <3>9 DEF OrderInv, Serves
  <2>9. CASE ~ IsActive(g)
    <3>1. active' = <<a>> \o active /\ waiting' = waiting
      BY <2>9 DEF Add
    <3>2. ToSet(active') = ToSet(active) \cup {a}
      BY <1>1, <1>2, <3>1, Pushed
    <3>3. /\ \A f : f # g => OnFd(active, f)' = OnFd(active, f)
          /\ \A f : OnFd(waiting, f)' = OnFd(waiting, f)
          /\ OnFd(active, g)' = OnFd(active, g) \cup {a}
      <4>1. ASSUME NEW f, NEW b
            PROVE  /\ b \in OnFd(active, f)' <=>
                        b \in OnFd(active, f) \/ (b = a /\ f = g)
                   /\ b \in OnFd(waiting, f)' <=> b \in OnFd(waiting, f)
        BY <1>2, <1>3, <1>5, <1>7, <1>9, <3>1, <3>2
      <4> QED BY <4>1, SetExtensionality
    <3>4. OnFd(active, g) = {} /\ L = <<>> /\ OnFd(waiting, g) = {}
      <4>1. OnFd(active, g) = {}
        BY <2>7, <2>9
      <4>2. L = <<>>
        BY <2>2, <4>1 DEF InOrder, Foremost
      <4>3. ToSet(L) = {}
        BY <4>2 DEF ToSet
      <4> QED BY <2>4, <4>1, <4>2, <4>3
    <3>5. issued'[g] = <<a>> /\ Foremost(g)' = {a} /\ ToSet(issued'[g]) = {a}
      <4>1. issued'[g] = <<a>>
        BY <2>3, <3>4
      <4>2. ToSet(L) = {}
        BY <2>4, <3>4
      <4> QED BY <2>3, <2>5, <4>1, <4>2 DEF Foremost
    <3>6. InOrder(g)'
      BY <3>1, <3>3, <3>4, <3>5 DEF InOrder
    <3>7. ASSUME NEW f \in Fd \ {g} PROVE InOrder(f)'
      <4>1. InOrder(f) /\ issued'[f] = issued[f] /\ Foremost(f)' = Foremost(f)
        BY <2>3 DEF OrderInv, Serves, Foremost
      <4> QED BY <3>1, <3>3, <4>1 DEF InOrder
    <3>8. \A b \in ToSet(waiting') : act'[b].type # "SLEEP"
      BY <1>2, <1>3, <1>5, <3>1 DEF OrderInv
    <3> QED BY <1>6, <2>6, <3>6, <3>7, <3>8 DEF OrderInv, Serves
  <2> QED BY <2>8, <2>9
<1> QED BY <1>8, <1>9

\* The action that is taken out was the foremost on its file descriptor, and the
\* one that comes in is the next; a SLEEP brings none in.
LEMMA TakeOutOrder ==
  ASSUME Stdin \notin Fd, IoIInv, OrderInv, NEW a \in ToSet(active), TakeOut(a)
  PROVE  OrderInv'
<1>1. /\ act \in [Action -> Actions] /\ active \in Seq(Action) /\ IsInjective(active)
      /\ waiting \in Seq(Action) /\ IsInjective(waiting)
      /\ CoreType /\ ListsInv /\ Exact /\ FdInv
      /\ ToSet(active) \cap ToSet(waiting) = {}
  BY InvParts DEF Core, CoreType, ListsInv
<1>2. ToSet(active) \subseteq Action /\ ToSet(waiting) \subseteq Action
      /\ a \in Action /\ a \notin ToSet(waiting) /\ Nil \notin Action
  BY <1>1, ToSetType, IoTaskAssumption
<1>0. PICK g : g = act[a].fd
  OBVIOUS
<1> DEFINE s == Successor(a)
           rest == Without(active, a)
           L == issued[g]
<1>3. /\ IF s = Nil THEN active' = rest /\ waiting' = waiting
         ELSE active' = <<s>> \o rest /\ waiting' = Without(waiting, s)
      /\ issued' = IF act[a].type = "SLEEP" THEN issued
                   ELSE [issued EXCEPT ![g] = Without(L, a)]
      /\ (act' = [act EXCEPT ![a] = Blank]) \/ (act' = act)
  BY <1>0 DEF TakeOut, Free
<1>4. rest \in Seq(Action) /\ IsInjective(rest) /\ ToSet(rest) = ToSet(active) \ {a}
  BY <1>1, WithoutOne
<1>5. IF ToSet(waiting) \cap UsesFd(g) = {} THEN s = Nil
      ELSE /\ s \in ToSet(waiting) /\ s \in UsesFd(g)
           /\ \A y \in (ToSet(waiting) \cap UsesFd(g)) \ {s} : Precedes(waiting, s, y)
  BY <1>0, <1>1, FirstAmongOne, FirstAmongOrder DEF Successor
<1>6. \A b \in Action : b # a => act'[b] = act[b]
  BY <1>1, <1>2, <1>3
<1>7. \A b \in Action : act'[b].type = "SLEEP" => act'[b].fd = Stdin
  <2>1. Blank.fd = Stdin
    BY DEF Blank
  <2> QED BY <1>1, <1>2, <1>3, <2>1 DEF OrderInv
<1>8. /\ active' \in Seq(Action) /\ waiting' \in Seq(Action)
      /\ a \notin ToSet(active') /\ a \notin ToSet(waiting')
  BY <1>1, TakeOutLists
<1>9. ASSUME NEW f, NEW b
      PROVE  /\ b \in OnFd(active, f)' <=>
                  b \in ToSet(active') /\ act[b].fd = f /\ act[b].type # "SLEEP"
             /\ b \in OnFd(waiting, f)' <=>
                  b \in ToSet(waiting') /\ act[b].fd = f /\ act[b].type # "SLEEP"
             /\ b \in OnFd(active, f) <=>
                  b \in ToSet(active) /\ act[b].fd = f /\ act[b].type # "SLEEP"
             /\ b \in OnFd(waiting, f) <=>
                  b \in ToSet(waiting) /\ act[b].fd = f /\ act[b].type # "SLEEP"
  <2>1. ToSet(active') \subseteq Action /\ ToSet(waiting') \subseteq Action
    BY <1>8, ToSetType
  <2> QED BY <1>2, <1>6, <1>8, <2>1 DEF OnFd, UsesFd
<1>10. /\ \A b \in ToSet(waiting) : act[b].type # "SLEEP" /\ act[b].fd \in Fd
       /\ \A b \in ToSet(waiting') : b \in ToSet(waiting)
  <2>1. ToSet(active') \cup ToSet(waiting') = (ToSet(active) \cup ToSet(waiting)) \ {a}
    BY <1>1, TakeOutLists
  <2>2. s # Nil => ToSet(waiting') = ToSet(waiting) \ {s}
    BY <1>1, <1>3, <1>5, WithoutOne
  <2> QED BY <1>1, <1>2, <1>3, <2>2 DEF OrderInv, FdInv
<1>11. \A b \in ToSet(waiting') : act'[b].type # "SLEEP"
  BY <1>2, <1>6, <1>8, <1>10
<1> HIDE DEF s, rest
<1>12. CASE act[a].type = "SLEEP"
  <2>1. g = Stdin
    BY <1>0, <1>2, <1>12 DEF OrderInv
  <2>2. ToSet(waiting) \cap UsesFd(g) = {}
    BY <1>10, <2>1 DEF UsesFd
  <2>3. s = Nil
    BY <1>5, <2>2
  <2>4. active' = rest /\ waiting' = waiting /\ issued' = issued
    BY <1>3, <1>12, <2>3
  <2>5. \A f : OnFd(active, f)' = OnFd(active, f) /\ OnFd(waiting, f)' = OnFd(waiting, f)
    <3>1. ASSUME NEW f, NEW b
          PROVE  /\ b \in OnFd(active, f)' <=> b \in OnFd(active, f)
                 /\ b \in OnFd(waiting, f)' <=> b \in OnFd(waiting, f)
      BY <1>4, <1>9, <1>12, <2>4
    <3> QED BY <3>1, SetExtensionality
  <2>6. Serves'
    BY <2>4, <2>5 DEF OrderInv, Serves, InOrder, Foremost
  <2> QED BY <1>7, <1>11, <2>4, <2>6 DEF OrderInv
<1>13. CASE act[a].type # "SLEEP"
  <2>1. g \in Fd /\ issued' = [issued EXCEPT ![g] = Without(L, a)]
    BY <1>0, <1>1, <1>2, <1>3, <1>13 DEF FdInv
  <2>2. /\ issued \in [Fd -> Seq(Action)] /\ L \in Seq(Action) /\ IsInjective(L)
        /\ InOrder(g)
    BY <2>1 DEF OrderInv, Serves
  <2>3. issued'[g] = Without(L, a) /\ \A f \in Fd \ {g} : issued'[f] = issued[f]
    BY <2>1, <2>2
  <2>4. L # <<>> /\ Head(L) = a /\ OnFd(active, g) = {a}
    <3>1. a \in OnFd(active, g)
      BY <1>0, <1>9, <1>13
    <3> QED BY <2>2, <3>1 DEF InOrder, Foremost
  <2>5. a \in ToSet(L) /\ OnFd(waiting, g) = ToSet(L) \ {a}
    <3>1. a \in ToSet(L)
      BY <2>2, <2>4, Shortened
    <3> QED BY <2>2, <2>4, <3>1 DEF InOrder, Foremost
  <2> DEFINE M == Without(L, a)
  <2>6. M \in Seq(Action) /\ IsInjective(M) /\ ToSet(M) = ToSet(L) \ {a}
    BY <2>2, <2>5, WithoutOne
  <2>7. \A x, y \in ToSet(M) : Precedes(M, x, y) <=> Precedes(L, x, y)
    BY <2>2, <2>5, <2>6, WithoutOrder
  <2> HIDE DEF M
  <2>8. issued' \in [Fd -> Seq(Action)] /\ \A f \in Fd : IsInjective(issued'[f])
    BY <2>1, <2>2, <2>3, <2>6 DEF OrderInv, M
  <2>9. ToSet(waiting) \cap UsesFd(g) = ToSet(M)
    <3>1. \A b : b \in OnFd(waiting, g) <=> b \in ToSet(waiting) /\ b \in UsesFd(g)
      BY <1>2, <1>9, <1>10 DEF UsesFd
    <3> QED BY <2>5, <2>6, <3>1
  <2>10. \A x, y \in ToSet(M) : Precedes(waiting, x, y) <=> Precedes(M, x, y)
    BY <2>2, <2>5, <2>6, <2>7 DEF InOrder
  <2>11. CASE ToSet(M) = {}
    <3>1. s = Nil /\ M = <<>>
      <4>1. M # <<>> => Head(M) \in ToSet(M)
        BY <2>6, Shortened
      <4> QED BY <1>5, <2>9, <2>11, <4>1
    <3>2. active' = rest /\ waiting' = waiting
      BY <1>3, <3>1
    <3>3. /\ \A f : f # g => OnFd(active, f)' = OnFd(active, f)
          /\ \A f : OnFd(waiting, f)' = OnFd(waiting, f)
          /\ OnFd(active, g)' = {}
      <4>1. ASSUME NEW f, NEW b
            PROVE  /\ b \in OnFd(active, f)' <=> b \in OnFd(active, f) /\ b # a
                   /\ b \in OnFd(waiting, f)' <=> b \in OnFd(waiting, f)
        BY <1>4, <1>9, <3>2
      <4>2. \A f : f # g => a \notin OnFd(active, f)
        BY <1>0, <1>9
      <4>3. ASSUME NEW f, f # g PROVE OnFd(active, f)' = OnFd(active, f)
        BY <4>1, <4>2, <4>3, SetExtensionality
      <4>4. \A f : OnFd(waiting, f)' = OnFd(waiting, f)
        BY <4>1, SetExtensionality
      <4>5. OnFd(active, g)' = {}
        BY <2>4, <4>1
      <4> QED BY <4>3, <4>4, <4>5
    <3>4. InOrder(g)'
      BY <2>3, <2>5, <2>6, <2>11, <3>1, <3>3 DEF InOrder, Foremost, M
    <3>5. ASSUME NEW f \in Fd \ {g} PROVE InOrder(f)'
      <4>1. InOrder(f) /\ issued'[f] = issued[f] /\ Foremost(f)' = Foremost(f)
        BY <2>3 DEF OrderInv, Serves, Foremost
      <4> QED BY <3>2, <3>3, <4>1 DEF InOrder
    <3> QED BY <1>7, <1>11, <2>8, <3>4, <3>5 DEF OrderInv, Serves
  <2>12. CASE ToSet(M) # {}
    <3>1. /\ s \in ToSet(waiting) /\ s \in ToSet(M) /\ s # Nil /\ s \in Action
          /\ \A y \in ToSet(M) \ {s} : Precedes(waiting, s, y)
      BY <1>2, <1>5, <2>9, <2>12
    <3>2. M # <<>> /\ Head(M) = s
      BY <2>6, <2>10, <3>1, HeadOrder
    <3>3. active' = <<s>> \o rest /\ waiting' = Without(waiting, s)
      BY <1>3, <3>1
    <3>4. ToSet(active') = ToSet(rest) \cup {s} /\ ToSet(waiting') = ToSet(waiting) \ {s}
      <4>1. s \notin ToSet(rest)
        BY <1>1, <1>4, <3>1
      <4> QED BY <1>1, <1>4, <3>1, <3>3, <4>1, Pushed, WithoutOne
    <3>5. act[s].fd = g /\ act[s].type # "SLEEP"
      BY <1>10, <2>9, <3>1 DEF UsesFd
    <3>6. /\ \A f : f # g => OnFd(active, f)' = OnFd(active, f)
          /\ \A f : OnFd(waiting, f)' = OnFd(waiting, f) \ {s}
          /\ \A f : f # g => s \notin OnFd(waiting, f)
          /\ OnFd(active, g)' = {s}
      <4>1. ASSUME NEW f, NEW b
            PROVE  /\ b \in OnFd(active, f)' <=>
                        (b \in OnFd(active, f) /\ b # a) \/ (b = s /\ f = g)
                   /\ b \in OnFd(waiting, f)' <=> b \in OnFd(waiting, f) /\ b # s
        BY <1>4, <1>9, <3>4, <3>5
      <4>2. \A f : f # g => a \notin OnFd(active, f) /\ s \notin OnFd(waiting, f)
        BY <1>0, <1>9, <3>5
      <4>3. ASSUME NEW f, f # g PROVE OnFd(active, f)' = OnFd(active, f)
        <5>1. \A b : b \in OnFd(active, f)' <=> b \in OnFd(active, f)
          BY <4>1, <4>2, <4>3
        <5> QED BY <5>1, SetExtensionality
      <4>4. \A f : OnFd(waiting, f)' = OnFd(waiting, f) \ {s}
        BY <4>1, SetExtensionality
      <4>5. \A b : b \in OnFd(active, g)' <=> b = s
        BY <2>4, <4>1
      <4>6. OnFd(active, g)' = {s}
        BY <4>5, SetExtensionality
      <4> QED BY <4>2, <4>3, <4>4, <4>6
    <3>7. \A x, y : x # s /\ y # s =>
            (Precedes(waiting', x, y) <=> Precedes(waiting, x, y))
      BY <1>1, <3>1, <3>3, WithoutOrder
    <3>8. InOrder(g)'
      <4>1. Foremost(g)' = {s} /\ issued'[g] = M
        BY <2>3, <3>2 DEF Foremost, M
      <4>2. OnFd(waiting, g)' = ToSet(M) \ {s}
        BY <2>5, <2>6, <3>6
      <4>3. \A x, y \in OnFd(waiting, g)' : Precedes(waiting', x, y) <=> Precedes(M, x, y)
        BY <2>10, <3>7, <4>2
      <4> QED BY <3>6, <4>1, <4>2, <4>3 DEF InOrder
    <3>9. ASSUME NEW f \in Fd \ {g} PROVE InOrder(f)'
      <4>1. InOrder(f) /\ issued'[f] = issued[f] /\ Foremost(f)' = Foremost(f)
        BY <2>3 DEF OrderInv, Serves, Foremost
      <4>2. OnFd(waiting, f)' = OnFd(waiting, f) /\ s \notin OnFd(waiting, f)
        BY <3>6
      <4> QED BY <3>6, <3>7, <4>1, <4>2 DEF InOrder
    <3> QED BY <1>7, <1>11, <2>8, <3>8, <3>9 DEF OrderInv, Serves
  <2> QED BY <2>11, <2>12
<1> QED BY <1>12, <1>13

LEMMA ThreadOrder ==
  ASSUME Stdin \notin Fd, IoIInv, OrderInv, IoThread \/ Monitor \/ World
  PROVE  OrderInv'
<1>1. act \in [Action -> Actions] /\ CoreType /\ ListsInv /\ ThreadInv /\ RestType
  BY InvParts DEF Core, CoreType
<1>2. CASE Scan
  <2> DEFINE finished == {a \in ToSet(active) :
                            \/ act[a].type \in Instant
                            \/ act[a].type \in Transfers /\ act[a].count = 0
                            \/ Expired(a)}
             Wrong(a) == /\ act[a].type \in {"SEEK", "TELL"}
                         /\ ~ open[act[a].fd]
             Closes(f) ==
               \E a \in ToSet(active) : act[a].fd = f /\ act[a].type = "CLOSE"
  <2>1. /\ act' = [a \in Action |->
                     IF a \notin finished THEN act[a]
                     ELSE [act[a] EXCEPT !.isDone = TRUE, !.hasError = Wrong(a)]]
        /\ open' = [f \in Fd |-> open[f] /\ ~ Closes(f)]
        /\ again' = (finished # {})
    BY <1>2 DEF Scan
  <2>2. \A a \in Action : Wrong(a) \in BOOLEAN
    OBVIOUS
  <2> HIDE DEF finished, Wrong, Closes
  <2>3. \A a \in Action : act'[a].type = act[a].type /\ act'[a].fd = act[a].fd
    <3>1. ASSUME NEW a \in Action
          PROVE  LET r == [act[a] EXCEPT !.isDone = TRUE, !.hasError = Wrong(a)]
                 IN  r.type = act[a].type /\ r.fd = act[a].fd
      <4>1. act[a] \in Actions /\ Wrong(a) \in BOOLEAN
        BY <1>1, <2>2
      <4> QED BY <4>1 DEF Actions
    <3> QED BY <2>1, <3>1
  <2>4. UNCHANGED lists
    BY <1>2 DEF Scan
  <2>5. UNCHANGED <<active, waiting, issued>>
    BY <2>4 DEF lists
  <2> QED BY <2>3, <2>5, OrderMarked
<1>3. CASE RemoveDone
  <2>1. CASE cursor' = Nil /\ UNCHANGED <<act, lists, at, next>>
    BY <2>1, OrderMarked DEF lists
  <2> QED BY <1>3, <2>1, RemoveDoneCases, TakeOutOrder
<1>4. CASE Dispose
  <2>1. /\ UNCHANGED <<active, waiting, issued>>
        /\ cursor \in Action \ (ToSet(active) \cup ToSet(waiting))
        /\ Free(cursor) \/ UNCHANGED <<live, act>>
    BY <1>1, <1>4 DEF Dispose, ThreadInv
  <2>2. CASE Free(cursor)
    BY <2>1, <2>2, FreeOrder DEF Free
  <2>3. CASE UNCHANGED <<live, act>>
    BY <2>1, <2>3, OrderMarked
  <2> QED BY <2>1, <2>2, <2>3
<1>5. CASE Collect
  <2>1. UNCHANGED <<active, waiting, issued>> /\ at = "collect"
    BY <1>5 DEF Collect, lists
  <2>2. PICK room \in -1..2, failing \in SUBSET polled :
          act' = [a \in Action |->
                    IF a \in polled THEN Answered(a, room, failing)
                    ELSE IF a \in ToSet(active) /\ Expired(a)
                         THEN [act[a] EXCEPT !.isDone = TRUE] ELSE act[a]]
    BY <1>5 DEF Collect
  <2>3. ASSUME NEW a \in polled
        PROVE  LET r == Answered(a, room, failing)
               IN  r.type = act[a].type /\ r.fd = act[a].fd
    <3>1. a \in Action /\ act[a].type # "SLEEP"
      BY <1>1, <2>1, ToSetType DEF CoreType, ThreadInv, Transfers
    <3>2. act[a].fd \in Fd /\ act[a].index <= act[a].count /\ room \in -1..2
          /\ data \in [Fd -> 0..MaxData]
      BY <1>1, <3>1, InvParts DEF Core, CoreType, RestType, FdInv
    <3> QED BY <1>1, <3>1, <3>2, AnsweredType
  <2>4. ASSUME NEW a \in Action
        PROVE  LET r == [act[a] EXCEPT !.isDone = TRUE]
               IN  r.type = act[a].type /\ r.fd = act[a].fd
    BY <1>1 DEF Actions
  <2>5. \A a \in Action : act'[a].type = act[a].type /\ act'[a].fd = act[a].fd
    BY <2>2, <2>3, <2>4
  <2> QED BY <2>1, <2>5, OrderMarked
<1>6. CASE Notify \/ EndPass \/ PollReturns \/ Monitor \/ World
  <2>1. /\ UNCHANGED <<active, waiting, issued>>
        /\ \/ act' = act
           \/ \E a \in Action : act' = [act EXCEPT ![a].due = TRUE]
    BY <1>6 DEF Notify, EndPass, PollReturns, Monitor, StartMonitor, TestWrites,
                MonitorWait, World, Arrive, HangUp, TimePasses, lists
  <2>2. \A b \in Action : act'[b].type = act[b].type /\ act'[b].fd = act[b].fd
    <3>1. ASSUME NEW b \in Action
          PROVE  LET r == [act[b] EXCEPT !.due = TRUE]
                 IN  r.type = act[b].type /\ r.fd = act[b].fd
      BY <1>1 DEF Actions
    <3> QED BY <1>1, <2>1, <3>1
  <2> QED BY <2>1, <2>2, OrderMarked
<1> QED BY <1>2, <1>3, <1>4, <1>5, <1>6 DEF IoThread

LEMMA WordsOrder ==
  ASSUME ~ Astray', IoIInv, WakeInv, OrderInv, NEW t \in Task,
         \/ BlockWord(t) \/ AsyncWord(t) \/ SleepWord(t) \/ SleepWait(t)
         \/ DestroyWord(t) \/ NonblockRead(t) \/ OpenWord(t) \/ Exit(t)
  PROVE  OrderInv'
<1>1. CASE BlockWord(t) \/ AsyncWord(t)
  <2>1. PICK waker \in Task \cup {Nil} : Issue(t, waker)
    BY <1>1 DEF BlockWord, AsyncWord
  <2>2. PICK a \in Action \ live, f \in Fd :
          \E record \in InstantRecords(f, waker) \cup TransferRecords(f, waker) :
            Add(a, record)
    BY <2>1 DEF Issue
  <2>3. PICK record \in InstantRecords(f, waker) \cup TransferRecords(f, waker) :
          Add(a, record)
    BY <2>2
  <2>4. record \in Actions /\ record.fd \in Fd /\ record.type # "SLEEP"
    BY RecordsType
  <2> QED BY <2>3, <2>4, AddOrder
<1>2. CASE SleepWord(t)
  <2>1. PICK a \in Action \ live : Add(a, [Blank EXCEPT !.task = t])
    BY <1>2 DEF SleepWord
  <2>2. [Blank EXCEPT !.task = t] \in Actions
    BY DEF Blank, Actions, AllTypes
  <2>3. LET r == [Blank EXCEPT !.task = t]
        IN  r.type = "SLEEP" /\ r.fd = Stdin
    BY DEF Blank
  <2> QED BY <2>1, <2>2, <2>3, AddOrder
<1>3. CASE SleepWait(t) \/ DestroyWord(t)
  <2>1. handle[t] \in Action \cup {Nil} /\ act \in [Action -> Actions]
    BY InvParts DEF Core, CoreType, RestType
  <2>2. UNCHANGED issued
    BY <1>3 DEF SleepWait, DestroyWord
  <2>3. CASE UNCHANGED <<act, live, active, waiting, done, at>>
    BY <2>2, <2>3, OrderMarked
  <2>4. CASE handle[t] \in Action /\ Destroy(handle[t])
    <3>1. /\ active' = active /\ waiting' = waiting
          /\ \/ act' = [act EXCEPT ![handle[t]].doomed = TRUE]
             \/ /\ act' = [act EXCEPT ![handle[t]] = Blank]
                /\ handle[t] \notin ToSet(active) \cup ToSet(waiting)
      <4>1. handle[t] \notin InHand
              => handle[t] \notin ToSet(active) \cup ToSet(waiting)
        BY DEF InHand
      <4> QED BY <2>4, <4>1, DestroyLists
    <3>2. CASE act' = [act EXCEPT ![handle[t]].doomed = TRUE]
      <4>1. LET r == [act[handle[t]] EXCEPT !.doomed = TRUE]
            IN  r.type = act[handle[t]].type /\ r.fd = act[handle[t]].fd
        BY <2>1, <2>4 DEF Actions
      <4>2. \A b \in Action : act'[b].type = act[b].type /\ act'[b].fd = act[b].fd
        BY <2>1, <2>4, <3>2, <4>1
      <4> QED BY <2>2, <3>1, <4>2, OrderMarked
    <3> QED BY <2>2, <2>4, <3>1, <3>2, FreeOrder
  <2>5. CASE SleepWait(t)
    BY <2>1, <2>4, <2>5 DEF SleepWait, WakeInv, HandlesInv
  <2>6. CASE DestroyWord(t)
    BY <2>1, <2>3, <2>4, <2>6 DEF DestroyWord
  <2> QED BY <1>3, <2>5, <2>6
<1>4. CASE NonblockRead(t) \/ OpenWord(t) \/ Exit(t)
  <2>1. UNCHANGED <<act, lists>>
    BY <1>4 DEF NonblockRead, OpenWord, Exit
  <2> QED BY <2>1, OrderMarked DEF lists
<1> QED BY <1>1, <1>2, <1>3, <1>4

\* Up to the step that leads the IO thread astray, the actions on a file
\* descriptor are served one at a time and in the order they were issued, and
\* none waits while it is free (io.c:720-738, 998-1042).  Not so on standard
\* input beside a SLEEP, whose action lies on it too: when it is done, one that
\* waits there comes in beside the one that is served.
THEOREM IoServesInOrder ==
  ASSUME Stdin \notin Fd
  PROVE  Spec => []ServedInOrder
<1>1. Init => IoInv /\ (Astray \/ (WakeInv /\ OrderInv))
  <2> SUFFICES ASSUME Init PROVE OrderInv
    BY IoInit, WakeInit DEF IoInv
  <2>1. /\ ToSet(active) = {} /\ ToSet(waiting) = {} /\ ToSet(<<>>) = {}
        /\ issued = [f \in Fd |-> <<>>] /\ act = [a \in Action |-> Blank]
        /\ waiting = <<>>
    BY DEF Init, ToSet
  <2>2. issued \in [Fd -> Seq(Action)] /\ \A f \in Fd : IsInjective(issued[f])
    BY <2>1 DEF IsInjective
  <2>3. \A f \in Fd : OnFd(active, f) = {} /\ OnFd(waiting, f) = {}
    BY <2>1 DEF OnFd
  <2>4. Serves
    BY <2>1, <2>3 DEF Serves, InOrder, Foremost
  <2>5. Blank.fd = Stdin
    BY DEF Blank
  <2> QED BY <2>1, <2>2, <2>4, <2>5 DEF OrderInv
<1>2. ASSUME IoInv /\ (Astray \/ (WakeInv /\ OrderInv)), [Next]_vars
      PROVE  IoInv' /\ (Astray' \/ (WakeInv' /\ OrderInv'))
  <2>0. IoInv'
    BY <1>2, IoInvStep
  <2>1. CASE Astray
    BY <1>2, <2>0, <2>1 DEF Next, Astray, vars, thread
  <2>2. CASE ~ Astray /\ ~ Astray'
    <3>1. IoIInv /\ WakeInv /\ OrderInv
      BY <1>2, <2>2 DEF IoInv
    <3>2. CASE Next
      <4>1. OrderInv'
        BY <1>1, <2>2, <3>1, <3>2, ThreadOrder, WordsOrder DEF Next
      <4> QED BY <2>0, <2>2, <3>1, <3>2, <4>1, WakeStep
    <3>3. CASE UNCHANGED vars
      <4>1. OrderInv'
        BY <3>1, <3>3, OrderMarked DEF vars, lists
      <4> QED BY <2>0, <2>2, <3>1, <3>3, <4>1, WakeStep
    <3> QED BY <1>2, <3>2, <3>3
  <2>3. CASE Astray'
    BY <2>0, <2>3
  <2> QED BY <2>1, <2>2, <2>3
<1>3. Astray \/ (WakeInv /\ OrderInv) => ServedInOrder
  BY DEF OrderInv, Serves, ServedInOrder
<1> QED BY <1>1, <1>2, <1>3, PTL DEF Spec

=============================================================================
