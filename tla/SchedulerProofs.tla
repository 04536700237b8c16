--------------------------- MODULE SchedulerProofs ----------------------------
(***************************************************************************)
(* The safety properties of Scheduler for every number of tasks, every     *)
(* program of task words and every value of the cycle limits, as long as   *)
(* the program keeps the contract (Liberties at most "kill atomic"): what  *)
(* the operators of Tasking preserve, then the task list, the tasks freed  *)
(* and the pointers, then atomic sections and the count of tasks.          *)
(***************************************************************************)
EXTENDS Scheduler, FiniteSetTheorems, WellFoundedInduction, TLAPS

-----------------------------------------------------------------------------
(* A finite set of integers has a largest element: NestingLevel is one of  *)
(* the levels it ranges over.                                              *)

LEMMA MaxExists ==
  ASSUME NEW S, S \subseteq Int, IsFiniteSet(S), S # {}
  PROVE  \E l \in S : \A m \in S : m <= l
<1> DEFINE Above(y) == {x \in S : x >= y}
           T == {Above(y) : y \in S}
<1>1. T \subseteq FiniteSubsetsOf(S)
  <2>1. \A y \in S : Above(y) \in SUBSET S
    OBVIOUS
  <2> HIDE DEF Above
  <2>2. \A y \in S : IsFiniteSet(Above(y))
    BY <2>1, FS_Subset
  <2> QED BY <2>1, <2>2 DEF FiniteSubsetsOf
<1>2. T # {}
  OBVIOUS
<1>3. PICK A \in T : \A B \in T : ~ (<<B, A>> \in StrictSubsetOrdering(S))
  <2> HIDE DEF T
  <2> QED BY <1>1, <1>2, FS_StrictSubsetOrderingWellFounded, WFMin
<1>4. PICK y \in S : A = Above(y)
  BY <1>3
<1>5. ASSUME NEW m \in S, ~ (m <= y) PROVE FALSE
  <2>1. m \in Int /\ y \in Int /\ m > y
    BY <1>5
  <2>2. Above(m) \subseteq Above(y)
    <3>1. ASSUME NEW x \in S, x >= m PROVE x >= y
      BY <2>1, <3>1
    <3> QED BY <3>1
  <2>3. y \in Above(y) /\ y \notin Above(m)
    BY <2>1
  <2>4. Above(m) \in T
    OBVIOUS
  <2>5. Above(m) \subseteq S /\ Above(y) \subseteq S
    OBVIOUS
  <2> HIDE DEF Above, T
  <2>6. <<Above(m), Above(y)>> \in StrictSubsetOrdering(S)
    BY <2>2, <2>3, <2>5, Zenon DEF StrictSubsetOrdering
  <2> QED BY <2>4, <2>6, <1>3, <1>4
<1> QED BY <1>5

-----------------------------------------------------------------------------
(* The task list.                                                          *)

Distinct(list) == \A i, j \in DOMAIN list : list[i] = list[j] => i = j
Entries(list) == {list[i] : i \in DOMAIN list}

LEMMA PositionOfEntry ==
  ASSUME NEW list \in Seq(Task), NEW t \in Entries(list)
  PROVE  /\ Position(list, t) \in 1..Len(list)
         /\ list[Position(list, t)] = t
BY DEF Position, Entries

LEMMA PositionUnique ==
  ASSUME NEW list \in Seq(Task), Distinct(list), NEW i \in 1..Len(list)
  PROVE  Position(list, list[i]) = i
BY DEF Position, Distinct

LEMMA NextOfEntry ==
  ASSUME NEW list \in Seq(Task), NEW t \in Entries(list)
  PROVE  NextOf(list, t) \in Entries(list) \cup {Nil}
<1>1. Position(list, t) \in 1..Len(list)
  BY PositionOfEntry
<1> QED BY <1>1 DEF NextOf, Entries

LEMMA FirstEntry ==
  ASSUME NEW list \in Seq(Task)
  PROVE  /\ First(list) \in Entries(list) \cup {Nil}
         /\ list # <<>> => First(list) = list[1] /\ First(list) \in Entries(list)
BY DEF First, Entries

LEMMA Concatenation ==
  ASSUME NEW a \in Seq(Task), NEW b \in Seq(Task)
  PROVE  /\ a \o b \in Seq(Task)
         /\ Len(a \o b) = Len(a) + Len(b)
         /\ \A i \in 1..(Len(a) + Len(b)) :
               (a \o b)[i] = IF i <= Len(a) THEN a[i] ELSE b[i - Len(a)]
OBVIOUS

\* Unlinking the walked task takes just that task off the list, and the walk
\* goes on at its successor.
LEMMA UnlinkOne ==
  ASSUME NEW list \in Seq(Task), Distinct(list), NEW t \in Entries(list),
         NEW ahead \in Entries(list) \cup {Nil}, Nil \notin Task,
         t = IF ahead = Nil THEN First(list) ELSE NextOf(list, ahead)
  PROVE  LET rest == Unlink(list, ahead, t) IN
         /\ rest \in Seq(Task) /\ Distinct(rest)
         /\ Entries(rest) = Entries(list) \ {t}
         /\ ahead # t
         /\ NextOf(list, t) = IF ahead = Nil THEN First(rest) ELSE NextOf(rest, ahead)
<1> DEFINE n == Len(list)
           k == Position(list, t)
           rest == Unlink(list, ahead, t)
<1>1. n \in Nat /\ k \in 1..n /\ list[k] = t /\ t \in Task /\ t # Nil
  BY PositionOfEntry DEF Entries
<1>2. /\ Len(rest) = n - 1 /\ rest \in Seq(Task)
      /\ \A i \in 1..(n-1) : rest[i] = IF i < k THEN list[i] ELSE list[i+1]
  <2>1. CASE ahead = Nil
    <3>1. k = 1
      BY <1>1, <2>1, FirstEntry, PositionUnique
    <3>2. rest = <<>> \o SubSeq(list, k + 1, n)
      BY <2>1, Zenon DEF Unlink
    <3> DEFINE tail == SubSeq(list, k + 1, n)
    <3>3. /\ tail \in Seq(Task) /\ Len(tail) = n - k
          /\ \A i \in 1..(n-k) : tail[i] = list[k+i]
      BY <1>1
    <3> HIDE DEF rest, tail, k
    <3>4. rest = <<>> \o tail
      BY <3>2 DEF tail
    <3>5. rest = tail
      BY <3>3, <3>4
    <3> QED BY <3>1, <3>3, <3>5, <1>1
  <2>2. CASE ahead # Nil
    <3> DEFINE p == Position(list, ahead)
    <3>1. p \in 1..n /\ list[p] = ahead
      BY <2>2, PositionOfEntry
    <3>2. k = p + 1
      BY <1>1, <2>2, <3>1, PositionUnique DEF NextOf
    <3>3. rest = SubSeq(list, 1, p) \o SubSeq(list, k + 1, n)
      BY <2>2, Zenon DEF Unlink
    <3> DEFINE front == SubSeq(list, 1, p)
               back  == SubSeq(list, k + 1, n)
    <3>4. /\ front \in Seq(Task) /\ Len(front) = p
          /\ \A i \in 1..p : front[i] = list[i]
      BY <3>1
    <3>5. /\ back \in Seq(Task) /\ Len(back) = n - k
          /\ \A i \in 1..(n-k) : back[i] = list[k+i]
      BY <1>1
    <3> HIDE DEF rest, p, k, front, back
    <3>6. /\ rest = front \o back /\ rest \in Seq(Task)
          /\ Len(rest) = p + (n - k)
          /\ \A i \in 1..(p + (n - k)) :
                rest[i] = IF i <= p THEN front[i] ELSE back[i - p]
      <4>1. rest = front \o back
        BY <3>3 DEF front, back
      <4>2. /\ front \o back \in Seq(Task)
            /\ Len(front \o back) = Len(front) + Len(back)
            /\ \A i \in 1..(Len(front) + Len(back)) :
                  (front \o back)[i] = IF i <= Len(front) THEN front[i]
                                       ELSE back[i - Len(front)]
        BY <3>4, <3>5, Concatenation, Zenon
      <4> QED BY <4>1, <4>2, <3>4, <3>5
    <3> QED BY <3>1, <3>2, <3>4, <3>5, <3>6, <1>1
  <2> QED BY <2>1, <2>2
<1> HIDE DEF rest, k
<1>3. Distinct(rest)
  <2> SUFFICES ASSUME NEW i \in 1..(n-1), NEW j \in 1..(n-1), rest[i] = rest[j]
               PROVE  i = j
    BY <1>1, <1>2 DEF Distinct
  <2> DEFINE Was(x) == IF x < k THEN x ELSE x + 1
  <2>1. /\ Was(i) \in 1..n /\ Was(j) \in 1..n
        /\ list[Was(i)] = list[Was(j)]
    BY <1>1, <1>2
  <2>2. Was(i) = Was(j)
    <3> HIDE DEF Was
    <3> QED BY <2>1 DEF Distinct
  <2> QED BY <2>2, <1>1
<1>4. Entries(rest) = Entries(list) \ {t}
  <2>1. ASSUME NEW u \in Entries(rest) PROVE u \in Entries(list) \ {t}
    <3>1. PICK i \in 1..(n-1) : u = rest[i]
      BY <1>1, <1>2 DEF Entries
    <3>2. CASE i < k
      <4>1. u = list[i] /\ i \in 1..n /\ i # k
        BY <3>1, <3>2, <1>1, <1>2
      <4> QED BY <4>1, <1>1 DEF Entries, Distinct
    <3>3. CASE i >= k
      <4>1. u = list[i+1] /\ i + 1 \in 1..n /\ i + 1 # k
        BY <3>1, <3>3, <1>1, <1>2
      <4> QED BY <4>1, <1>1 DEF Entries, Distinct
    <3> QED BY <3>1, <3>2, <3>3, <1>1
  <2>2. ASSUME NEW u \in Entries(list), u # t PROVE u \in Entries(rest)
    <3>1. PICK i \in 1..n : u = list[i]
      BY <1>1 DEF Entries
    <3>2. CASE i < k
      BY <3>1, <3>2, <1>1, <1>2 DEF Entries
    <3>3. CASE i > k
      <4>1. i - 1 \in 1..(n-1) /\ rest[i-1] = u
        BY <3>1, <3>3, <1>1, <1>2
      <4> QED BY <4>1, <1>1, <1>2 DEF Entries
    <3> QED BY <3>1, <3>2, <3>3, <2>2, <1>1
  <2> QED BY <2>1, <2>2
<1>5. ahead # t /\ NextOf(list, t) = IF ahead = Nil THEN First(rest) ELSE NextOf(rest, ahead)
  <2>0. NextOf(list, t) = IF k = n THEN Nil ELSE list[k+1]
    BY DEF NextOf, k
  <2>1. CASE ahead = Nil
    <3>1. k = 1
      BY <1>1, <2>1, FirstEntry, PositionUnique DEF k
    <3>2. First(rest) = IF n = 1 THEN Nil ELSE list[2]
      BY <3>1, <1>1, <1>2 DEF First
    <3> QED BY <3>1, <3>2, <2>0, <2>1, <1>1
  <2>2. CASE ahead # Nil
    <3> DEFINE p == Position(list, ahead)
    <3>1. p \in 1..n /\ list[p] = ahead
      BY <2>2, PositionOfEntry
    <3>2. k = p + 1
      BY <1>1, <2>2, <3>1, PositionUnique DEF NextOf, k
    <3>3. rest[p] = ahead /\ p \in 1..(n-1)
      BY <3>1, <3>2, <1>1, <1>2
    <3>4. Position(rest, ahead) = p
      BY <3>3, <1>2, <1>3, PositionUnique, <1>1
    <3>5. NextOf(rest, ahead) = IF p = n - 1 THEN Nil ELSE rest[p+1]
      BY <3>4, <1>2 DEF NextOf
    <3>6. p # n - 1 => rest[p+1] = list[k+1]
      BY <3>1, <3>2, <3>3, <1>2
    <3>7. ahead # t
      BY <3>1, <3>2, <1>1 DEF Distinct
    <3> HIDE DEF p
    <3>8. NextOf(list, t) = NextOf(rest, ahead)
      BY <3>1, <3>2, <3>5, <3>6, <2>0, <1>1
    <3> QED BY <3>7, <3>8, <2>2
  <2> QED BY <2>1, <2>2
<1> QED BY <1>2, <1>3, <1>4, <1>5 DEF rest

-----------------------------------------------------------------------------
(* What the functions keep true of the structures.                         *)

\* t is started and not ended
Settled(s, t) == s.base[t] # 0 /\ ~ s.freeing[t]

Sound(s) ==
  /\ s \in GlobalType
  /\ s.active = Cardinality(Awake(s))
  /\ Distinct(s.tasks)
  /\ \A t \in Task : s.base[t] # 0 \/ s.freeing[t] => t \in Listed(s)
  /\ \A t \in Awake(s) : Settled(s, t)
  /\ s.handler # Nil => Settled(s, s.handler)
  /\ s.atomic \in Listed(s) \cup {Nil}

LEMMA CellSteps ==
  ASSUME NEW n \in 0..MaxCell
  PROVE  Inc(n) \in 0..MaxCell /\ Dec(n) \in 0..MaxCell
BY CycleAssumption DEF Inc, Dec

LEMMA CountUp ==
  ASSUME NEW A \in SUBSET Task, NEW t \in Task \ A
  PROVE  Inc(Cardinality(A)) = Cardinality(A \cup {t})
<1>1. IsFiniteSet(A) /\ Cardinality(A) <= Cardinality(Task) /\ Cardinality(A) \in Nat
  BY TaskAssumption, FS_Subset, FS_CardinalityType
<1>2. Cardinality(A \cup {t}) = Cardinality(A) + 1
  BY <1>1, FS_AddElement
<1>3. Cardinality(Task) \in Nat
  BY TaskAssumption, FS_CardinalityType
<1> QED BY <1>1, <1>2, <1>3, CycleAssumption DEF Inc

LEMMA CountDown ==
  ASSUME NEW A \in SUBSET Task, NEW t \in A
  PROVE  Dec(Cardinality(A)) = Cardinality(A \ {t})
<1>1. IsFiniteSet(A) /\ Cardinality(A) \in Nat
  BY TaskAssumption, FS_Subset, FS_CardinalityType
<1>2. Cardinality(A \ {t}) = Cardinality(A) - 1 /\ Cardinality(A \ {t}) \in Nat
  BY <1>1, FS_RemoveElement, FS_CardinalityType
<1> QED BY <1>1, <1>2 DEF Dec

\* r is s after functions that only grant, take or count the cycles of tasks
\* that keep them, and move the atomic section
Kept(s, r) ==
  /\ Sound(r)
  /\ r.tasks = s.tasks /\ r.base = s.base /\ r.freeing = s.freeing
  /\ r.term = s.term /\ r.handler = s.handler /\ r.current = s.current
  /\ Awake(s) \subseteq Awake(r)
  /\ \A u \in Task : r.left[u] # 0 => s.left[u] # 0

LEMMA KeptReflexive ==
  ASSUME NEW s, Sound(s) PROVE Kept(s, s)
BY DEF Kept

LEMMA KeptTransitive ==
  ASSUME NEW s, NEW r, NEW q, Kept(s, r), Kept(r, q) PROVE Kept(s, q)
BY DEF Kept

LEMMA YieldKept ==
  ASSUME NEW s, Sound(s), NEW t \in Task
  PROVE  Kept(s, Yield(s, t))
<1> DEFINE r == Yield(s, t)
<1>1. s \in GlobalType
  BY DEF Sound
<1>2. 0 \in 0..MaxCell /\ 0 \in 0..MaxExtra
  BY CycleAssumption
<1>3. r \in GlobalType
  BY <1>1, <1>2 DEF Yield, GlobalType
<1>4. /\ r.tasks = s.tasks /\ r.base = s.base /\ r.freeing = s.freeing
      /\ r.term = s.term /\ r.handler = s.handler /\ r.current = s.current
      /\ r.atomic = s.atomic /\ r.active = s.active /\ r.cby = s.cby
      /\ r.left = [s.left EXCEPT ![t] = 0]
  BY <1>1 DEF Yield, GlobalType
<1>5. s.left \in [Task -> 0..MaxCell]
  BY <1>1 DEF GlobalType
<1> HIDE DEF r
<1>6. \A u \in Task : r.left[u] # 0 => s.left[u] # 0
  BY <1>4, <1>5
<1>7. Awake(r) = Awake(s) /\ Listed(r) = Listed(s)
  BY <1>4 DEF Awake, Listed
<1>8. \A u : Settled(r, u) <=> Settled(s, u)
  BY <1>4 DEF Settled
<1> QED BY <1>3, <1>4, <1>6, <1>7, <1>8 DEF Kept, Sound, r

LEMMA ChargeKept ==
  ASSUME NEW s, Sound(s), s.current \in Task, s.left[s.current] # 0
  PROVE  Kept(s, Charge(s))
<1> DEFINE r == Charge(s)
<1>1. s \in GlobalType
  BY DEF Sound
<1>2. s.left \in [Task -> 0..MaxCell] /\ Dec(s.left[s.current]) \in 0..MaxCell
  BY <1>1, CellSteps DEF GlobalType
<1>3. r \in GlobalType
  BY <1>1, <1>2 DEF Charge, GlobalType
<1>4. /\ r.tasks = s.tasks /\ r.base = s.base /\ r.freeing = s.freeing
      /\ r.term = s.term /\ r.handler = s.handler /\ r.current = s.current
      /\ r.atomic = s.atomic /\ r.active = s.active /\ r.cby = s.cby
      /\ r.left = [s.left EXCEPT ![s.current] = Dec(@)]
  BY <1>1 DEF Charge, GlobalType
<1> HIDE DEF r
<1>5. \A u \in Task : r.left[u] # 0 => s.left[u] # 0
  BY <1>4, <1>2
<1>6. Awake(r) = Awake(s) /\ Listed(r) = Listed(s)
  BY <1>4 DEF Awake, Listed
<1>7. \A u : Settled(r, u) <=> Settled(s, u)
  BY <1>4 DEF Settled
<1> QED BY <1>3, <1>4, <1>5, <1>6, <1>7 DEF Kept, Sound, r

LEMMA WakeKept ==
  ASSUME NEW s, Sound(s), NEW t \in Task, s.base[t] # 0
  PROVE  Kept(s, Wake(s, t))
<1> DEFINE r == Wake(s, t)
<1>1. s \in GlobalType
  BY DEF Sound
<1>2. CASE s.cby[t] = 0 /\ ~ s.freeing[t]
  <2>1. Inc(s.active) \in 0..MaxCell
    BY <1>1, CellSteps DEF GlobalType
  <2>2. r \in GlobalType
    BY <1>1, <1>2, <2>1, ZenonT(120) DEF Wake, Schedule, GlobalType
  <2>3. /\ r.tasks = s.tasks /\ r.base = s.base /\ r.freeing = s.freeing
        /\ r.term = s.term /\ r.handler = s.handler /\ r.current = s.current
        /\ r.atomic = s.atomic /\ r.left = s.left /\ r.active = Inc(s.active)
        /\ r.cby = [s.cby EXCEPT ![t] = s.base[t]]
    BY <1>1, <1>2 DEF Wake, Schedule, GlobalType
  <2>4. s.cby \in [Task -> {0, DefaultCycles}]
    BY <1>1 DEF GlobalType
  <2> HIDE DEF r
  <2>5. Awake(r) = Awake(s) \cup {t} /\ t \notin Awake(s)
    BY <1>2, <2>3, <2>4 DEF Awake
  <2>6. r.active = Cardinality(Awake(r))
    <3>1. Awake(s) \in SUBSET Task /\ t \in Task \ Awake(s)
      BY <2>5 DEF Awake
    <3> QED BY <3>1, <2>3, <2>5, CountUp DEF Sound
  <2>7. Listed(r) = Listed(s) /\ \A u : Settled(r, u) <=> Settled(s, u)
    BY <2>3 DEF Settled, Listed
  <2>8. Settled(s, t)
    BY <1>2 DEF Settled
  <2> QED BY <2>2, <2>3, <2>5, <2>6, <2>7, <2>8 DEF Kept, Sound, r
<1>3. CASE ~ (s.cby[t] = 0 /\ ~ s.freeing[t])
  BY <1>3, KeptReflexive DEF Wake
<1> QED BY <1>2, <1>3


\* nesting_level and atomic_task may take any value of their types
LEMMA OwnershipKept ==
  ASSUME NEW s, Sound(s), NEW t \in Task, NEW l \in Int, NEW a \in Listed(s) \cup {Nil}
  PROVE  Kept(s, [s EXCEPT !.nesting[t] = l, !.atomic = a])
<1> DEFINE r == [s EXCEPT !.nesting[t] = l, !.atomic = a]
<1>1. s \in GlobalType /\ a \in Task \cup {Nil}
  BY DEF Sound, GlobalType, Listed
<1>2. r \in GlobalType
  BY <1>1 DEF GlobalType
<1>3. /\ r.tasks = s.tasks /\ r.base = s.base /\ r.freeing = s.freeing
      /\ r.term = s.term /\ r.handler = s.handler /\ r.current = s.current
      /\ r.atomic = a /\ r.active = s.active /\ r.cby = s.cby
      /\ r.left = s.left
  BY <1>1 DEF GlobalType
<1> HIDE DEF r
<1>4. Awake(r) = Awake(s) /\ Listed(r) = Listed(s)
  BY <1>3 DEF Awake, Listed
<1>5. \A u : Settled(r, u) <=> Settled(s, u)
  BY <1>3 DEF Settled
<1> QED BY <1>2, <1>3, <1>4, <1>5 DEF Kept, Sound, r

\* TERMINATE schedules a waiting task that has a terminate word
LEMMA TerminateKept ==
  ASSUME NEW s, Sound(s), NEW t \in Task, s.term[t], s.base[t] # 0
  PROVE  Kept(s, Terminate(s, t))
<1>1. s \in GlobalType /\ s.base \in [Task -> {0, DefaultCycles}]
  BY DEF Sound, GlobalType
<1>2. CASE s.cby[t] = 0 /\ ~ s.freeing[t]
  <2>1. s.base[t] = DefaultCycles
    BY <1>1
  <2>2. Terminate(s, t) = Wake(s, t)
    BY <1>2, <2>1 DEF Terminate, Wake
  <2> QED BY <2>2, WakeKept
<1>3. CASE ~ (s.cby[t] = 0 /\ ~ s.freeing[t])
  BY <1>3, KeptReflexive DEF Terminate
<1> QED BY <1>2, <1>3

LEMMA MakeAtomicKept ==
  ASSUME NEW s, Sound(s), NEW t \in Task, s.base[t] # 0
  PROVE  Kept(s, MakeAtomic(s, t))
<1> DEFINE owned == [s EXCEPT !.nesting[t] = -1, !.atomic = t]
           ready == IF s.current = Nil THEN owned ELSE Yield(owned, s.current)
<1>1. t \in Listed(s) /\ s.current \in Task \cup {Nil}
  BY DEF Sound, GlobalType
<1>2. Kept(s, owned)
  <2>1. -1 \in Int /\ t \in Listed(s) \cup {Nil}
    BY <1>1
  <2> QED BY <2>1, OwnershipKept, Zenon
<1>3. Kept(s, ready)
  <2> HIDE DEF owned
  <2>1. Sound(owned)
    BY <1>2 DEF Kept
  <2> QED BY <1>1, <1>2, <2>1, YieldKept, KeptTransitive
<1>4. MakeAtomic(s, t) = IF s.current = t THEN owned ELSE Wake(ready, t)
  BY DEF MakeAtomic
<1> HIDE DEF owned, ready
<1>5. Sound(ready) /\ ready.base[t] # 0
  BY <1>3 DEF Kept
<1>6. Kept(s, Wake(ready, t))
  BY <1>3, <1>5, WakeKept, KeptTransitive
<1> QED BY <1>2, <1>4, <1>6

LEMMA NestingLevelInt ==
  ASSUME NEW s, Sound(s), s.tasks # <<>>
  PROVE  NestingLevel(s) \in Int
<1> DEFINE S == Alive(s) \cup {First(s.tasks)}
           levels == {s.nesting[t] : t \in S}
<1>1. s.tasks \in Seq(Task) /\ s.nesting \in [Task -> Int]
  BY DEF Sound, GlobalType
<1>2. First(s.tasks) \in Task
  BY <1>1, FirstEntry DEF Entries
<1>3. S \subseteq Task /\ IsFiniteSet(S) /\ S # {}
  BY <1>1, <1>2, TaskAssumption, FS_Subset DEF Alive, Listed
<1>4. levels \subseteq Int /\ levels # {}
  BY <1>1, <1>3
<1>5. IsFiniteSet(levels)
  <2> DEFINE f == [t \in S |-> s.nesting[t]]
  <2>1. f \in Surjection(S, levels)
    BY DEF Surjection
  <2> HIDE DEF S, levels, f
  <2> QED BY <2>1, <1>3, FS_Surjection, Zenon
<1>6. \E l \in levels : \A m \in levels : m <= l
  <2> HIDE DEF levels
  <2> QED BY <1>4, <1>5, MaxExists
<1> QED BY <1>4, <1>6 DEF NestingLevel

LEMMA BeginAtomicKept ==
  ASSUME NEW s, Sound(s), NEW t \in Task, s.base[t] # 0
  PROVE  Kept(s, BeginAtomic(s, t))
<1>1. CASE s.atomic = Nil
  BY <1>1, MakeAtomicKept DEF BeginAtomic
<1>2. CASE s.atomic # Nil /\ s.nesting[t] < 0 /\ t # s.atomic
  <2> DEFINE l == IF NestingLevel(s) < 0 THEN 0 ELSE NestingLevel(s) + 1
  <2>1. s.tasks # <<>> /\ s.atomic \in Listed(s)
    BY <1>2 DEF Sound, Listed
  <2>2. l \in Int
    BY <2>1, NestingLevelInt
  <2>3. BeginAtomic(s, t) = [s EXCEPT !.nesting[t] = l]
    BY <1>2 DEF BeginAtomic
  <2> HIDE DEF l
  <2>4. BeginAtomic(s, t) = [s EXCEPT !.nesting[t] = l, !.atomic = s.atomic]
    BY <2>3 DEF Sound, GlobalType
  <2>5. s.atomic \in Listed(s) \cup {Nil}
    BY <2>1
  <2>6. Kept(s, [s EXCEPT !.nesting[t] = l, !.atomic = s.atomic])
    BY <2>2, <2>5, OwnershipKept, Zenon
  <2> QED BY <2>4, <2>6, Zenon
<1>3. CASE s.atomic # Nil /\ ~ (s.nesting[t] < 0 /\ t # s.atomic)
  BY <1>3, KeptReflexive DEF BeginAtomic
<1> QED BY <1>1, <1>2, <1>3

LEMMA EndAtomicKept ==
  ASSUME NEW s, Sound(s), NEW t \in Task, s.nesting \in [Task -> Int],
         NEW next \in Task \cup {Nil}, next # Nil => s.base[next] # 0
  PROVE  Kept(s, EndAtomic(s, t, next))
<1>1. CASE t # s.atomic
  BY <1>1, KeptReflexive DEF EndAtomic
<1>2. CASE t = s.atomic /\ next # Nil /\ next # s.current
  BY <1>2, MakeAtomicKept DEF EndAtomic
<1>3. CASE t = s.atomic /\ ~ (next # Nil /\ next # s.current)
  <2>1. EndAtomic(s, t, next) = [s EXCEPT !.nesting[t] = s.nesting[t], !.atomic = Nil]
    BY <1>3 DEF EndAtomic, Sound, GlobalType
  <2>2. s.nesting[t] \in Int
    OBVIOUS
  <2>3. Nil \in Listed(s) \cup {Nil}
    OBVIOUS
  <2>4. Kept(s, [s EXCEPT !.nesting[t] = s.nesting[t], !.atomic = Nil])
    BY <2>2, <2>3, OwnershipKept, Zenon
  <2> QED BY <2>1, <2>4, Zenon
<1> QED BY <1>1, <1>2, <1>3

LEMMA NotifyHandlerKept ==
  ASSUME NEW s, Sound(s)
  PROVE  Kept(s, NotifyHandler(s))
<1>1. CASE s.handler # Nil /\ ~ s.freeing[s.handler]
  <2>1. s.handler \in Task /\ s.base[s.handler] # 0
    BY <1>1 DEF Sound, GlobalType, Settled
  <2> QED BY <1>1, <2>1, BeginAtomicKept DEF NotifyHandler
<1>2. CASE ~ (s.handler # Nil /\ ~ s.freeing[s.handler])
  BY <1>2, KeptReflexive DEF NotifyHandler
<1> QED BY <1>1, <1>2


-----------------------------------------------------------------------------
(* The functions that start, stop and end tasks.                           *)

Running(s, u) == s.left[u] # 0 => u \in Awake(s)

\* r is s after a function that ends the tasks of dead and no others
Moves(s, r, dead) ==
  /\ Sound(r)
  /\ r.current = s.current
  /\ Listed(s) \subseteq Listed(r)
  /\ \A u \in Task \ dead : Settled(s, u) => Settled(r, u)
  /\ \A u \in Task : Running(s, u) => Running(r, u)

LEMMA KeptMoves ==
  ASSUME NEW s, NEW r, Kept(s, r) PROVE Moves(s, r, {})
BY DEF Kept, Moves, Settled, Running, Listed

LEMMA MovesTransitive ==
  ASSUME NEW s, NEW r, NEW q, NEW D, NEW E, Moves(s, r, D), Moves(r, q, E)
  PROVE  Moves(s, q, D \cup E)
BY DEF Moves

LEMMA ListedTasks ==
  ASSUME NEW s, Sound(s)
  PROVE  /\ s.tasks \in Seq(Task) /\ Listed(s) \subseteq Task
         /\ Listed(s) = Entries(s.tasks)
<1>1. s.tasks \in Seq(Task)
  BY DEF Sound, GlobalType
<1> QED BY <1>1 DEF Listed, Entries

LEMMA StartMoves ==
  ASSUME NEW s, Sound(s), NEW t \in Listed(s)
  PROVE  Moves(s, Start(s, t), {})
<1> DEFINE r == Start(s, t)
<1>1. s \in GlobalType /\ t \in Task
  BY ListedTasks DEF Sound
<1>2. CASE s.base[t] = 0 /\ ~ s.freeing[t]
  <2>1. Inc(s.active) \in 0..MaxCell
    BY <1>1, CellSteps DEF GlobalType
  <2>2. DefaultCycles \in 0..MaxCell /\ DefaultCycles # 0
    BY CycleAssumption
  <2>3. r \in GlobalType
    BY <1>1, <1>2, <2>1, <2>2, ZenonT(120) DEF Start, Schedule, GlobalType
  <2>4. /\ r.tasks = s.tasks /\ r.freeing = s.freeing /\ r.term = s.term
        /\ r.handler = s.handler /\ r.current = s.current /\ r.atomic = s.atomic
        /\ r.base = [s.base EXCEPT ![t] = DefaultCycles]
        /\ r.cby = [s.cby EXCEPT ![t] = DefaultCycles]
        /\ r.left = [s.left EXCEPT ![t] = DefaultCycles]
        /\ r.active = Inc(s.active)
    BY <1>1, <1>2 DEF Start, Schedule, GlobalType
  <2>5. /\ s.cby \in [Task -> {0, DefaultCycles}]
        /\ s.base \in [Task -> {0, DefaultCycles}]
        /\ s.left \in [Task -> 0..MaxCell]
    BY <1>1 DEF GlobalType
  <2> HIDE DEF r
  <2>6. t \notin Awake(s)
    BY <1>2 DEF Sound, Settled
  <2>7. Awake(r) = Awake(s) \cup {t}
    BY <1>1, <2>2, <2>4, <2>5 DEF Awake
  <2>8. r.active = Cardinality(Awake(r))
    <3>1. Awake(s) \in SUBSET Task /\ t \in Task \ Awake(s)
      BY <1>1, <2>6 DEF Awake
    <3> QED BY <3>1, <2>4, <2>7, CountUp DEF Sound
  <2>9. Listed(r) = Listed(s)
    BY <2>4 DEF Listed
  <2>10. /\ \A u \in Task : Settled(s, u) => Settled(r, u)
         /\ Settled(r, t)
    BY <1>1, <1>2, <2>2, <2>4, <2>5 DEF Settled
  <2>11. Sound(r)
    <3>1. \A u \in Task : r.base[u] # 0 \/ r.freeing[u] => u \in Listed(r)
      BY <2>4, <2>5, <2>9 DEF Sound
    <3>2. \A u \in Awake(r) : Settled(r, u)
      BY <2>7, <2>10 DEF Sound, Awake
    <3>3. r.handler # Nil => Settled(r, r.handler)
      BY <1>1, <2>4, <2>10 DEF Sound, GlobalType
    <3> QED BY <2>3, <2>4, <2>8, <2>9, <3>1, <3>2, <3>3 DEF Sound
  <2>12. \A u \in Task : Running(s, u) => Running(r, u)
    BY <2>4, <2>5, <2>7 DEF Running
  <2> QED BY <2>4, <2>9, <2>10, <2>11, <2>12 DEF Moves, r
<1>3. CASE ~ (s.base[t] = 0 /\ ~ s.freeing[t])
  BY <1>3, KeptReflexive, KeptMoves DEF Start
<1> QED BY <1>2, <1>3

LEMMA WaitMoves ==
  ASSUME NEW s, Sound(s), NEW t \in Awake(s)
  PROVE  Moves(s, Wait(s, t), {})
<1> DEFINE r == Wait(s, t)
<1>1. s \in GlobalType /\ t \in Task
  BY DEF Sound, Awake
<1>2. /\ s.cby \in [Task -> {0, DefaultCycles}]
      /\ s.left \in [Task -> 0..MaxCell]
      /\ s.extra \in [Task -> 0..MaxExtra]
  BY <1>1 DEF GlobalType
<1>3. /\ 0 \in 0..MaxCell
      /\ Dec(s.active) \in 0..MaxCell
      /\ AtMost(Plus(s.extra[t], s.left[t]), MaxExtra) \in 0..MaxExtra
  <2>1. 0 \in 0..MaxCell /\ Dec(s.active) \in 0..MaxCell
    BY <1>1, CellSteps, CycleAssumption DEF GlobalType
  <2>2. Plus(s.extra[t], s.left[t]) \in Nat
    BY <1>1, <1>2, CycleAssumption DEF Plus
  <2>3. AtMost(Plus(s.extra[t], s.left[t]), MaxExtra) \in 0..MaxExtra
    BY <2>2, CycleAssumption DEF AtMost
  <2> QED BY <2>1, <2>3
<1>4. r \in GlobalType
  BY <1>1, <1>3 DEF Wait, Deschedule, GlobalType
<1>5. /\ r.tasks = s.tasks /\ r.freeing = s.freeing /\ r.term = s.term
      /\ r.handler = s.handler /\ r.current = s.current /\ r.atomic = s.atomic
      /\ r.base = s.base
      /\ r.cby = [s.cby EXCEPT ![t] = 0]
      /\ r.left = [s.left EXCEPT ![t] = 0]
      /\ r.active = Dec(s.active)
  BY <1>1 DEF Wait, Deschedule, GlobalType
<1> HIDE DEF r
<1>6. Awake(r) = Awake(s) \ {t}
  BY <1>1, <1>2, <1>5 DEF Awake
<1>7. r.active = Cardinality(Awake(r))
  <2>1. Awake(s) \in SUBSET Task
    BY DEF Awake
  <2> QED BY <2>1, <1>5, <1>6, CountDown DEF Sound
<1>8. Listed(r) = Listed(s) /\ \A u : Settled(r, u) <=> Settled(s, u)
  BY <1>5 DEF Listed, Settled
<1>9. \A u \in Task : Running(s, u) => Running(r, u)
  BY <1>2, <1>5, <1>6 DEF Running
<1> QED BY <1>4, <1>5, <1>6, <1>7, <1>8, <1>9 DEF Moves, Sound, r

LEMMA KillFrame ==
  ASSUME NEW s, Sound(s), NEW t \in Awake(s), t # s.handler
  PROVE  LET r == Kill(s, t) IN
         /\ Sound(r)
         /\ r.tasks = s.tasks /\ r.base = s.base /\ r.term = s.term
         /\ r.handler = s.handler /\ r.current = s.current
         /\ r.freeing = [s.freeing EXCEPT ![t] = TRUE]
         /\ Awake(s) \ {t} \subseteq Awake(r)
         /\ \A u \in Task : r.left[u] # 0 => s.left[u] # 0 /\ u # t
<1> DEFINE dead == Deschedule([s EXCEPT !.cby[t] = 0, !.left[t] = 0,
                                        !.freeing[t] = TRUE, !.count = Dec(@)])
<1>1. s \in GlobalType /\ t \in Task
  BY DEF Sound, Awake
<1>2. /\ s.cby \in [Task -> {0, DefaultCycles}]
      /\ s.left \in [Task -> 0..MaxCell]
      /\ s.freeing \in [Task -> BOOLEAN]
  BY <1>1 DEF GlobalType
<1>3. 0 \in 0..MaxCell /\ Dec(s.active) \in 0..MaxCell /\ Dec(s.count) \in 0..MaxCell
  BY <1>1, CellSteps, CycleAssumption DEF GlobalType
<1>4. dead \in GlobalType
  BY <1>1, <1>3 DEF Deschedule, GlobalType
<1>5. /\ dead.tasks = s.tasks /\ dead.base = s.base /\ dead.term = s.term
      /\ dead.handler = s.handler /\ dead.current = s.current
      /\ dead.atomic = s.atomic
      /\ dead.freeing = [s.freeing EXCEPT ![t] = TRUE]
      /\ dead.cby = [s.cby EXCEPT ![t] = 0]
      /\ dead.left = [s.left EXCEPT ![t] = 0]
      /\ dead.active = Dec(s.active)
  BY <1>1 DEF Deschedule, GlobalType
<1>6. Kill(s, t) = NotifyHandler(dead)
  BY DEF Kill
<1> HIDE DEF dead
<1>7. Awake(dead) = Awake(s) \ {t}
  BY <1>1, <1>2, <1>5 DEF Awake
<1>8. dead.active = Cardinality(Awake(dead))
  <2>1. Awake(s) \in SUBSET Task
    BY DEF Awake
  <2> QED BY <2>1, <1>5, <1>7, CountDown DEF Sound
<1>9. Listed(dead) = Listed(s)
  BY <1>5 DEF Listed
<1>10. \A u \in Task \ {t} : Settled(s, u) => Settled(dead, u)
  BY <1>2, <1>5 DEF Settled
<1>11. Sound(dead)
  <2>1. \A u \in Task : dead.base[u] # 0 \/ dead.freeing[u] => u \in Listed(dead)
    <3>1. t \in Listed(s)
      BY <1>1 DEF Sound, Settled
    <3> QED BY <1>2, <1>5, <1>9, <3>1 DEF Sound
  <2>2. \A u \in Awake(dead) : Settled(dead, u)
    BY <1>7, <1>10 DEF Sound, Awake
  <2>3. dead.handler # Nil => Settled(dead, dead.handler)
    BY <1>1, <1>5, <1>10 DEF Sound, GlobalType
  <2> QED BY <1>4, <1>5, <1>8, <1>9, <2>1, <2>2, <2>3 DEF Sound
<1>12. Kept(dead, Kill(s, t))
  BY <1>6, <1>11, NotifyHandlerKept
<1>13. \A u \in Task : dead.left[u] # 0 => s.left[u] # 0 /\ u # t
  BY <1>2, <1>5
<1> DEFINE r == Kill(s, t)
<1>14. Kept(dead, r)
  BY <1>12
<1> HIDE DEF r
<1>15. /\ Sound(r)
       /\ r.tasks = s.tasks /\ r.base = s.base /\ r.term = s.term
       /\ r.handler = s.handler /\ r.current = s.current
       /\ r.freeing = [s.freeing EXCEPT ![t] = TRUE]
       /\ Awake(s) \ {t} \subseteq Awake(r)
       /\ \A u \in Task : r.left[u] # 0 => s.left[u] # 0 /\ u # t
  BY <1>5, <1>7, <1>13, <1>14 DEF Kept
<1> QED BY <1>15 DEF r

LEMMA KillMoves ==
  ASSUME NEW s, Sound(s), NEW t \in Awake(s), t # s.handler
  PROVE  Moves(s, Kill(s, t), {t})
<1> DEFINE r == Kill(s, t)
<1>1. /\ Sound(r)
      /\ r.tasks = s.tasks /\ r.base = s.base /\ r.term = s.term
      /\ r.handler = s.handler /\ r.current = s.current
      /\ r.freeing = [s.freeing EXCEPT ![t] = TRUE]
      /\ Awake(s) \ {t} \subseteq Awake(r)
      /\ \A u \in Task : r.left[u] # 0 => s.left[u] # 0 /\ u # t
  BY KillFrame
<1>2. s.freeing \in [Task -> BOOLEAN]
  BY DEF Sound, GlobalType
<1> HIDE DEF r
<1>3. Listed(s) \subseteq Listed(r)
  BY <1>1 DEF Listed
<1>4. \A u \in Task \ {t} : Settled(s, u) => Settled(r, u)
  BY <1>1, <1>2 DEF Settled
<1>5. \A u \in Task : Running(s, u) => Running(r, u)
  BY <1>1 DEF Running
<1> QED BY <1>1, <1>3, <1>4, <1>5 DEF Moves, r


\* a task with a terminate word is woken, one without is killed
LEMMA TerminateMoves ==
  ASSUME NEW s, Sound(s), NEW t \in Task, ~ s.freeing[t],
         IF s.term[t] THEN s.base[t] # 0 ELSE t \in Awake(s) /\ t # s.handler
  PROVE  Moves(s, Terminate(s, t), IF s.term[t] THEN {} ELSE {t})
<1>1. CASE ~ s.term[t]
  <2>1. Terminate(s, t) = Kill(s, t)
    BY <1>1 DEF Terminate
  <2>2. t \in Awake(s) /\ t # s.handler
    BY <1>1
  <2>3. Moves(s, Kill(s, t), {t})
    BY <2>2, KillMoves
  <2> QED BY <1>1, <2>1, <2>3
<1>2. CASE s.term[t]
  <2>1. Kept(s, Terminate(s, t))
    BY <1>2, TerminateKept
  <2> QED BY <1>2, <2>1, KeptMoves
<1> QED BY <1>1, <1>2

LEMMA ResetMoves ==
  ASSUME NEW s, Sound(s), NEW t \in Awake(s), NEW aborts \in BOOLEAN,
         aborts \/ t # s.handler
  PROVE  Moves(s, Reset(s, t, aborts), IF aborts THEN {} ELSE {t})
<1> DEFINE fresh == [s EXCEPT !.base[t] = DefaultCycles, !.extra[t] = 0,
                              !.cby[t] = DefaultCycles]
<1>1. s \in GlobalType /\ t \in Task
  BY DEF Sound, Awake
<1>2. /\ s.cby \in [Task -> {0, DefaultCycles}]
      /\ s.base \in [Task -> {0, DefaultCycles}]
  BY <1>1 DEF GlobalType
<1>3. s.cby[t] = DefaultCycles /\ s.base[t] = DefaultCycles
  BY <1>1, <1>2 DEF Sound, Settled, Awake
<1>4. 0 \in 0..MaxExtra
  BY CycleAssumption
<1>5. fresh \in GlobalType
  BY <1>1, <1>4 DEF GlobalType
<1>6. /\ fresh.tasks = s.tasks /\ fresh.freeing = s.freeing /\ fresh.term = s.term
      /\ fresh.handler = s.handler /\ fresh.current = s.current
      /\ fresh.atomic = s.atomic /\ fresh.left = s.left /\ fresh.active = s.active
      /\ fresh.base = [s.base EXCEPT ![t] = DefaultCycles]
      /\ fresh.cby = [s.cby EXCEPT ![t] = DefaultCycles]
  BY <1>1 DEF GlobalType
<1>7. Reset(s, t, aborts) = IF aborts THEN fresh ELSE Kill(fresh, t)
  BY DEF Reset
<1> HIDE DEF fresh
<1>8. fresh.base = s.base /\ fresh.cby = s.cby
  BY <1>2, <1>3, <1>6
<1>9. Awake(fresh) = Awake(s) /\ Listed(fresh) = Listed(s)
  BY <1>6, <1>8 DEF Awake, Listed
<1>10. \A u : Settled(fresh, u) <=> Settled(s, u)
  BY <1>6, <1>8 DEF Settled
<1>11. Kept(s, fresh)
  BY <1>5, <1>6, <1>8, <1>9, <1>10 DEF Kept, Sound
<1>12. Moves(s, fresh, {})
  BY <1>11, KeptMoves
<1>13. CASE aborts
  BY <1>7, <1>12, <1>13
<1>14. CASE ~ aborts
  <2>1. Sound(fresh) /\ t \in Awake(fresh) /\ t # fresh.handler
    BY <1>6, <1>9, <1>11, <1>14 DEF Kept
  <2>2. Moves(fresh, Kill(fresh, t), {t})
    BY <2>1, KillMoves
  <2>3. Moves(s, Kill(fresh, t), {} \cup {t})
    BY <1>12, <2>2, MovesTransitive
  <2>4. {} \cup {t} = {t}
    OBVIOUS
  <2> QED BY <1>7, <1>14, <2>3, <2>4
<1> QED BY <1>13, <1>14

\* a list with a new head
LEMMA PushedList ==
  ASSUME NEW list \in Seq(Task), Distinct(list), NEW t \in Task \ Entries(list)
  PROVE  LET more == <<t>> \o list IN
         /\ more \in Seq(Task) /\ Distinct(more)
         /\ Entries(more) = Entries(list) \cup {t}
<1> DEFINE more == <<t>> \o list
           n == Len(list)
<1>1. /\ more \in Seq(Task) /\ Len(more) = n + 1 /\ n \in Nat
      /\ \A i \in 1..(n+1) : more[i] = IF i = 1 THEN t ELSE list[i-1]
  OBVIOUS
<1>2. \A i \in 1..n : list[i] # t
  BY DEF Entries
<1> HIDE DEF more
<1>3. Distinct(more)
  <2> SUFFICES ASSUME NEW i \in 1..(n+1), NEW j \in 1..(n+1), more[i] = more[j]
               PROVE  i = j
    BY <1>1 DEF Distinct
  <2>1. \A a, b \in 1..n : list[a] = list[b] => a = b
    BY DEF Distinct
  <2> QED BY <1>1, <1>2, <2>1
<1>4. Entries(more) = Entries(list) \cup {t}
  <2>1. ASSUME NEW u \in Entries(more) PROVE u \in Entries(list) \cup {t}
    <3>1. PICK i \in 1..(n+1) : u = more[i]
      BY <1>1 DEF Entries
    <3> QED BY <1>1, <3>1 DEF Entries
  <2>2. ASSUME NEW u \in Entries(list) PROVE u \in Entries(more)
    <3>1. PICK i \in 1..n : u = list[i]
      BY DEF Entries
    <3>2. i + 1 \in 1..(n+1) /\ more[i+1] = u
      BY <1>1, <3>1
    <3>3. i + 1 \in DOMAIN more
      BY <1>1, <3>2
    <3> QED BY <3>2, <3>3, Zenon DEF Entries
  <2>3. t \in Entries(more)
    <3>1. 1 \in 1..(n+1) /\ more[1] = t
      BY <1>1
    <3> QED BY <1>1, <3>1 DEF Entries
  <2> QED BY <2>1, <2>2, <2>3
<1> QED BY <1>1, <1>3, <1>4 DEF more

LEMMA SpawnMoves ==
  ASSUME NEW s, Sound(s), NEW t \in Task \ Listed(s)
  PROVE  Moves(s, Spawn(s, t), {}) /\ t \in Listed(Spawn(s, t))
<1> DEFINE born == [s EXCEPT !.tasks = <<t>> \o @, !.base[t] = 0, !.extra[t] = 0,
              !.cby[t] = 0, !.left[t] = 0, !.freeing[t] = FALSE,
              !.nesting[t] = -1, !.term[t] = FALSE, !.count = Inc(@)]
           more == <<t>> \o s.tasks
<1>1. s \in GlobalType
  BY DEF Sound
<1>2. /\ s.cby \in [Task -> {0, DefaultCycles}]
      /\ s.base \in [Task -> {0, DefaultCycles}]
      /\ s.left \in [Task -> 0..MaxCell]
      /\ s.freeing \in [Task -> BOOLEAN]
  BY <1>1 DEF GlobalType
<1>3. t \in Task /\ s.base[t] = 0 /\ s.freeing[t] = FALSE /\ s.cby[t] = 0
  BY <1>2 DEF Sound, Settled, Awake
<1>4. more \in Seq(Task) /\ Distinct(more) /\ Entries(more) = Listed(s) \cup {t}
  BY ListedTasks, PushedList DEF Sound
<1>5. -1 \in Int /\ 0 \in 0..MaxCell /\ 0 \in 0..MaxExtra /\ Inc(s.count) \in 0..MaxCell
  BY <1>1, CellSteps, CycleAssumption DEF GlobalType
<1>6. born \in GlobalType
  <2> HIDE DEF more
  <2>1. born = [s EXCEPT !.tasks = more, !.base[t] = 0, !.extra[t] = 0,
              !.cby[t] = 0, !.left[t] = 0, !.freeing[t] = FALSE,
              !.nesting[t] = -1, !.term[t] = FALSE, !.count = Inc(@)]
    BY DEF more
  <2> QED BY <1>1, <1>3, <1>4, <1>5, <2>1, ZenonT(200) DEF GlobalType
<1>7. /\ born.tasks = more /\ born.handler = s.handler /\ born.current = s.current
      /\ born.atomic = s.atomic /\ born.active = s.active
      /\ born.base = [s.base EXCEPT ![t] = 0]
      /\ born.cby = [s.cby EXCEPT ![t] = 0]
      /\ born.left = [s.left EXCEPT ![t] = 0]
      /\ born.freeing = [s.freeing EXCEPT ![t] = FALSE]
  BY <1>1 DEF GlobalType
<1>8. Spawn(s, t) = NotifyHandler(born)
  BY DEF Spawn
<1> HIDE DEF born, more
<1>9. born.base = s.base /\ born.cby = s.cby /\ born.freeing = s.freeing
  <2>1. born.base = s.base /\ born.cby = s.cby
    BY <1>2, <1>3, <1>7
  <2>2. born.freeing = s.freeing
    <3>1. born.freeing \in [Task -> BOOLEAN]
      BY <1>6 DEF GlobalType
    <3>2. \A u \in Task : born.freeing[u] = s.freeing[u]
      BY <1>2, <1>3, <1>7, Zenon
    <3> QED BY <1>2, <3>1, <3>2
  <2> QED BY <2>1, <2>2
<1>10. Awake(born) = Awake(s) /\ \A u : Settled(born, u) <=> Settled(s, u)
  BY <1>9 DEF Awake, Settled
<1>11. Listed(born) = Listed(s) \cup {t}
  <2>1. Listed(born) = Entries(more)
    BY <1>7 DEF Listed, Entries
  <2> QED BY <1>4, <2>1
<1>12. Sound(born)
  BY <1>4, <1>6, <1>7, <1>9, <1>10, <1>11 DEF Sound
<1>13. \A u \in Task : Running(s, u) => Running(born, u)
  BY <1>2, <1>7, <1>10 DEF Running
<1>14. Moves(s, born, {})
  BY <1>7, <1>10, <1>11, <1>12, <1>13 DEF Moves
<1>15. Moves(born, Spawn(s, t), {})
  BY <1>8, <1>12, NotifyHandlerKept, KeptMoves
<1>16. Moves(s, Spawn(s, t), {} \cup {})
  BY <1>14, <1>15, MovesTransitive
<1>17. {} \cup {} = {}
  OBVIOUS
<1>18. t \in Listed(Spawn(s, t))
  BY <1>11, <1>15 DEF Moves
<1> QED BY <1>16, <1>17, <1>18


-----------------------------------------------------------------------------
(* The sweeps and the slices.                                              *)

\* freeing the walked task, dead and off duty, loses that task alone
LEMMA FreeSound ==
  ASSUME NEW s, Sound(s), NEW t \in Listed(s), s.freeing[t],
         NEW ahead \in Listed(s) \cup {Nil},
         t = IF ahead = Nil THEN First(s.tasks) ELSE NextOf(s.tasks, ahead)
  PROVE  LET r == Free(s, ahead, t) IN
         /\ Sound(r)
         /\ r.current = s.current
         /\ Listed(r) = Listed(s) \ {t}
         /\ \A u \in Task : Settled(s, u) => Settled(r, u)
         /\ Awake(r) = Awake(s)
         /\ ahead # t
         /\ NextOf(s.tasks, t) = IF ahead = Nil THEN First(r.tasks)
                                 ELSE NextOf(r.tasks, ahead)
<1> DEFINE rest == Unlink(s.tasks, ahead, t)
           r == Free(s, ahead, t)
           owner == IF s.atomic = t THEN Nil ELSE s.atomic
<1>1. s \in GlobalType /\ t \in Task /\ Nil \notin Task
  BY ListedTasks, TaskAssumption DEF Sound
<1>2. /\ rest \in Seq(Task) /\ Distinct(rest)
      /\ Entries(rest) = Listed(s) \ {t}
      /\ ahead # t
      /\ NextOf(s.tasks, t) = IF ahead = Nil THEN First(rest) ELSE NextOf(rest, ahead)
  BY <1>1, ListedTasks, UnlinkOne DEF Sound
<1>3. /\ s.cby \in [Task -> {0, DefaultCycles}]
      /\ s.base \in [Task -> {0, DefaultCycles}]
      /\ s.freeing \in [Task -> BOOLEAN]
  BY <1>1 DEF GlobalType
<1>4. -1 \in Int /\ 0 \in 0..MaxCell /\ 0 \in 0..MaxExtra
      /\ owner \in Task \cup {Nil}
  BY <1>1, CycleAssumption DEF GlobalType
<1>5. r = [s EXCEPT !.tasks = rest, !.atomic = owner,
            !.base[t] = 0, !.extra[t] = 0, !.cby[t] = 0, !.left[t] = 0,
            !.freeing[t] = FALSE, !.nesting[t] = -1, !.term[t] = FALSE]
  BY DEF Free
<1> HIDE DEF r, rest, owner
<1>6. r \in GlobalType
  BY <1>1, <1>2, <1>4, <1>5, ZenonT(300) DEF GlobalType
<1>7. /\ r.tasks = rest /\ r.handler = s.handler /\ r.current = s.current
      /\ r.atomic = owner /\ r.active = s.active
      /\ r.base = [s.base EXCEPT ![t] = 0]
      /\ r.cby = [s.cby EXCEPT ![t] = 0]
      /\ r.freeing = [s.freeing EXCEPT ![t] = FALSE]
  BY <1>1, <1>5 DEF GlobalType
<1>8. t \notin Awake(s)
  BY DEF Sound, Settled
<1>9. Awake(r) = Awake(s)
  BY <1>1, <1>3, <1>7, <1>8 DEF Awake
<1>10. Listed(r) = Listed(s) \ {t}
  <2>1. Listed(r) = Entries(rest)
    BY <1>7 DEF Listed, Entries
  <2> QED BY <1>2, <2>1
<1>11. \A u \in Task : u # t => r.base[u] = s.base[u] /\ r.freeing[u] = s.freeing[u]
  BY <1>3, <1>7
<1>12. ~ Settled(s, t) /\ r.base[t] = 0 /\ r.freeing[t] = FALSE
  BY <1>1, <1>3, <1>7 DEF Settled
<1>13. \A u \in Task : Settled(s, u) => Settled(r, u)
  BY <1>11, <1>12 DEF Settled
<1>14. owner \in Listed(r) \cup {Nil}
  BY <1>10 DEF owner, Sound
<1>15. Sound(r)
  <2>1. \A u \in Task : r.base[u] # 0 \/ r.freeing[u] => u \in Listed(r)
    BY <1>10, <1>11, <1>12 DEF Sound
  <2>2. \A u \in Awake(r) : Settled(r, u)
    BY <1>9, <1>13 DEF Sound, Awake
  <2>3. r.handler # Nil => Settled(r, r.handler)
    BY <1>1, <1>7, <1>13 DEF Sound, GlobalType
  <2>4. r.active = Cardinality(Awake(r))
    BY <1>7, <1>9 DEF Sound
  <2> QED BY <1>2, <1>6, <1>7, <1>14, <2>1, <2>2, <2>3, <2>4 DEF Sound
<1> QED BY <1>2, <1>7, <1>9, <1>10, <1>13, <1>15 DEF r

\* a slice is within max_cycles_before_yield, and what it leaves for later
\* within max_extra_cycles
LEMMA BeginSliceSound ==
  ASSUME NEW s, Sound(s), NEW t \in Awake(s)
  PROVE  LET r == BeginSlice(s, t) IN
         /\ Sound(r) /\ r.current = t
         /\ r.tasks = s.tasks
         /\ \A u : Settled(s, u) => Settled(r, u)
         /\ Awake(r) = Awake(s)
<1> DEFINE r == BeginSlice(s, t)
           grant == Plus(s.cby[t], s.extra[t])
           kept == IF grant > MaxCycles THEN AtMost(grant - MaxCycles, MaxExtra)
                   ELSE s.extra[t]
<1>1. s \in GlobalType /\ t \in Task
  BY DEF Sound, Awake
<1>2. s.cby[t] \in {0, DefaultCycles} /\ s.extra[t] \in 0..MaxExtra
  BY <1>1 DEF GlobalType
<1>3. grant \in Nat
  BY <1>2, CycleAssumption DEF Plus
<1>4. AtMost(grant, MaxCycles) \in 0..MaxCell /\ kept \in 0..MaxExtra
  <2> HIDE DEF grant
  <2> QED BY <1>2, <1>3, CycleAssumption DEF AtMost
<1>5. r = [s EXCEPT !.current = t, !.left[t] = AtMost(grant, MaxCycles),
                    !.extra[t] = kept]
  BY DEF BeginSlice
<1> HIDE DEF r, grant, kept
<1>6. r \in GlobalType
  BY <1>1, <1>4, <1>5 DEF GlobalType
<1>7. /\ r.tasks = s.tasks /\ r.base = s.base /\ r.freeing = s.freeing
      /\ r.handler = s.handler /\ r.current = t
      /\ r.atomic = s.atomic /\ r.active = s.active /\ r.cby = s.cby
  BY <1>1, <1>5 DEF GlobalType
<1>8. Awake(r) = Awake(s) /\ Listed(r) = Listed(s)
  BY <1>7 DEF Awake, Listed
<1>9. \A u : Settled(r, u) <=> Settled(s, u)
  BY <1>7 DEF Settled
<1>10. Sound(r)
  BY <1>6, <1>7, <1>8, <1>9 DEF Sound
<1> QED BY <1>7, <1>8, <1>9, <1>10 DEF r

LEMMA EndSliceSound ==
  ASSUME NEW s, Sound(s), s.current \in Task
  PROVE  LET r == EndSlice(s) IN
         /\ Sound(r) /\ r.current = Nil
         /\ r.tasks = s.tasks
         /\ \A u : Settled(s, u) => Settled(r, u)
         /\ Awake(r) = Awake(s)
<1> DEFINE r == EndSlice(s)
           n == Dec(s.left[s.current])
<1>1. s \in GlobalType
  BY DEF Sound
<1>2. n \in 0..MaxCell
  BY <1>1, CellSteps DEF GlobalType
<1>3. r = [[s EXCEPT !.left[s.current] = n] EXCEPT !.current = Nil]
  BY DEF EndSlice, Charge
<1> HIDE DEF r, n
<1>4. r \in GlobalType
  BY <1>1, <1>2, <1>3 DEF GlobalType
<1>5. /\ r.tasks = s.tasks /\ r.base = s.base /\ r.freeing = s.freeing
      /\ r.handler = s.handler /\ r.current = Nil
      /\ r.atomic = s.atomic /\ r.active = s.active /\ r.cby = s.cby
  BY <1>1, <1>3 DEF GlobalType
<1>6. Awake(r) = Awake(s) /\ Listed(r) = Listed(s)
  BY <1>5 DEF Awake, Listed
<1>7. \A u : Settled(r, u) <=> Settled(s, u)
  BY <1>5 DEF Settled
<1>8. Sound(r)
  BY <1>4, <1>5, <1>6, <1>7 DEF Sound
<1> QED BY <1>5, <1>6, <1>7, <1>8 DEF r

\* >HANDLER-TASK and >TERMINATE
LEMMA HandlerMoves ==
  ASSUME NEW s, Sound(s), NEW t \in Task \cup {Nil}, t # Nil => Settled(s, t)
  PROVE  Moves(s, [s EXCEPT !.handler = t], {})
<1> DEFINE r == [s EXCEPT !.handler = t]
<1>1. s \in GlobalType
  BY DEF Sound
<1>2. r \in GlobalType
  BY <1>1 DEF GlobalType
<1>3. /\ r.tasks = s.tasks /\ r.base = s.base /\ r.freeing = s.freeing
      /\ r.handler = t /\ r.current = s.current /\ r.left = s.left
      /\ r.atomic = s.atomic /\ r.active = s.active /\ r.cby = s.cby
  BY <1>1 DEF GlobalType
<1> HIDE DEF r
<1>4. Awake(r) = Awake(s) /\ Listed(r) = Listed(s)
  BY <1>3 DEF Awake, Listed
<1>5. \A u : Settled(r, u) <=> Settled(s, u)
  BY <1>3 DEF Settled
<1> QED BY <1>2, <1>3, <1>4, <1>5 DEF Moves, Running, Sound, r

LEMMA ToTerminateMoves ==
  ASSUME NEW s, Sound(s), NEW t \in Task, NEW set \in BOOLEAN
  PROVE  Moves(s, [s EXCEPT !.term[t] = set], {})
<1> DEFINE r == [s EXCEPT !.term[t] = set]
<1>1. s \in GlobalType
  BY DEF Sound
<1>2. r \in GlobalType
  BY <1>1 DEF GlobalType
<1>3. /\ r.tasks = s.tasks /\ r.base = s.base /\ r.freeing = s.freeing
      /\ r.handler = s.handler /\ r.current = s.current /\ r.left = s.left
      /\ r.atomic = s.atomic /\ r.active = s.active /\ r.cby = s.cby
  BY <1>1 DEF GlobalType
<1> HIDE DEF r
<1>4. Awake(r) = Awake(s) /\ Listed(r) = Listed(s)
  BY <1>3 DEF Awake, Listed
<1>5. \A u : Settled(r, u) <=> Settled(s, u)
  BY <1>3 DEF Settled
<1> QED BY <1>2, <1>3, <1>4, <1>5 DEF Moves, Running, Sound, r

-----------------------------------------------------------------------------
(* The task list, the tasks freed and the pointers to them.                *)

\* the tasks a pointer of the IO thread may wake or make atomic
IoTasks == (pendingIo \cup {ioHandler}) \ {Nil}

\* the main thread's pointers designate listed tasks, and current_task is set
\* exactly during a slice
PointersInv ==
  /\ {cursor, prev, bye} \subseteq Listed(g) \cup {Nil}
  /\ pc \in {"gap", "slice"} => cursor # Nil
  /\ g.current = IF pc = "slice" THEN cursor ELSE Nil
  /\ bye # Nil => pc = "slice"

\* the task of the slice has cycles as long as it is to execute a word
SliceInv == pc = "slice" => Running(g, g.current)

\* af_bye may go on terminating: what it found terminable still is
ByeInv ==
  bye # Nil =>
    \A t \in Alive(g) : IF g.term[t] THEN g.base[t] # 0
                        ELSE t \in Awake(g) /\ t # g.handler /\ t \notin IoTasks

\* between the unlock and the sleep only the IO thread gives cycles, and it
\* owes a signal from then on
SleepInv ==
  /\ pc = "unlocked" /\ ~ posted /\ io = "idle" => Awake(g) = {}
  /\ pc = "asleep" /\ ~ signalled /\ io = "idle" => Awake(g) = {}

IInv ==
  /\ TypeOK
  /\ Sound(g)
  /\ PointersInv
  /\ SliceInv
  /\ WalkPointers
  /\ \A t \in IoTasks : Settled(g, t)
  /\ ByeInv
  /\ SleepInv


-----------------------------------------------------------------------------
(* The steps of a slice.                                                   *)

\* A step of the slice that ends only the tasks of dead, none of which the IO
\* thread knows, keeps the invariant.
LEMMA SliceStep ==
  ASSUME IInv, pc = "slice", UNCHANGED threads,
         NEW dead \in SUBSET Task, Moves(g, g', dead),
         pendingIo' \subseteq Task \cup {Nil}, ioHandler' \in Task \cup {Nil},
         \A t \in IoTasks' : t \notin dead /\ Settled(g, t),
         bye' \in Listed(g') \cup {Nil}, ByeInv'
  PROVE  IInv'
<1>1. Sound(g') /\ Listed(g) \subseteq Listed(g') /\ g'.current = g.current
  BY DEF Moves
<1>2. UNCHANGED <<pc, cursor, prev, posted, signalled, io>>
  BY DEF threads
<1>3. g' \in GlobalType /\ Listed(g') \subseteq Task
  BY <1>1, ListedTasks DEF Sound
<1>4. TypeOK'
  BY <1>2, <1>3 DEF IInv, TypeOK
<1>5. PointersInv'
  BY <1>1, <1>2 DEF IInv, PointersInv
<1>6. SliceInv'
  <2>1. g.current \in Task
    BY TaskAssumption, ListedTasks DEF IInv, PointersInv
  <2> QED BY <1>1, <1>2, <2>1 DEF IInv, SliceInv, Moves
<1>7. WalkPointers' /\ SleepInv'
  BY <1>2 DEF WalkPointers, SleepInv
<1>8. \A t \in IoTasks' : Settled(g', t)
  <2>1. IoTasks' \subseteq Task
    BY DEF IoTasks
  <2> QED BY <2>1 DEF Moves
<1>9. Sound(g)'
  BY <1>1
<1>10. (\A t \in IoTasks : Settled(g, t))'
  BY <1>8
<1> QED BY <1>4, <1>5, <1>6, <1>7, <1>9, <1>10 DEF IInv

\* What the word sees once its cycle is charged.
LEMMA Charged ==
  ASSUME IInv, pc = "slice", g.left[g.current] # 0
  PROVE  /\ Sound(Charge(g)) /\ Kept(g, Charge(g)) /\ Moves(g, Charge(g), {})
         /\ g.current \in Awake(g) /\ g.current \in Task
         /\ Awake(g) \subseteq Awake(Charge(g))
         /\ Listed(Charge(g)) = Listed(g)
         /\ \A t : Settled(Charge(g), t) <=> Settled(g, t)
         /\ Charge(g).handler = g.handler /\ Charge(g).base = g.base
<1>1. Sound(g) /\ g.current \in Task
  BY TaskAssumption, ListedTasks DEF IInv, PointersInv
<1>2. Kept(g, Charge(g))
  BY <1>1, ChargeKept
<1>3. Moves(g, Charge(g), {})
  BY <1>2, KeptMoves
<1>4. g.current \in Awake(g)
  BY DEF IInv, SliceInv, Running
<1> HIDE DEF Charge
<1>5. /\ Listed(Charge(g)) = Listed(g)
      /\ \A t : Settled(Charge(g), t) <=> Settled(g, t)
  BY <1>2 DEF Kept, Listed, Settled
<1> QED BY <1>1, <1>2, <1>3, <1>4, <1>5 DEF Kept

\* A word ends tasks that are not the IO thread's.
LEMMA WordStep ==
  ASSUME IInv, pc = "slice", g.left[g.current] # 0, UNCHANGED threads,
         bye' = Nil,
         NEW dead \in SUBSET Task, Moves(Charge(g), g', dead),
         pendingIo' \subseteq Task \cup {Nil}, ioHandler' \in Task \cup {Nil},
         \A t \in IoTasks' : t \notin dead /\ Settled(g, t)
  PROVE  IInv'
<1>1. Moves(g, Charge(g), {})
  BY Charged
<1>2. Moves(g, g', {} \cup dead)
  BY <1>1, MovesTransitive, Zenon
<1>3. {} \cup dead = dead
  OBVIOUS
<1>4. ByeInv' /\ bye' \in Listed(g') \cup {Nil}
  BY DEF ByeInv
<1>5. Moves(g, g', dead)
  BY <1>2, <1>3
<1> QED BY <1>4, <1>5, SliceStep

\* Words that leave the IO thread's structures alone.
LEMMA QuietWordStep ==
  ASSUME IInv, pc = "slice", g.left[g.current] # 0, UNCHANGED threads,
         bye = Nil, UNCHANGED <<bye, pendingIo, ioHandler>>,
         NEW dead \in SUBSET Task, Moves(Charge(g), g', dead),
         dead \cap IoTasks = {}
  PROVE  IInv'
<1>1. \A t \in IoTasks' : t \notin dead /\ Settled(g, t)
  BY DEF IoTasks, IInv
<1>2. pendingIo' \subseteq Task \cup {Nil} /\ ioHandler' \in Task \cup {Nil}
  BY DEF IInv, TypeOK
<1> QED BY <1>1, <1>2, WordStep

LEMMA WordsStep ==
  ASSUME Liberties \subseteq {"kill atomic"}, IInv, TaskWord
  PROVE  IInv'
<1> DEFINE c == Charge(g)
<1>0. /\ pc = "slice" /\ bye = Nil /\ g.left[g.current] # 0
      /\ UNCHANGED threads
  BY DEF TaskWord, OtherWord, SpawnWord, ToTerminateWord, StartWord,
     TerminateWord, KillWord, YieldWord, WaitWord, WakeWord, AbortWord,
     BeginAtomicWord, EndAtomicWord, EndAtomicAndWaitWord, ToHandlerTaskWord,
     ToIoHandlerTaskWord, IoBlockWord, IoAsyncWord, ByeWord, Executes
<1>1. /\ Sound(c) /\ Kept(g, c)
      /\ g.current \in Awake(g) /\ g.current \in Task
      /\ Awake(g) \subseteq Awake(c)
      /\ Listed(c) = Listed(g)
      /\ \A t : Settled(c, t) <=> Settled(g, t)
      /\ c.handler = g.handler /\ c.base = g.base
  BY <1>0, Charged
<1>2. /\ Moves(c, c, {})
      /\ {} \cap IoTasks = {}
      /\ {} \in SUBSET Task
  BY <1>1, KeptReflexive, KeptMoves
<1>3. Listed(g) \subseteq Task /\ Alive(g) \subseteq Listed(g)
  BY ListedTasks DEF IInv, Alive
<1> HIDE DEF c
<1>4. CASE OtherWord
  BY <1>0, <1>2, <1>4, QuietWordStep DEF OtherWord, c
<1>5. CASE SpawnWord
  <2>1. PICK t \in Task \ Listed(g) : g' = Spawn(c, t)
    BY <1>5 DEF SpawnWord, c
  <2>2. Moves(c, g', {})
    BY <1>1, <2>1, SpawnMoves
  <2> QED BY <1>0, <1>2, <1>5, <2>2, QuietWordStep DEF SpawnWord, c
<1>6. CASE ToTerminateWord
  <2>1. PICK t \in Alive(g), set \in BOOLEAN : g' = [c EXCEPT !.term[t] = set]
    BY <1>6 DEF ToTerminateWord, c
  <2>2. Moves(c, g', {})
    BY <1>1, <1>3, <2>1, ToTerminateMoves
  <2> QED BY <1>0, <1>2, <1>6, <2>2, QuietWordStep DEF ToTerminateWord, c
<1>7. CASE StartWord
  <2>1. PICK t \in Alive(g) : g' = Start(c, t)
    BY <1>7 DEF StartWord, c
  <2>2. Moves(c, g', {})
    BY <1>1, <1>3, <2>1, StartMoves
  <2> QED BY <1>0, <1>2, <1>7, <2>2, QuietWordStep DEF StartWord, c
<1>8. CASE TerminateWord
  <2>1. PICK t \in Alive(g) : MayTerminate(t) /\ g' = Terminate(c, t)
    BY <1>8 DEF TerminateWord, c
  <2> DEFINE dead == IF c.term[t] THEN {} ELSE {t}
  <2>2. c.term = g.term /\ c.freeing = g.freeing
    BY <1>1 DEF Kept
  <2>3. IF c.term[t] THEN c.base[t] # 0
        ELSE t \in Awake(c) /\ t # c.handler /\ t \notin IoTasks
    BY <1>1, <2>1, <2>2, <1>3, TaskAssumption
    DEF MayTerminate, MayKill, Settled, IInv, Sound, IoTasks
  <2>4. t \in Task /\ ~ c.freeing[t]
    BY <1>3, <2>2 DEF Alive
  <2>5. Moves(c, Terminate(c, t), dead)
    BY <1>1, <2>3, <2>4, TerminateMoves
  <2>6. dead \cap IoTasks = {} /\ dead \in SUBSET Task
    BY <2>3, <2>4
  <2> HIDE DEF dead
  <2> QED BY <1>0, <1>8, <2>1, <2>5, <2>6, QuietWordStep DEF TerminateWord, c
<1>9. CASE KillWord
  <2>1. PICK t \in Alive(g) : MayKill(t) /\ g' = Kill(c, t)
    BY <1>9 DEF KillWord, c
  <2>2. t \in Awake(c) /\ t # c.handler /\ t \notin IoTasks /\ t \in Task
    BY <1>1, <1>3, <2>1 DEF MayKill, IoTasks
  <2>3. Moves(c, g', {t})
    BY <1>1, <2>1, <2>2, KillMoves
  <2>4. {t} \cap IoTasks = {} /\ {t} \in SUBSET Task
    BY <2>2
  <2> QED BY <1>0, <1>9, <2>3, <2>4, QuietWordStep DEF KillWord, c
<1>10. CASE YieldWord
  <2>1. Moves(c, g', {})
    BY <1>1, <1>10, YieldKept, KeptMoves DEF YieldWord, c
  <2> QED BY <1>0, <1>2, <1>10, <2>1, QuietWordStep DEF YieldWord, c
<1>11. CASE WaitWord
  <2>1. PICK t \in Alive(g) : MayWait(t) /\ g' = Wait(c, t)
    BY <1>11 DEF WaitWord, c
  <2>2. t \in Awake(c)
    BY <1>1, <2>1 DEF MayWait
  <2>3. Moves(c, g', {})
    BY <1>1, <2>1, <2>2, WaitMoves
  <2> QED BY <1>0, <1>2, <1>11, <2>3, QuietWordStep DEF WaitWord, c
<1>12. CASE WakeWord
  <2>1. PICK t \in Alive(g) : MayWake(t) /\ g' = Wake(c, t)
    BY <1>12 DEF WakeWord, c
  <2>2. c.base[t] # 0 /\ t \in Task
    BY <1>1, <1>3, <2>1 DEF MayWake
  <2>3. Moves(c, g', {})
    BY <1>1, <2>1, <2>2, WakeKept, KeptMoves
  <2> QED BY <1>0, <1>2, <1>12, <2>3, QuietWordStep DEF WakeWord, c
<1>13. CASE AbortWord
  <2>1. PICK aborts \in BOOLEAN : /\ aborts \/ MayKill(g.current)
                                  /\ g' = Reset(c, g.current, aborts)
    BY <1>13 DEF AbortWord, c
  <2> DEFINE dead == IF aborts THEN {} ELSE {g.current}
  <2>2. ~ aborts => g.current # c.handler /\ g.current \notin IoTasks
    BY <1>1, <2>1 DEF MayKill, IoTasks
  <2>3. Moves(c, Reset(c, g.current, aborts), dead)
    BY <1>1, <2>2, ResetMoves
  <2>4. dead \cap IoTasks = {} /\ dead \in SUBSET Task
    BY <1>1, <2>2
  <2> HIDE DEF dead
  <2> QED BY <1>0, <1>13, <2>1, <2>3, <2>4, QuietWordStep DEF AbortWord, c
<1>14. CASE BeginAtomicWord
  <2>1. c.base[g.current] # 0
    BY <1>1 DEF Sound, Settled
  <2>2. Moves(c, g', {})
    BY <1>1, <1>14, <2>1, BeginAtomicKept, KeptMoves DEF BeginAtomicWord, c
  <2> QED BY <1>0, <1>2, <1>14, <2>2, QuietWordStep DEF BeginAtomicWord, c
<1>15. CASE EndAtomicWord
  <2>1. PICK next \in Task \cup {Nil} : /\ MayPassTo(next)
                                        /\ g' = EndAtomic(c, g.current, next)
    BY <1>15 DEF EndAtomicWord, c
  <2>2. next # Nil => c.base[next] # 0
    BY <1>1, <2>1 DEF MayPassTo
  <2>3. Kept(c, g')
    BY <1>1, <2>1, <2>2, EndAtomicKept DEF Sound, GlobalType
  <2>4. Moves(c, g', {})
    BY <2>3, KeptMoves
  <2> QED BY <1>0, <1>2, <1>15, <2>4, QuietWordStep DEF EndAtomicWord, c
<1>16. CASE EndAtomicAndWaitWord
  <2>1. PICK next \in Task \cup {Nil} : /\ MayPassTo(next)
                                        /\ g' = EndAtomicAndWait(c, g.current, next)
    BY <1>16 DEF EndAtomicAndWaitWord, c
  <2>2. next # Nil => c.base[next] # 0
    BY <1>1, <2>1 DEF MayPassTo
  <2> DEFINE e == EndAtomic(c, g.current, next)
  <2>3. Kept(c, e)
    BY <1>1, <2>2, EndAtomicKept DEF Sound, GlobalType
  <2>4. g' = Wait(e, g.current)
    BY <2>1 DEF EndAtomicAndWait
  <2> HIDE DEF e
  <2>5. Moves(c, e, {}) /\ Sound(e) /\ g.current \in Awake(e)
    BY <1>1, <2>3, KeptMoves DEF Kept
  <2>6. Moves(e, g', {})
    BY <2>4, <2>5, WaitMoves
  <2>7. Moves(c, g', {} \cup {}) /\ {} \cup {} = {}
    BY <2>5, <2>6, MovesTransitive, Zenon
  <2>8. Moves(c, g', {})
    BY <2>7
  <2> QED BY <1>0, <1>2, <1>16, <2>8, QuietWordStep DEF EndAtomicAndWaitWord, c
<1>17. CASE ToHandlerTaskWord
  <2>1. PICK t \in Task \cup {Nil} : MayHandle(t) /\ g' = [c EXCEPT !.handler = t]
    BY <1>17 DEF ToHandlerTaskWord, c
  <2>2. t # Nil => Settled(c, t)
    BY <1>1, <2>1 DEF MayHandle, Settled, Alive
  <2>3. Moves(c, g', {})
    BY <1>1, <2>1, <2>2, HandlerMoves
  <2> QED BY <1>0, <1>2, <1>17, <2>3, QuietWordStep DEF ToHandlerTaskWord, c
<1>18. CASE ToIoHandlerTaskWord
  <2>1. PICK t \in Task \cup {Nil} : MayHandleIo(t) /\ ioHandler' = t
    BY <1>18 DEF ToIoHandlerTaskWord
  <2>2. g' = c /\ bye' = Nil /\ pendingIo' = pendingIo
    BY <1>0, <1>18 DEF ToIoHandlerTaskWord, c
  <2>3. Settled(g, g.current)
    BY <1>1 DEF IInv, Sound
  <2>4. t \in {Nil, g.current}
    BY <2>1 DEF MayHandleIo
  <2>5. \A u \in IoTasks' : u \notin {} /\ Settled(g, u)
    BY <2>1, <2>2, <2>3, <2>4 DEF IoTasks, IInv
  <2>6. pendingIo' \subseteq Task \cup {Nil} /\ ioHandler' \in Task \cup {Nil}
    BY <2>1, <2>2 DEF IInv, TypeOK
  <2> QED BY <1>0, <1>2, <2>2, <2>5, <2>6, WordStep DEF c
<1>19. CASE IoBlockWord
  <2>1. /\ g' = Wait(c, g.current) /\ bye' = Nil /\ ioHandler' = ioHandler
        /\ pendingIo' = pendingIo \cup {g.current}
    BY <1>0, <1>19 DEF IoBlockWord, c
  <2>2. Settled(g, g.current) /\ g.current \in Awake(c)
    BY <1>1 DEF IInv, Sound
  <2>3. Moves(c, g', {})
    BY <1>1, <2>1, <2>2, WaitMoves
  <2>4. \A u \in IoTasks' : u \notin {} /\ Settled(g, u)
    BY <2>1, <2>2 DEF IoTasks, IInv
  <2>5. pendingIo' \subseteq Task \cup {Nil} /\ ioHandler' \in Task \cup {Nil}
    BY <1>1, <2>1 DEF IInv, TypeOK
  <2> QED BY <1>0, <1>2, <2>1, <2>3, <2>4, <2>5, WordStep DEF c
<1>20. CASE IoAsyncWord
  <2>1. /\ g' = c /\ bye' = Nil /\ ioHandler' = ioHandler
        /\ pendingIo' = pendingIo \cup {Nil}
    BY <1>0, <1>20 DEF IoAsyncWord, c
  <2>2. \A u \in IoTasks' : u \notin {} /\ Settled(g, u)
    BY <2>1 DEF IoTasks, IInv
  <2>3. pendingIo' \subseteq Task \cup {Nil} /\ ioHandler' \in Task \cup {Nil}
    BY <2>1 DEF IInv, TypeOK
  <2> QED BY <1>0, <1>2, <2>1, <2>2, <2>3, WordStep DEF c
<1>21. CASE ByeWord
  <2>1. /\ g' = c /\ bye' = First(g.tasks)
        /\ UNCHANGED <<pendingIo, ioHandler>>
        /\ \A t \in Alive(g) : MayTerminate(t)
    BY <1>21 DEF ByeWord, c
  <2>2. /\ c.term = g.term /\ c.freeing = g.freeing /\ c.tasks = g.tasks
    BY <1>1 DEF Kept
  <2>3. Alive(c) = Alive(g)
    BY <1>1, <2>2 DEF Alive
  <2>4. \A t \in Alive(g) : IF c.term[t] THEN c.base[t] # 0
                            ELSE /\ t \in Awake(c) /\ t # c.handler
                                 /\ t \notin IoTasks
    <3> SUFFICES ASSUME NEW t \in Alive(g)
                 PROVE  IF c.term[t] THEN c.base[t] # 0
                        ELSE t \in Awake(c) /\ t # c.handler /\ t \notin IoTasks
      OBVIOUS
    <3>1. MayTerminate(t)
      BY <2>1
    <3> QED BY <1>1, <2>2, <3>1 DEF MayTerminate, MayKill, IoTasks
  <2>5. IoTasks' = IoTasks
    BY <2>1 DEF IoTasks
  <2>6. ByeInv'
    BY <2>1, <2>3, <2>4, <2>5 DEF ByeInv
  <2>7. bye' \in Listed(g') \cup {Nil}
    BY <1>1, <2>1, FirstEntry, ListedTasks DEF IInv
  <2>8. \A t \in IoTasks' : t \notin {} /\ Settled(g, t)
    BY <2>5 DEF IInv
  <2>9. pendingIo' \subseteq Task \cup {Nil} /\ ioHandler' \in Task \cup {Nil}
    BY <2>1 DEF IInv, TypeOK
  <2>10. Moves(g, g', {})
    BY <1>1, <2>1, KeptMoves
  <2> QED BY <1>0, <1>2, <2>6, <2>7, <2>8, <2>9, <2>10, SliceStep
<1> QED BY <1>4, <1>5, <1>6, <1>7, <1>8, <1>9, <1>10, <1>11, <1>12, <1>13,
           <1>14, <1>15, <1>16, <1>17, <1>18, <1>19, <1>20, <1>21 DEF TaskWord


\* af_bye goes on: the task it terminates was terminable, and terminating it
\* leaves the others so.
LEMMA ByeStepInv ==
  ASSUME IInv, ByeStep
  PROVE  IInv'
<1>1. /\ pc = "slice" /\ bye # Nil /\ g' = Terminate(g, bye)
      /\ bye' = NextOf(g.tasks, bye)
      /\ UNCHANGED <<pendingIo, ioHandler>> /\ UNCHANGED threads
  BY DEF ByeStep
<1>2. Sound(g) /\ bye \in Listed(g) /\ Listed(g) \subseteq Task
  BY <1>1, ListedTasks DEF IInv, PointersInv
<1>3. IoTasks' = IoTasks
  BY <1>1 DEF IoTasks
<1>4. pendingIo' \subseteq Task \cup {Nil} /\ ioHandler' \in Task \cup {Nil}
  BY <1>1 DEF IInv, TypeOK
<1>5. bye' \in Listed(g) \cup {Nil}
  <2>1. g.tasks \in Seq(Task) /\ bye \in Entries(g.tasks)
    BY <1>2, ListedTasks
  <2> QED BY <1>1, <1>2, <2>1, NextOfEntry, ListedTasks
<1>6. CASE g.freeing[bye]
  <2>1. g' = g
    BY <1>1, <1>6 DEF Terminate
  <2>2. Moves(g, g', {})
    BY <1>2, <2>1, KeptReflexive, KeptMoves
  <2>3. ByeInv'
    BY <1>1, <1>3, <2>1 DEF IInv, ByeInv
  <2>4. \A t \in IoTasks' : t \notin {} /\ Settled(g, t)
    BY <1>3 DEF IInv
  <2>5. bye' \in Listed(g') \cup {Nil} /\ {} \in SUBSET Task
    BY <1>5, <2>1
  <2> QED BY <1>1, <1>4, <2>2, <2>3, <2>4, <2>5, SliceStep
<1>7. CASE ~ g.freeing[bye] /\ g.term[bye]
  <2>1. bye \in Alive(g) /\ g.base[bye] # 0
    BY <1>1, <1>2, <1>7 DEF Alive, IInv, ByeInv
  <2>2. Kept(g, g')
    BY <1>1, <1>2, <1>7, <2>1, TerminateKept
  <2>3. Moves(g, g', {})
    BY <2>2, KeptMoves
  <2>4. Alive(g') = Alive(g) /\ Listed(g') = Listed(g)
    BY <2>2 DEF Kept, Alive, Listed
  <2>5. ByeInv'
    BY <1>1, <1>3, <2>2, <2>4 DEF IInv, ByeInv, Kept
  <2>6. \A t \in IoTasks' : t \notin {} /\ Settled(g, t)
    BY <1>3 DEF IInv
  <2>7. bye' \in Listed(g') \cup {Nil} /\ {} \in SUBSET Task
    BY <1>5, <2>4
  <2> QED BY <1>1, <1>4, <2>3, <2>5, <2>6, <2>7, SliceStep
<1>8. CASE ~ g.freeing[bye] /\ ~ g.term[bye]
  <2>1. /\ bye \in Alive(g) /\ bye \in Awake(g)
        /\ bye # g.handler /\ bye \notin IoTasks
    BY <1>1, <1>2, <1>8 DEF Alive, IInv, ByeInv
  <2>2. g' = Kill(g, bye)
    BY <1>1, <1>8 DEF Terminate
  <2>3. Moves(g, g', {bye})
    BY <1>2, <2>1, <2>2, KillMoves
  <2>4. /\ g'.tasks = g.tasks /\ g'.base = g.base /\ g'.term = g.term
        /\ g'.handler = g.handler
        /\ g'.freeing = [g.freeing EXCEPT ![bye] = TRUE]
        /\ Awake(g) \ {bye} \subseteq Awake(g')
    BY <1>2, <2>1, <2>2, KillFrame
  <2>5. Listed(g') = Listed(g)
    BY <2>4 DEF Listed
  <2>6. g.freeing \in [Task -> BOOLEAN]
    BY <1>2 DEF Sound, GlobalType
  <2>7. Alive(g') = Alive(g) \ {bye}
    BY <1>2, <2>4, <2>5, <2>6 DEF Alive
  <2>8. ByeInv'
    BY <1>1, <1>3, <2>4, <2>7 DEF IInv, ByeInv
  <2>9. \A t \in IoTasks' : t \notin {bye} /\ Settled(g, t)
    BY <1>3, <2>1 DEF IInv
  <2>10. bye' \in Listed(g') \cup {Nil} /\ {bye} \in SUBSET Task
    BY <1>2, <1>5, <2>5
  <2> QED BY <1>1, <1>4, <2>3, <2>8, <2>9, <2>10, SliceStep
<1> QED BY <1>6, <1>7, <1>8

-----------------------------------------------------------------------------
(* The walks and the sleep.                                                *)

\* Steps of the main thread that leave the task structures alone.
LEMMA QuietLoopStep ==
  ASSUME IInv, \/ Outer \/ Inner \/ PassOver \/ OpenGap \/ SkipSlice \/ EndWalk
               \/ SweepPast \/ EndSweep \/ CondWait \/ CondWake \/ SpuriousWake
               \/ Relock
  PROVE  IInv'
<1>1. UNCHANGED <<g, bye, pendingIo, ioHandler>>
  BY DEF Outer, Inner, PassOver, OpenGap, SkipSlice, EndWalk, SweepPast, EndSweep,
     CondWait, CondWake, SpuriousWake, WakeFromWait, Relock
<1>2. Sound(g) /\ g.current = Nil /\ pc # "slice" /\ bye = Nil
  BY DEF IInv, PointersInv, Outer, Inner, PassOver, OpenGap, SkipSlice, EndWalk,
     SweepPast, EndSweep, CondWait, CondWake, SpuriousWake, WakeFromWait, Relock
<1>3. g.tasks \in Seq(Task) /\ Listed(g) \subseteq Task /\ Listed(g) = Entries(g.tasks)
  BY <1>2, ListedTasks
<1>4. First(g.tasks) \in Listed(g) \cup {Nil}
  BY <1>3, FirstEntry
<1>5. cursor # Nil => NextOf(g.tasks, cursor) \in Listed(g) \cup {Nil}
  BY <1>3, NextOfEntry DEF IInv, PointersInv
<1>6. g.active = 0 => Awake(g) = {}
  <2>1. IsFiniteSet(Awake(g))
    BY TaskAssumption, FS_Subset DEF Awake
  <2> QED BY <1>2, <2>1, FS_EmptySet DEF Sound
<1> DEFINE inv == /\ pc' \in PCs /\ pc' # "slice"
                  /\ {cursor', prev'} \subseteq Listed(g) \cup {Nil}
                  /\ pc' = "gap" => cursor' # Nil
                  /\ posted' \in BOOLEAN /\ signalled' \in BOOLEAN
                  /\ io' \in {"idle", "notify", "signal"}
                  /\ WalkPointers'
                  /\ SleepInv'
<1>7. inv
  <2> USE <1>1, <1>2, <1>4, <1>5, <1>6
      DEF IInv, TypeOK, PCs, PointersInv, WalkPointers, SleepInv
  <2>1. CASE Outer
    BY <2>1 DEF Outer
  <2>2. CASE Inner
    BY <2>2 DEF Inner
  <2>3. CASE PassOver
    BY <2>3 DEF PassOver, Advance
  <2>4. CASE OpenGap
    BY <2>4 DEF OpenGap
  <2>5. CASE SkipSlice
    BY <2>5 DEF SkipSlice, Advance
  <2>6. CASE EndWalk
    BY <2>6 DEF EndWalk
  <2>7. CASE SweepPast
    BY <2>7 DEF SweepPast, Advance
  <2>8. CASE EndSweep
    BY <2>8 DEF EndSweep
  <2>9. CASE CondWait
    BY <2>9 DEF CondWait
  <2>10. CASE CondWake \/ SpuriousWake
    BY <2>10 DEF CondWake, SpuriousWake, WakeFromWait
  <2>11. CASE Relock
    BY <2>11 DEF Relock
  <2> QED BY <2>1, <2>2, <2>3, <2>4, <2>5, <2>6, <2>7, <2>8, <2>9, <2>10, <2>11
<1> HIDE DEF inv
<1>8. TypeOK' /\ PointersInv' /\ SliceInv' /\ ByeInv'
  BY <1>1, <1>2, <1>3, <1>7
  DEF inv, IInv, TypeOK, PointersInv, SliceInv, ByeInv
<1>9. (\A t \in IoTasks : Settled(g, t))'
  BY <1>1 DEF IInv, IoTasks
<1>10. Sound(g)'
  BY <1>1, <1>2
<1> QED BY <1>7, <1>8, <1>9, <1>10 DEF inv, IInv

\* A step to "walk", "sweep" or a slice with other structures.
LEMMA SlicesStep ==
  ASSUME IInv, Reap \/ EnterSlice \/ LeaveSlice
  PROVE  IInv'
<1>1. /\ UNCHANGED <<bye, pendingIo, ioHandler, posted, signalled, io>>
      /\ IoTasks' = IoTasks
  BY DEF Reap, EnterSlice, LeaveSlice, IoTasks
<1>2. Sound(g) /\ bye = Nil
  BY DEF IInv, PointersInv, Reap, EnterSlice, LeaveSlice
<1>3. /\ g.tasks \in Seq(Task) /\ Listed(g) \subseteq Task
      /\ Listed(g) = Entries(g.tasks) /\ Nil \notin Task
  BY <1>2, ListedTasks, TaskAssumption
<1>4. IoTasks \subseteq Task /\ \A t \in IoTasks : Settled(g, t)
  BY DEF IInv, TypeOK, IoTasks
<1>5. CASE Reap
  <2>1. /\ pc \in {"walk", "sweep"} /\ pc' = pc /\ prev' = prev
        /\ cursor \in Listed(g) /\ g.freeing[cursor]
        /\ prev \in Listed(g) \cup {Nil}
        /\ cursor = IF prev = Nil THEN First(g.tasks) ELSE NextOf(g.tasks, prev)
        /\ cursor' = NextOf(g.tasks, cursor)
        /\ g.current = Nil
        /\ g' = Free(g, prev, cursor)
    BY <1>5 DEF Reap, IInv, PointersInv, WalkPointers
  <2>2. /\ Sound(g') /\ g'.current = Nil
        /\ Listed(g') = Listed(g) \ {cursor}
        /\ \A u \in Task : Settled(g, u) => Settled(g', u)
        /\ prev # cursor
        /\ cursor' = IF prev = Nil THEN First(g'.tasks)
                     ELSE NextOf(g'.tasks, prev)
    BY <1>2, <2>1, FreeSound
  <2>3. g'.tasks \in Seq(Task) /\ Listed(g') = Entries(g'.tasks)
    BY <2>2, ListedTasks
  <2>4. prev' \in Listed(g') \cup {Nil} /\ cursor' \in Listed(g') \cup {Nil}
    BY <2>1, <2>2, <2>3, FirstEntry, NextOfEntry
  <2>5. TypeOK'
    BY <1>1, <1>3, <2>1, <2>2, <2>4 DEF IInv, TypeOK, Sound
  <2>6. PointersInv' /\ SliceInv' /\ ByeInv' /\ SleepInv' /\ WalkPointers'
    BY <1>1, <1>2, <2>1, <2>2, <2>4
    DEF PointersInv, SliceInv, ByeInv, SleepInv, WalkPointers
  <2>7. (\A t \in IoTasks : Settled(g, t))'
    BY <1>1, <1>4, <2>2
  <2>8. Sound(g)'
    BY <2>2
  <2> QED BY <2>5, <2>6, <2>7, <2>8 DEF IInv
<1>6. CASE EnterSlice
  <2>1. /\ pc = "gap" /\ pc' = "slice" /\ cursor' = cursor /\ prev' = prev
        /\ cursor \in Listed(g) /\ cursor \in Awake(g)
        /\ prev \in Listed(g) \cup {Nil}
        /\ g' = BeginSlice(g, cursor)
    BY <1>3, <1>6 DEF EnterSlice, IInv, PointersInv, Awake
  <2>2. /\ Sound(g') /\ g'.current = cursor /\ g'.tasks = g.tasks
        /\ \A u : Settled(g, u) => Settled(g', u)
        /\ Awake(g') = Awake(g)
    BY <1>2, <2>1, BeginSliceSound
  <2>3. Listed(g') = Listed(g)
    BY <2>2 DEF Listed
  <2>4. TypeOK'
    BY <1>1, <1>3, <2>1, <2>2 DEF IInv, TypeOK, Sound, PCs
  <2>5. PointersInv' /\ SliceInv' /\ ByeInv' /\ SleepInv' /\ WalkPointers'
    BY <1>1, <1>2, <1>3, <2>1, <2>2, <2>3
    DEF PointersInv, SliceInv, Running, ByeInv, SleepInv, WalkPointers
  <2>6. (\A t \in IoTasks : Settled(g, t))'
    BY <1>1, <1>4, <2>2
  <2>7. Sound(g)'
    BY <2>2
  <2> QED BY <2>4, <2>5, <2>6, <2>7 DEF IInv
<1>7. CASE LeaveSlice
  <2>1. /\ pc = "slice" /\ pc' = "walk" /\ prev' = cursor
        /\ cursor' = NextOf(g'.tasks, cursor)
        /\ cursor \in Listed(g) /\ g.current = cursor
        /\ g' = EndSlice(g)
    BY <1>7 DEF LeaveSlice, Advance, IInv, PointersInv
  <2>2. /\ Sound(g') /\ g'.current = Nil /\ g'.tasks = g.tasks
        /\ \A u : Settled(g, u) => Settled(g', u)
    BY <1>2, <1>3, <2>1, EndSliceSound
  <2>3. Listed(g') = Listed(g)
    BY <2>2 DEF Listed
  <2>4. cursor' \in Listed(g') \cup {Nil} /\ prev' \in Listed(g') /\ prev' # Nil
    BY <1>3, <2>1, <2>2, <2>3, NextOfEntry
  <2>5. TypeOK'
    BY <1>1, <1>3, <2>1, <2>2, <2>3, <2>4 DEF IInv, TypeOK, Sound, PCs
  <2>6. PointersInv' /\ SliceInv' /\ ByeInv' /\ SleepInv' /\ WalkPointers'
    BY <1>1, <1>2, <2>1, <2>2, <2>4
    DEF PointersInv, SliceInv, ByeInv, SleepInv, WalkPointers
  <2>7. (\A t \in IoTasks : Settled(g, t))'
    BY <1>1, <1>4, <2>2
  <2>8. Sound(g)'
    BY <2>2
  <2> QED BY <2>5, <2>6, <2>7, <2>8 DEF IInv
<1> QED BY <1>5, <1>6, <1>7

-----------------------------------------------------------------------------
(* The IO thread.                                                          *)

LEMMA IoStep ==
  ASSUME IInv, IoThread
  PROVE  IInv'
<1>1. UNCHANGED <<bye, ioHandler, pc, cursor, prev>>
  BY DEF IoThread, IoWake, IoNotice, IoNotify, IoSignal
<1>2. Sound(g) /\ ioHandler \in Task \cup {Nil} /\ pendingIo \subseteq Task \cup {Nil}
  BY DEF IInv, TypeOK
<1>3. ASSUME MutexFree, NEW woken, Kept(g, woken),
             g' = IF ioHandler = Nil THEN woken ELSE BeginAtomic(woken, ioHandler),
             pendingIo' \subseteq pendingIo, io' = "signal",
             UNCHANGED <<posted, signalled>>
      PROVE  IInv'
  <2>1. Kept(g, g')
    <3>1. CASE ioHandler = Nil
      BY <1>3, <3>1
    <3>2. CASE ioHandler # Nil
      <4>1. ioHandler \in Task /\ Settled(g, ioHandler)
        BY <1>2, <3>2 DEF IInv, IoTasks
      <4>2. Sound(woken) /\ woken.base[ioHandler] # 0
        BY <1>3, <4>1 DEF Kept, Settled
      <4>3. Kept(woken, BeginAtomic(woken, ioHandler))
        BY <4>1, <4>2, BeginAtomicKept
      <4> QED BY <1>3, <3>2, <4>3, KeptTransitive
    <3> QED BY <3>1, <3>2
  <2>2. /\ Sound(g') /\ g'.current = g.current /\ g'.tasks = g.tasks
        /\ Listed(g') = Listed(g) /\ \A u : Settled(g, u) <=> Settled(g', u)
    BY <2>1 DEF Kept, Settled, Listed
  <2>3. pc # "slice" /\ pc \notin {"walk", "sweep"}
    BY <1>3 DEF MutexFree
  <2>4. TypeOK'
    BY <1>1, <1>2, <1>3, <2>2 DEF IInv, TypeOK, Sound
  <2>5. PointersInv' /\ SliceInv' /\ ByeInv' /\ SleepInv' /\ WalkPointers'
    BY <1>1, <1>3, <2>2, <2>3
    DEF IInv, PointersInv, SliceInv, ByeInv, SleepInv, WalkPointers
  <2>6. (\A u \in IoTasks : Settled(g, u))'
    BY <1>1, <1>3, <2>2 DEF IInv, IoTasks
  <2>7. Sound(g)'
    BY <2>2
  <2> QED BY <2>4, <2>5, <2>6, <2>7 DEF IInv
<1>4. CASE \E t \in Task : IoWake(t)
  <2>1. PICK t \in Task : IoWake(t)
    BY <1>4
  <2> DEFINE woken == Wake(g, t)
  <2>2. /\ io' = "signal" /\ UNCHANGED <<posted, signalled>>
        /\ t \in pendingIo /\ pendingIo' \subseteq pendingIo
        /\ MutexFree
        /\ g' = IF ioHandler = Nil THEN woken ELSE BeginAtomic(woken, ioHandler)
    BY <2>1 DEF IoWake
  <2>3. g.base[t] # 0
    BY <2>2, TaskAssumption DEF IInv, IoTasks, Settled
  <2>4. Kept(g, woken)
    BY <1>2, <2>3, WakeKept
  <2> HIDE DEF woken
  <2> QED BY <1>3, <2>2, <2>4
<1>6. CASE IoNotify
  <2>1. /\ io' = "signal" /\ UNCHANGED <<posted, signalled>>
        /\ pendingIo' \subseteq pendingIo /\ MutexFree
        /\ g' = IF ioHandler = Nil THEN g ELSE BeginAtomic(g, ioHandler)
    BY <1>6 DEF IoNotify
  <2>2. Kept(g, g)
    BY <1>2, KeptReflexive
  <2> QED BY <1>3, <2>1, <2>2
<1>7. CASE IoNotice
  <2>1. /\ io = "idle" /\ g' = g /\ pendingIo' = pendingIo \ {Nil}
        /\ UNCHANGED <<posted, signalled>>
        /\ io' \in {"idle", "notify"}
    BY <1>7 DEF IoNotice
  <2>2. IoTasks' = IoTasks
    BY <1>1, <2>1 DEF IoTasks
  <2>3. TypeOK'
    BY <1>1, <2>1 DEF IInv, TypeOK
  <2>4. PointersInv' /\ SliceInv' /\ ByeInv' /\ SleepInv' /\ WalkPointers'
    BY <1>1, <2>1, <2>2
    DEF IInv, PointersInv, SliceInv, ByeInv, SleepInv, WalkPointers
  <2>5. (\A u \in IoTasks : Settled(g, u))' /\ Sound(g)'
    BY <2>1, <2>2 DEF IInv
  <2> QED BY <2>3, <2>4, <2>5 DEF IInv
<1>5. CASE IoSignal
  <2>1. /\ UNCHANGED <<g, pendingIo>> /\ io' = "idle" /\ posted' = TRUE
        /\ signalled' = (signalled \/ pc = "asleep")
    BY <1>5 DEF IoSignal
  <2>2. signalled' \in BOOLEAN /\ (pc = "asleep" => signalled')
    BY <2>1, Zenon
  <2>3. IoTasks' = IoTasks
    BY <1>1, <2>1 DEF IoTasks
  <2>4. TypeOK'
    BY <1>1, <2>1, <2>2 DEF IInv, TypeOK
  <2>5. PointersInv' /\ SliceInv' /\ ByeInv' /\ SleepInv' /\ WalkPointers'
    BY <1>1, <2>1, <2>2, <2>3
    DEF IInv, PointersInv, SliceInv, ByeInv, SleepInv, WalkPointers
  <2>6. (\A u \in IoTasks : Settled(g, u))' /\ Sound(g)'
    BY <2>1, <2>3 DEF IInv
  <2> QED BY <2>4, <2>5, <2>6 DEF IInv
<1> QED BY <1>4, <1>5, <1>6, <1>7 DEF IoThread


-----------------------------------------------------------------------------
(* The theorems.                                                           *)

LEMMA InitInv ==
  ASSUME Init
  PROVE  IInv
<1>1. Blank \in GlobalType
  <2>1. 0 \in 0..MaxCell /\ 0 \in 0..MaxExtra /\ -1 \in Int /\ <<>> \in Seq(Task)
    BY CycleAssumption
  <2> QED BY <2>1, ZenonT(30) DEF Blank, GlobalType
<1>2. /\ Blank.tasks = <<>> /\ Blank.handler = Nil /\ Blank.current = Nil
      /\ Blank.atomic = Nil /\ Blank.active = 0
      /\ Blank.cby = [t \in Task |-> 0] /\ Blank.base = [t \in Task |-> 0]
      /\ Blank.freeing = [t \in Task |-> FALSE]
      /\ Blank.left = [t \in Task |-> 0]
  BY DEF Blank
<1> DEFINE blank == Blank
<1>3. blank \in GlobalType
  BY <1>1
<1>4. /\ blank.tasks = <<>> /\ blank.handler = Nil /\ blank.current = Nil
      /\ blank.atomic = Nil /\ blank.active = 0
      /\ blank.cby = [t \in Task |-> 0] /\ blank.base = [t \in Task |-> 0]
      /\ blank.freeing = [t \in Task |-> FALSE]
      /\ blank.left = [t \in Task |-> 0]
  BY <1>2
<1>5. PICK t \in Task : g = Start(Spawn(blank, t), t)
  BY DEF Init
<1> HIDE DEF blank
<1>6. Awake(blank) = {} /\ Listed(blank) = {}
  BY <1>4 DEF Awake, Listed
<1>7. Sound(blank)
  <2>1. Cardinality(Awake(blank)) = 0
    BY <1>6, FS_EmptySet
  <2>2. \A u \in Task : ~ (blank.base[u] # 0 \/ blank.freeing[u])
    BY <1>4
  <2> QED BY <1>3, <1>4, <1>6, <2>1, <2>2 DEF Sound, Distinct
<1>8. /\ Moves(blank, Spawn(blank, t), {})
      /\ t \in Listed(Spawn(blank, t))
  BY <1>6, <1>7, SpawnMoves
<1>9. Moves(Spawn(blank, t), g, {})
  BY <1>5, <1>8, StartMoves DEF Moves
<1>10. Sound(g) /\ g.current = Nil /\ g \in GlobalType
  BY <1>4, <1>8, <1>9 DEF Moves, Sound
<1>11. TypeOK /\ PointersInv /\ SliceInv /\ WalkPointers /\ ByeInv /\ SleepInv
  BY <1>10
  DEF Init, TypeOK, PCs, PointersInv, SliceInv, WalkPointers, ByeInv, SleepInv
<1>12. IoTasks = {}
  BY DEF Init, IoTasks
<1> QED BY <1>10, <1>11, <1>12 DEF IInv

LEMMA StutterInv ==
  ASSUME IInv, UNCHANGED vars
  PROVE  IInv'
<1>1. UNCHANGED <<g, pc, cursor, prev, bye, posted, signalled, io, pendingIo, ioHandler>>
  BY DEF vars, threads
<1>2. TypeOK' /\ PointersInv' /\ SliceInv' /\ WalkPointers'
  BY <1>1 DEF IInv, TypeOK, PointersInv, SliceInv, WalkPointers
<1>3. IoTasks' = IoTasks
  BY <1>1 DEF IoTasks
<1>4. ByeInv' /\ SleepInv' /\ (\A t \in IoTasks : Settled(g, t))' /\ Sound(g)'
  BY <1>1, <1>3 DEF IInv, ByeInv, SleepInv
<1> QED BY <1>2, <1>4 DEF IInv

\* The inductive invariant: what every word relies on and leaves behind while
\* the program keeps the contract.
THEOREM Inductive ==
  ASSUME Liberties \subseteq {"kill atomic"}
  PROVE  Spec => []IInv
<1>1. Init => IInv
  BY InitInv
<1>2. IInv /\ [Next]_vars => IInv'
  BY WordsStep, ByeStepInv, QuietLoopStep, SlicesStep, IoStep, StutterInv
  DEF Next, LoopStep
<1> QED BY <1>1, <1>2, PTL DEF Spec

\* Every variable has its type, whatever tasks run: no saved cycle count is
\* above max_extra_cycles, and no count wraps below zero.
THEOREM TypeCorrect ==
  ASSUME Liberties \subseteq {"kill atomic"}
  PROVE  Spec => []TypeOK
<1>1. IInv => TypeOK
  BY DEF IInv
<1> QED BY <1>1, Inductive, PTL

\* tasks_active_count is the number of tasks that have cycles, for any number
\* of tasks: af_schedule and af_deschedule are called in step with the cycles.
THEOREM ActiveCountCorrect ==
  ASSUME Liberties \subseteq {"kill atomic"}
  PROVE  Spec => []ActiveCountExact
<1>1. IInv => ActiveCountExact
  BY DEF IInv, Sound, ActiveCountExact
<1> QED BY <1>1, Inductive, PTL

\* The main thread does not sleep through a wake-up of the IO thread.
THEOREM NoTaskStranded ==
  ASSUME Liberties \subseteq {"kill atomic"}
  PROVE  Spec => []NoStrandedTask
<1>1. IInv => NoStrandedTask
  BY DEF IInv, SleepInv, NoStrandedTask
<1> QED BY <1>1, Inductive, PTL

\* Unlinking is always given the predecessor of the task it unlinks.
THEOREM WalkPointersCorrect ==
  ASSUME Liberties \subseteq {"kill atomic"}
  PROVE  Spec => []WalkPointers
<1>1. IInv => WalkPointers
  BY DEF IInv
<1> QED BY <1>1, Inductive, PTL

\* No pointer of the runtime outlives the task it designates.
THEOREM PointersCorrect ==
  ASSUME Liberties \subseteq {"kill atomic"}
  PROVE  Spec => []NoDanglingPointer
<1>1. ASSUME IInv PROVE NoDanglingPointer
  <2>1. \A t \in Task : Settled(g, t) => t \in Listed(g)
    BY <1>1 DEF IInv, Sound, Settled
  <2>2. Awake(g) \subseteq Listed(g)
    BY <1>1, <2>1 DEF IInv, Sound, Awake
  <2>3. (pendingIo \cup {ioHandler}) \ {Nil} \subseteq Listed(g)
    BY <1>1, <2>1 DEF IInv, TypeOK, IoTasks
  <2>4. {g.current, g.atomic, cursor, prev, bye} \subseteq Listed(g) \cup {Nil}
    BY <1>1 DEF IInv, Sound, PointersInv
  <2>5. g.handler \in Listed(g) \cup {Nil}
    BY <1>1, <2>1 DEF IInv, Sound, GlobalType
  <2> QED BY <2>2, <2>3, <2>4, <2>5 DEF NoDanglingPointer
<1> QED BY <1>1, Inductive, PTL

-----------------------------------------------------------------------------
(* Atomic sections and the count of tasks.                                 *)

\* r is s after functions that neither create nor end a task
SameTasks(s, r) ==
  r.tasks = s.tasks /\ r.freeing = s.freeing /\ r.count = s.count

\* r is s after functions that stop the running task when they make another
\* task atomic
Excludes(s, r) ==
  /\ r.current = s.current
  /\ s.current # Nil /\ r.left[r.current] # 0
       => s.left[s.current] # 0 /\ r.atomic \in {s.atomic, s.current, Nil}

\* a section that is open stays with its owner
KeepsSection(s, r) == s.atomic # Nil => r.atomic = s.atomic

\* what the two laws need to know of s
Cycles(s) == s.left \in [Task -> 0..MaxCell] /\ s.current \in Task \cup {Nil}

LEMMA ExcludesTransitive ==
  ASSUME NEW s, NEW r, NEW q, Excludes(s, r), Excludes(r, q)
  PROVE  Excludes(s, q)
BY DEF Excludes

LEMMA SectionTransitive ==
  ASSUME NEW s, NEW r, NEW q, KeepsSection(s, r), KeepsSection(r, q)
  PROVE  KeepsSection(s, q)
BY DEF KeepsSection

LEMMA SameTasksTransitive ==
  ASSUME NEW s, NEW r, NEW q, SameTasks(s, r), SameTasks(r, q)
  PROVE  SameTasks(s, q)
BY DEF SameTasks

LEMMA SameTasksAlive ==
  ASSUME NEW s, NEW r, SameTasks(s, r)
  PROVE  Alive(r) = Alive(s) /\ Listed(r) = Listed(s)
BY DEF SameTasks, Alive, Listed

-----------------------------------------------------------------------------
(* The functions.                                                          *)

\* A function that leaves the section alone and gives the running task no
\* cycles once it has none.
LEMMA SectionAlone ==
  ASSUME NEW s, NEW r, r.current = s.current, r.atomic = s.atomic,
         \/ r.left[s.current] = s.left[s.current]
         \/ r.left[s.current] = 0
         \/ s.left[s.current] # 0
  PROVE  Excludes(s, r) /\ KeepsSection(s, r)
BY DEF Excludes, KeepsSection

LEMMA WakeSection ==
  ASSUME NEW s, NEW t \in Task
  PROVE  LET r == Wake(s, t) IN
         /\ SameTasks(s, r) /\ r.left = s.left /\ r.current = s.current
         /\ r.atomic = s.atomic
<1>1. CASE s.cby[t] = 0 /\ ~ s.freeing[t]
  BY <1>1 DEF Wake, Schedule, SameTasks
<1>2. CASE ~ (s.cby[t] = 0 /\ ~ s.freeing[t])
  BY <1>2 DEF Wake, SameTasks
<1> QED BY <1>1, <1>2

\* Making a task atomic stops the running one, if that is another.
LEMMA MakeAtomicSection ==
  ASSUME NEW s, NEW t \in Task, Cycles(s)
  PROVE  LET r == MakeAtomic(s, t) IN
         /\ SameTasks(s, r) /\ Excludes(s, r) /\ Cycles(r)
         /\ r.atomic = t
<1> DEFINE owned == [s EXCEPT !.nesting[t] = -1, !.atomic = t]
           ready == IF s.current = Nil THEN owned ELSE Yield(owned, s.current)
<1>1. /\ SameTasks(s, owned) /\ owned.left = s.left
      /\ owned.current = s.current /\ owned.atomic = t
  BY DEF SameTasks
<1>2. s.current = t => Excludes(s, owned)
  BY <1>1 DEF Excludes
<1> HIDE DEF owned
<1>3. /\ SameTasks(s, ready) /\ ready.current = s.current /\ ready.atomic = t
      /\ ready.left = IF s.current = Nil THEN s.left
                      ELSE [s.left EXCEPT ![s.current] = 0]
  BY <1>1 DEF Yield, SameTasks
<1> HIDE DEF ready
<1>4. CASE s.current = t
  BY <1>1, <1>2, <1>4 DEF MakeAtomic, owned, Cycles
<1>5. CASE s.current # t
  <2>1. MakeAtomic(s, t) = Wake(ready, t)
    BY <1>5 DEF MakeAtomic, owned, ready
  <2> DEFINE r == Wake(ready, t)
  <2>2. /\ SameTasks(ready, r) /\ r.left = ready.left
        /\ r.current = ready.current /\ r.atomic = ready.atomic
    BY WakeSection
  <2> HIDE DEF r
  <2>3. SameTasks(s, r)
    BY <1>3, <2>2, SameTasksTransitive
  <2>4. Cycles(r) /\ (s.current # Nil => r.left[s.current] = 0)
    BY <1>3, <2>2, CycleAssumption DEF Cycles
  <2> QED BY <1>3, <2>1, <2>2, <2>3, <2>4 DEF Excludes, r
<1> QED BY <1>4, <1>5

LEMMA BeginAtomicSection ==
  ASSUME NEW s, NEW t \in Task, Cycles(s)
  PROVE  LET r == BeginAtomic(s, t) IN
         /\ SameTasks(s, r) /\ Excludes(s, r) /\ KeepsSection(s, r) /\ Cycles(r)
         /\ r.atomic \in {s.atomic, t}
<1>1. CASE s.atomic = Nil
  BY <1>1, MakeAtomicSection DEF BeginAtomic, KeepsSection
<1>2. CASE s.atomic # Nil
  <2> DEFINE level == IF NestingLevel(s) < 0 THEN 0 ELSE NestingLevel(s) + 1
  <2>1. \/ BeginAtomic(s, t) = s
        \/ BeginAtomic(s, t) = [s EXCEPT !.nesting[t] = level]
    BY <1>2, Zenon DEF BeginAtomic
  <2> HIDE DEF level
  <2> DEFINE r == BeginAtomic(s, t)
  <2>2. /\ SameTasks(s, r) /\ r.left = s.left /\ r.current = s.current
        /\ r.atomic = s.atomic
    <3>1. CASE r = s
      BY <3>1 DEF SameTasks
    <3>2. CASE r = [s EXCEPT !.nesting[t] = level]
      <4> HIDE DEF r
      <4> QED BY <3>2 DEF SameTasks
    <3> QED BY <2>1, <3>1, <3>2
  <2> HIDE DEF r
  <2>3. Cycles(r) /\ Excludes(s, r) /\ KeepsSection(s, r)
    BY <2>2, SectionAlone DEF Cycles
  <2> QED BY <2>2, <2>3 DEF r
<1> QED BY <1>1, <1>2

LEMMA NotifySection ==
  ASSUME NEW s, Cycles(s), s.handler \in Task \cup {Nil}
  PROVE  LET r == NotifyHandler(s) IN
         SameTasks(s, r) /\ Excludes(s, r) /\ KeepsSection(s, r)
<1>1. CASE NotifyHandler(s) = s
  BY <1>1 DEF SameTasks, Excludes, KeepsSection
<1>2. CASE s.handler # Nil /\ NotifyHandler(s) = BeginAtomic(s, s.handler)
  BY <1>2, BeginAtomicSection
<1> QED BY <1>1, <1>2 DEF NotifyHandler

\* A section passes on, or closes, only at the word of its own task.
LEMMA EndAtomicSection ==
  ASSUME NEW s, NEW t \in Task, NEW next \in Task \cup {Nil}, Cycles(s)
  PROVE  LET r == EndAtomic(s, t, next) IN
         /\ SameTasks(s, r) /\ Excludes(s, r) /\ Cycles(r)
         /\ s.atomic # t => KeepsSection(s, r)
<1>1. CASE t # s.atomic
  BY <1>1 DEF EndAtomic, SameTasks, Excludes, KeepsSection
<1>2. CASE t = s.atomic /\ next # Nil /\ next # s.current
  BY <1>2, MakeAtomicSection DEF EndAtomic
<1>3. CASE t = s.atomic /\ ~ (next # Nil /\ next # s.current)
  <2> DEFINE r == [s EXCEPT !.atomic = Nil]
  <2>1. /\ SameTasks(s, r) /\ r.left = s.left /\ r.current = s.current
        /\ r.atomic = Nil
    BY DEF SameTasks
  <2>2. EndAtomic(s, t, next) = r
    BY <1>3 DEF EndAtomic
  <2> HIDE DEF r
  <2> QED BY <1>3, <2>1, <2>2 DEF Excludes, Cycles
<1> QED BY <1>1, <1>2, <1>3

-----------------------------------------------------------------------------
(* The count of tasks.                                                     *)

Counted(s) == s.count = Cardinality(Alive(s))

\* what every function but af_end_atomic keeps
Lawful(s, r) ==
  /\ Counted(s) => Counted(r)
  /\ Excludes(s, r)
  /\ KeepsSection(s, r)

LEMMA LawfulTransitive ==
  ASSUME NEW s, NEW r, NEW q, Lawful(s, r), Lawful(r, q)
  PROVE  Lawful(s, q)
BY ExcludesTransitive, SectionTransitive DEF Lawful

LEMMA SameTasksCounted ==
  ASSUME NEW s, NEW r, SameTasks(s, r), Counted(s)
  PROVE  Counted(r)
BY SameTasksAlive DEF SameTasks, Counted

LEMMA SoundCycles ==
  ASSUME NEW s, Sound(s)
  PROVE  /\ Cycles(s) /\ s.handler \in Task \cup {Nil}
         /\ s.freeing \in [Task -> BOOLEAN]
         /\ Alive(s) \in SUBSET Task /\ Alive(s) \subseteq Listed(s)
BY ListedTasks DEF Sound, GlobalType, Cycles, Alive

LEMMA SpawnLawful ==
  ASSUME NEW s, Sound(s), NEW t \in Task \ Listed(s)
  PROVE  Lawful(s, Spawn(s, t))
<1> DEFINE pushed ==
             [s EXCEPT !.tasks = <<t>> \o @, !.base[t] = 0, !.extra[t] = 0,
                       !.cby[t] = 0, !.left[t] = 0, !.freeing[t] = FALSE,
                       !.nesting[t] = -1, !.term[t] = FALSE, !.count = Inc(@)]
           r == NotifyHandler(pushed)
<1>1. Cycles(s) /\ s.handler \in Task \cup {Nil} /\ s.freeing \in [Task -> BOOLEAN]
      /\ Alive(s) \in SUBSET Task /\ Alive(s) \subseteq Listed(s)
  BY SoundCycles
<1>2. /\ s \in GlobalType /\ Distinct(s.tasks)
      /\ s.tasks \in Seq(Task) /\ Listed(s) = Entries(s.tasks)
  BY ListedTasks DEF Sound
<1>3. /\ pushed.tasks = <<t>> \o s.tasks /\ pushed.count = Inc(s.count)
      /\ pushed.freeing = [s.freeing EXCEPT ![t] = FALSE]
      /\ pushed.left = [s.left EXCEPT ![t] = 0]
      /\ pushed.current = s.current /\ pushed.atomic = s.atomic
      /\ pushed.handler = s.handler
  BY <1>2 DEF GlobalType
<1> HIDE DEF pushed
<1>4. Listed(pushed) = Listed(s) \cup {t}
  <2>1. Listed(pushed) = Entries(<<t>> \o s.tasks)
    BY <1>3 DEF Listed, Entries
  <2> QED BY <1>2, <2>1, PushedList
<1>5. Alive(pushed) = Alive(s) \cup {t} /\ t \notin Alive(s)
  BY <1>1, <1>3, <1>4 DEF Alive
<1>6. Cycles(pushed)
  BY <1>1, <1>3, CycleAssumption DEF Cycles
<1>7. pushed.left[s.current] = s.left[s.current] \/ pushed.left[s.current] = 0
  BY <1>1, <1>3, TaskAssumption DEF Cycles
<1>8. Excludes(s, pushed) /\ KeepsSection(s, pushed)
  BY <1>3, <1>7, SectionAlone
<1>9. Counted(s) => Counted(pushed)
  BY <1>1, <1>3, <1>5, CountUp DEF Counted
<1>10. SameTasks(pushed, r) /\ Excludes(pushed, r) /\ KeepsSection(pushed, r)
  BY <1>1, <1>3, <1>6, NotifySection
<1>11. Lawful(s, pushed) /\ Lawful(pushed, r)
  BY <1>8, <1>9, <1>10, SameTasksCounted DEF Lawful
<1>12. r = Spawn(s, t)
  BY DEF Spawn, pushed
<1> HIDE DEF r
<1> QED BY <1>11, <1>12, LawfulTransitive

LEMMA KillLawful ==
  ASSUME NEW s, s \in GlobalType, NEW t \in Alive(s)
  PROVE  Lawful(s, Kill(s, t))
<1> DEFINE ended == Deschedule([s EXCEPT !.cby[t] = 0, !.left[t] = 0,
                                         !.freeing[t] = TRUE, !.count = Dec(@)])
           r == NotifyHandler(ended)
<1>1. /\ Cycles(s) /\ s.handler \in Task \cup {Nil} /\ s.freeing \in [Task -> BOOLEAN]
      /\ Alive(s) \in SUBSET Task /\ t \in Task
  <2>1. s.tasks \in Seq(Task)
    BY DEF GlobalType
  <2>2. Listed(s) \subseteq Task
    BY <2>1 DEF Listed
  <2> QED BY <2>2 DEF GlobalType, Cycles, Alive
<1>2. /\ ended.tasks = s.tasks /\ ended.count = Dec(s.count)
      /\ ended.freeing = [s.freeing EXCEPT ![t] = TRUE]
      /\ ended.left = [s.left EXCEPT ![t] = 0]
      /\ ended.current = s.current /\ ended.atomic = s.atomic
      /\ ended.handler = s.handler
  BY DEF GlobalType, Deschedule
<1> HIDE DEF ended
<1>3. Alive(ended) = Alive(s) \ {t}
  <2>1. Listed(ended) = Listed(s)
    BY <1>2 DEF Listed
  <2> QED BY <1>1, <1>2, <2>1 DEF Alive
<1>4. Cycles(ended)
  BY <1>1, <1>2, CycleAssumption DEF Cycles
<1>5. ended.left[s.current] = s.left[s.current] \/ ended.left[s.current] = 0
  BY <1>1, <1>2, TaskAssumption DEF Cycles
<1>6. Excludes(s, ended) /\ KeepsSection(s, ended)
  BY <1>2, <1>5, SectionAlone
<1>7. Counted(s) => Counted(ended)
  BY <1>1, <1>2, <1>3, CountDown DEF Counted
<1>8. SameTasks(ended, r) /\ Excludes(ended, r) /\ KeepsSection(ended, r)
  BY <1>1, <1>2, <1>4, NotifySection
<1>9. Lawful(s, ended) /\ Lawful(ended, r)
  BY <1>6, <1>7, <1>8, SameTasksCounted DEF Lawful
<1>10. r = Kill(s, t)
  BY DEF Kill, ended
<1> HIDE DEF r
<1> QED BY <1>9, <1>10, LawfulTransitive

-----------------------------------------------------------------------------
(* The functions that leave the list and the section alone.                *)

LEMMA AloneLawful ==
  ASSUME NEW s, NEW r, SameTasks(s, r), r.current = s.current,
         r.atomic = s.atomic,
         \/ r.left[s.current] = s.left[s.current]
         \/ r.left[s.current] = 0
         \/ s.left[s.current] # 0
  PROVE  Lawful(s, r)
BY SectionAlone, SameTasksCounted DEF Lawful

LEMMA ChargeLawful ==
  ASSUME NEW s, s.left[s.current] # 0
  PROVE  Lawful(s, Charge(s)) /\ SameTasks(s, Charge(s)) /\ Charge(s).atomic = s.atomic
<1>1. SameTasks(s, Charge(s)) /\ Charge(s).atomic = s.atomic
      /\ Charge(s).current = s.current
  BY DEF Charge, SameTasks
<1> QED BY <1>1, AloneLawful

LEMMA WakeLawful ==
  ASSUME NEW s, NEW t \in Task
  PROVE  Lawful(s, Wake(s, t))
BY WakeSection, AloneLawful

LEMMA YieldLawful ==
  ASSUME NEW s, Sound(s), NEW t \in Task
  PROVE  Lawful(s, Yield(s, t))
<1>1. SameTasks(s, Yield(s, t)) /\ Yield(s, t).atomic = s.atomic
      /\ Yield(s, t).current = s.current
      /\ Yield(s, t).left = [s.left EXCEPT ![t] = 0]
  BY DEF Yield, SameTasks
<1>2. Cycles(s)
  BY SoundCycles
<1>3. \/ Yield(s, t).left[s.current] = s.left[s.current]
      \/ Yield(s, t).left[s.current] = 0
  BY <1>1, <1>2, TaskAssumption DEF Cycles
<1> QED BY <1>1, <1>3, AloneLawful

LEMMA WaitLawful ==
  ASSUME NEW s, Cycles(s), NEW t \in Task
  PROVE  Lawful(s, Wait(s, t)) /\ SameTasks(s, Wait(s, t))
         /\ Wait(s, t).atomic = s.atomic /\ Wait(s, t).current = s.current
<1> DEFINE r == Wait(s, t)
<1>1. SameTasks(s, r) /\ r.atomic = s.atomic /\ r.current = s.current
      /\ r.left = [s.left EXCEPT ![t] = 0]
  BY DEF Wait, Deschedule, SameTasks
<1> HIDE DEF r
<1>2. r.left[s.current] = s.left[s.current] \/ r.left[s.current] = 0
  BY <1>1, TaskAssumption DEF Cycles
<1>3. Lawful(s, r)
  BY <1>1, <1>2, AloneLawful
<1> QED BY <1>1, <1>3 DEF r

\* The running task is started already.
LEMMA StartLawful ==
  ASSUME NEW s, Sound(s), NEW t \in Task, s.current # Nil => s.base[s.current] # 0
  PROVE  Lawful(s, Start(s, t))
<1> DEFINE r == Start(s, t)
<1>1. Cycles(s)
  BY SoundCycles
<1>2. CASE s.base[t] = 0 /\ ~ s.freeing[t]
  <2>1. SameTasks(s, r) /\ r.atomic = s.atomic /\ r.current = s.current
        /\ r.left = [s.left EXCEPT ![t] = DefaultCycles]
    BY <1>2 DEF Start, Schedule, SameTasks
  <2> HIDE DEF r
  <2>2. s.current = Nil => Lawful(s, r)
    BY <2>1, SameTasksCounted DEF Lawful, Excludes, KeepsSection
  <2>3. ASSUME s.current # Nil PROVE Lawful(s, r)
    <3>1. r.left[s.current] = s.left[s.current]
      BY <1>1, <1>2, <2>1, <2>3 DEF Cycles
    <3> QED BY <2>1, <3>1, AloneLawful
  <2> QED BY <2>2, <2>3 DEF r
<1>3. CASE ~ (s.base[t] = 0 /\ ~ s.freeing[t])
  <2>1. r = s
    BY <1>3 DEF Start
  <2> HIDE DEF r
  <2>2. SameTasks(s, r)
    BY <2>1 DEF SameTasks
  <2> QED BY <2>1, <2>2, AloneLawful DEF r
<1> QED BY <1>2, <1>3

LEMMA TerminateLawful ==
  ASSUME NEW s, Sound(s), NEW t \in Listed(s)
  PROVE  Lawful(s, Terminate(s, t))
<1>1. CASE s.freeing[t]
  <2>1. Terminate(s, t) = s /\ SameTasks(s, s)
    BY <1>1 DEF Terminate, SameTasks
  <2> QED BY <2>1, AloneLawful
<1>2. CASE ~ s.freeing[t] /\ ~ s.term[t]
  <2>1. t \in Alive(s) /\ s \in GlobalType
    BY <1>2 DEF Alive, Sound
  <2>2. Terminate(s, t) = Kill(s, t)
    BY <1>2 DEF Terminate
  <2> QED BY <2>1, <2>2, KillLawful
<1>3. CASE ~ s.freeing[t] /\ s.term[t] /\ s.cby[t] = 0
  <2> DEFINE r == Schedule([s EXCEPT !.cby[t] = DefaultCycles])
  <2>1. SameTasks(s, r) /\ r.atomic = s.atomic /\ r.current = s.current
        /\ r.left = s.left
    BY DEF Schedule, SameTasks
  <2>2. Terminate(s, t) = r
    BY <1>3 DEF Terminate
  <2> HIDE DEF r
  <2> QED BY <2>1, <2>2, AloneLawful
<1>4. CASE ~ s.freeing[t] /\ s.term[t] /\ s.cby[t] # 0
  <2>1. Terminate(s, t) = s /\ SameTasks(s, s)
    BY <1>4 DEF Terminate, SameTasks
  <2> QED BY <2>1, AloneLawful
<1> QED BY <1>1, <1>2, <1>3, <1>4

LEMMA ResetLawful ==
  ASSUME NEW s, Sound(s), NEW t \in Alive(s), NEW aborts \in BOOLEAN
  PROVE  Lawful(s, Reset(s, t, aborts))
<1> DEFINE r == [s EXCEPT !.base[t] = DefaultCycles, !.extra[t] = 0,
                          !.cby[t] = DefaultCycles]
<1>1. SameTasks(s, r) /\ r.atomic = s.atomic /\ r.current = s.current
      /\ r.left = s.left
  BY DEF SameTasks
<1>2. r \in GlobalType
  <2>1. t \in Task /\ s \in GlobalType /\ 0 \in 0..MaxExtra
    BY SoundCycles, CycleAssumption DEF Sound
  <2>2. /\ [s.base EXCEPT ![t] = DefaultCycles] \in [Task -> {0, DefaultCycles}]
        /\ [s.cby EXCEPT ![t] = DefaultCycles] \in [Task -> {0, DefaultCycles}]
        /\ [s.extra EXCEPT ![t] = 0] \in [Task -> 0..MaxExtra]
    BY <2>1 DEF GlobalType
  <2>3. r = [s EXCEPT !.base = [s.base EXCEPT ![t] = DefaultCycles],
                      !.extra = [s.extra EXCEPT ![t] = 0],
                      !.cby = [s.cby EXCEPT ![t] = DefaultCycles]]
    BY <2>1 DEF GlobalType
  <2> HIDE DEF r
  <2> QED BY <2>1, <2>2, <2>3 DEF GlobalType
<1>3. Reset(s, t, aborts) = IF aborts THEN r ELSE Kill(r, t)
  BY DEF Reset
<1> HIDE DEF r
<1>4. Lawful(s, r) /\ t \in Alive(r)
  BY <1>1, AloneLawful, SameTasksAlive
<1> QED BY <1>2, <1>3, <1>4, KillLawful, LawfulTransitive

-----------------------------------------------------------------------------
(* The steps.                                                              *)

\* the section passes on by a word of its task, which neither creates nor ends
\* a task
Passes(s, r) ==
  s.atomic # Nil /\ r.atomic # s.atomic
    => s.current = s.atomic /\ Alive(r) = Alive(s)

Laws(s, r) == (Counted(s) => Counted(r)) /\ Excludes(s, r) /\ Passes(s, r)

LEMMA LawfulLaws ==
  ASSUME NEW s, NEW r, Lawful(s, r)
  PROVE  Laws(s, r)
BY DEF Lawful, Laws, KeepsSection, Passes

\* af_end_atomic, then functions that leave the list and the section alone
LEMMA EndAtomicLaws ==
  ASSUME NEW s, NEW c, NEW r, SameTasks(s, c), Lawful(s, c), c.atomic = s.atomic,
         SameTasks(c, r), Excludes(c, r), c.atomic # s.current => KeepsSection(c, r)
  PROVE  Laws(s, r)
<1>1. Excludes(s, r)
  BY ExcludesTransitive DEF Lawful
<1>2. SameTasks(s, r)
  BY SameTasksTransitive
<1>3. (Counted(s) => Counted(r)) /\ Alive(r) = Alive(s)
  BY <1>2, SameTasksCounted, SameTasksAlive
<1> QED BY <1>1, <1>3 DEF Laws, Passes, KeepsSection

LEMMA WordLaws ==
  ASSUME IInv, TaskWord
  PROVE  Laws(g, g')
<1> DEFINE c == Charge(g)
<1>0. /\ pc = "slice" /\ bye = Nil /\ g.left[g.current] # 0
  BY DEF TaskWord, OtherWord, SpawnWord, ToTerminateWord, StartWord,
     TerminateWord, KillWord, YieldWord, WaitWord, WakeWord, AbortWord,
     BeginAtomicWord, EndAtomicWord, EndAtomicAndWaitWord, ToHandlerTaskWord,
     ToIoHandlerTaskWord, IoBlockWord, IoAsyncWord, ByeWord, Executes
<1>1. /\ Sound(c) /\ g.current \in Awake(g) /\ g.current \in Task
      /\ c.base = g.base /\ Listed(c) = Listed(g)
  BY <1>0, Charged
<1>2. /\ Lawful(g, c) /\ SameTasks(g, c) /\ c.atomic = g.atomic
      /\ c.current = g.current
  BY <1>0, ChargeLawful DEF Lawful, Excludes
<1>3. Alive(c) = Alive(g) /\ Alive(g) \subseteq Listed(g) /\ Listed(g) \subseteq Task
  BY <1>2, SameTasksAlive, ListedTasks DEF IInv, Alive
<1>4. Cycles(c)
  BY <1>1, SoundCycles
<1> HIDE DEF c
<1>5. SUFFICES ASSUME ~ EndAtomicWord, ~ EndAtomicAndWaitWord
               PROVE  Lawful(c, g')
  <2>1. CASE EndAtomicWord
    <3>1. PICK next \in Task \cup {Nil} : g' = EndAtomic(c, g.current, next)
      BY <2>1 DEF EndAtomicWord, c
    <3>2. /\ SameTasks(c, g') /\ Excludes(c, g')
          /\ c.atomic # g.current => KeepsSection(c, g')
      BY <1>1, <1>4, <3>1, EndAtomicSection
    <3> QED BY <1>2, <3>2, EndAtomicLaws
  <2>2. CASE EndAtomicAndWaitWord
    <3>1. PICK next \in Task \cup {Nil} :
            g' = EndAtomicAndWait(c, g.current, next)
      BY <2>2 DEF EndAtomicAndWaitWord, c
    <3> DEFINE e == EndAtomic(c, g.current, next)
    <3>2. /\ SameTasks(c, e) /\ Excludes(c, e) /\ Cycles(e)
          /\ c.atomic # g.current => KeepsSection(c, e)
      BY <1>1, <1>4, EndAtomicSection
    <3>3. g' = Wait(e, g.current)
      BY <3>1 DEF EndAtomicAndWait
    <3> HIDE DEF e
    <3>4. SameTasks(e, g') /\ Lawful(e, g')
      BY <1>1, <3>2, <3>3, WaitLawful
    <3>5. SameTasks(c, g') /\ Excludes(c, g')
          /\ (c.atomic # g.current => KeepsSection(c, g'))
      BY <3>2, <3>4, SameTasksTransitive, ExcludesTransitive, SectionTransitive
      DEF Lawful
    <3> QED BY <1>2, <3>5, EndAtomicLaws
  <2> QED BY <1>2, <2>1, <2>2, LawfulTransitive, LawfulLaws
<1>6. SameTasks(c, c) /\ Lawful(c, c)
  BY AloneLawful DEF SameTasks
<1>7. CASE OtherWord \/ ToIoHandlerTaskWord \/ IoAsyncWord \/ ByeWord
  BY <1>6, <1>7 DEF OtherWord, ToIoHandlerTaskWord, IoAsyncWord, ByeWord, c
<1>8. CASE SpawnWord
  BY <1>1, <1>8, SpawnLawful DEF SpawnWord, c
<1>9. CASE ToTerminateWord
  <2>1. PICK t \in Alive(g), set \in BOOLEAN : g' = [c EXCEPT !.term[t] = set]
    BY <1>9 DEF ToTerminateWord, c
  <2>2. /\ SameTasks(c, g') /\ g'.current = c.current /\ g'.atomic = c.atomic
        /\ g'.left = c.left
    BY <2>1 DEF SameTasks
  <2> QED BY <2>2, AloneLawful
<1>10. CASE StartWord
  <2>1. PICK t \in Alive(g) : g' = Start(c, t)
    BY <1>10 DEF StartWord, c
  <2>2. c.base[c.current] # 0
    BY <1>1, <1>2 DEF IInv, Sound, Settled
  <2> QED BY <1>1, <1>3, <2>1, <2>2, StartLawful
<1>11. CASE TerminateWord
  <2>1. PICK t \in Alive(g) : g' = Terminate(c, t)
    BY <1>11 DEF TerminateWord, c
  <2> QED BY <1>1, <1>3, <2>1, TerminateLawful
<1>12. CASE KillWord
  <2>1. PICK t \in Alive(g) : g' = Kill(c, t)
    BY <1>12 DEF KillWord, c
  <2> QED BY <1>1, <1>3, <2>1, KillLawful DEF Sound
<1>13. CASE YieldWord
  BY <1>1, <1>13, YieldLawful DEF YieldWord, c
<1>14. CASE WaitWord \/ IoBlockWord
  <2>1. PICK t \in Task : g' = Wait(c, t)
    BY <1>1, <1>3, <1>14 DEF WaitWord, IoBlockWord, c
  <2> QED BY <1>4, <2>1, WaitLawful
<1>15. CASE WakeWord
  <2>1. PICK t \in Task : g' = Wake(c, t)
    BY <1>3, <1>15 DEF WakeWord, c
  <2> QED BY <2>1, WakeLawful
<1>16. CASE AbortWord
  <2>1. PICK aborts \in BOOLEAN : g' = Reset(c, g.current, aborts)
    BY <1>16 DEF AbortWord, c
  <2>2. g.current \in Alive(c)
    BY <1>1, <1>3 DEF IInv, Sound, Settled, Alive
  <2> QED BY <1>1, <2>1, <2>2, ResetLawful
<1>17. CASE BeginAtomicWord
  BY <1>1, <1>4, <1>17, BeginAtomicSection, SameTasksCounted
  DEF BeginAtomicWord, c, Lawful
<1>18. CASE ToHandlerTaskWord
  <2>1. PICK t \in Task \cup {Nil} : g' = [c EXCEPT !.handler = t]
    BY <1>18 DEF ToHandlerTaskWord, c
  <2>2. /\ SameTasks(c, g') /\ g'.current = c.current /\ g'.atomic = c.atomic
        /\ g'.left = c.left
    BY <2>1 DEF SameTasks
  <2> QED BY <2>2, AloneLawful
<1> QED BY <1>5, <1>7, <1>8, <1>9, <1>10, <1>11, <1>12, <1>13, <1>14, <1>15,
           <1>16, <1>17, <1>18 DEF TaskWord

LEMMA ByeLaws ==
  ASSUME IInv, ByeStep
  PROVE  Laws(g, g')
<1>1. bye \in Listed(g) /\ g' = Terminate(g, bye)
  BY DEF ByeStep, IInv, PointersInv
<1> QED BY <1>1, TerminateLawful, LawfulLaws DEF IInv

\* af_free_task frees a task that no longer counts, and with it its section.
LEMMA ReapLaws ==
  ASSUME IInv, Reap
  PROVE  /\ Counted(g) => Counted(g')
         /\ g'.atomic # g.atomic => g.freeing[g.atomic]
<1>1. /\ pc \in {"walk", "sweep"} /\ cursor \in Listed(g) /\ g.freeing[cursor]
      /\ prev \in Listed(g) \cup {Nil} /\ Sound(g)
      /\ cursor = IF prev = Nil THEN First(g.tasks) ELSE NextOf(g.tasks, prev)
      /\ g' = Free(g, prev, cursor)
  BY DEF Reap, IInv, PointersInv, WalkPointers
<1>2. Listed(g') = Listed(g) \ {cursor}
  BY <1>1, FreeSound
<1>3. /\ g'.count = g.count
      /\ g'.freeing = [g.freeing EXCEPT ![cursor] = FALSE]
      /\ g'.atomic = IF g.atomic = cursor THEN Nil ELSE g.atomic
  BY <1>1 DEF Free
<1>4. g.freeing \in [Task -> BOOLEAN] /\ Listed(g) \subseteq Task
  BY <1>1, SoundCycles, ListedTasks
<1>5. Alive(g') = Alive(g)
  BY <1>1, <1>2, <1>3, <1>4 DEF Alive
<1> QED BY <1>1, <1>3, <1>5 DEF Counted

\* The IO thread opens a section only for its handler task, and only when none
\* is open.
LEMMA IoLaws ==
  ASSUME IInv, IoThread
  PROVE  /\ SameTasks(g, g') /\ KeepsSection(g, g')
         /\ UNCHANGED <<pc, cursor, ioHandler>>
         /\ pc = "slice" => g' = g
         /\ g'.atomic \in {g.atomic, ioHandler}
<1>1. UNCHANGED <<pc, cursor, ioHandler>>
  BY DEF IoThread, IoWake, IoNotice, IoNotify, IoSignal
<1>2. Sound(g) /\ ioHandler \in Task \cup {Nil}
  BY DEF IInv, TypeOK
<1>3. ASSUME MutexFree, NEW woken, SameTasks(g, woken), Cycles(woken),
             woken.atomic = g.atomic,
             g' = IF ioHandler = Nil THEN woken ELSE BeginAtomic(woken, ioHandler)
      PROVE  /\ SameTasks(g, g') /\ KeepsSection(g, g')
             /\ pc = "slice" => g' = g
             /\ g'.atomic \in {g.atomic, ioHandler}
  <2>1. pc # "slice"
    BY <1>3 DEF MutexFree
  <2>2. CASE ioHandler = Nil
    BY <1>3, <2>1, <2>2 DEF KeepsSection
  <2>3. CASE ioHandler # Nil
    <3>1. /\ SameTasks(woken, g') /\ KeepsSection(woken, g')
          /\ g'.atomic \in {woken.atomic, ioHandler}
      BY <1>2, <1>3, <2>3, BeginAtomicSection
    <3> QED BY <1>3, <2>1, <3>1, SameTasksTransitive DEF KeepsSection
  <2> QED BY <2>2, <2>3
<1>4. CASE \E t \in Task : IoWake(t)
  <2>1. PICK t \in Task : IoWake(t)
    BY <1>4
  <2> DEFINE woken == Wake(g, t)
  <2>2. /\ MutexFree
        /\ g' = IF ioHandler = Nil THEN woken ELSE BeginAtomic(woken, ioHandler)
    BY <2>1 DEF IoWake
  <2>3. SameTasks(g, woken) /\ Cycles(woken) /\ woken.atomic = g.atomic
    BY <1>2, WakeSection, SoundCycles DEF Cycles
  <2> HIDE DEF woken
  <2> QED BY <1>1, <1>3, <2>2, <2>3
<1>5. CASE IoNotify
  <2>1. SameTasks(g, g) /\ Cycles(g)
    BY <1>2, SoundCycles DEF SameTasks
  <2>2. /\ MutexFree
        /\ g' = IF ioHandler = Nil THEN g ELSE BeginAtomic(g, ioHandler)
    BY <1>5 DEF IoNotify
  <2> QED BY <1>1, <1>3, <2>1, <2>2
<1>6. CASE IoNotice \/ IoSignal
  <2>1. g' = g
    BY <1>6 DEF IoNotice, IoSignal
  <2> QED BY <1>1, <2>1 DEF SameTasks, KeepsSection
<1> QED BY <1>4, <1>5, <1>6 DEF IoThread

-----------------------------------------------------------------------------
(* The theorems.                                                           *)

\* A slice runs beside another task's section only if that is the IO handler's,
\* which the IO thread may open in the gap, after the walk has looked.
SectionInv ==
  /\ TaskCountExact
  /\ pc = "gap" => g.atomic \in {Nil, cursor, ioHandler}
  /\ pc = "slice" /\ g.left[g.current] # 0
       => g.atomic \in {Nil, g.current, ioHandler}

LEMMA LoopSection ==
  ASSUME IInv, SectionInv,
         \/ Outer \/ Inner \/ PassOver \/ OpenGap \/ SkipSlice \/ EnterSlice
         \/ LeaveSlice \/ EndWalk \/ SweepPast \/ EndSweep \/ CondWait \/ CondWake
         \/ SpuriousWake \/ Relock
  PROVE  SectionInv' /\ g'.atomic = g.atomic
<1>1. CASE EnterSlice
  <2>1. /\ pc = "gap" /\ pc' = "slice" /\ cursor' = cursor
        /\ ioHandler' = ioHandler /\ g' = BeginSlice(g, cursor)
    BY <1>1 DEF EnterSlice
  <2>2. /\ SameTasks(g, g') /\ g'.atomic = g.atomic /\ g'.current = cursor
    BY <2>1 DEF BeginSlice, SameTasks
  <2>3. TaskCountExact'
    BY <2>2, SameTasksCounted DEF SectionInv, TaskCountExact, Counted
  <2> QED BY <2>1, <2>2, <2>3 DEF SectionInv
<1>2. CASE LeaveSlice
  <2>1. pc' = "walk" /\ g' = EndSlice(g)
    BY <1>2 DEF LeaveSlice
  <2>2. SameTasks(g, g') /\ g'.atomic = g.atomic
    BY <2>1 DEF EndSlice, Charge, SameTasks
  <2>3. TaskCountExact'
    BY <2>2, SameTasksCounted DEF SectionInv, TaskCountExact, Counted
  <2> QED BY <2>1, <2>2, <2>3 DEF SectionInv
<1>3. CASE \/ Outer \/ Inner \/ PassOver \/ OpenGap \/ SkipSlice \/ EndWalk
           \/ SweepPast \/ EndSweep \/ CondWait \/ CondWake \/ SpuriousWake
           \/ Relock
  <2>1. /\ g' = g /\ pc' # "slice"
        /\ pc' = "gap" => cursor' = cursor /\ g.atomic \in {Nil, cursor}
    BY <1>3
    DEF Outer, Inner, PassOver, OpenGap, SkipSlice, EndWalk, SweepPast, EndSweep,
        CondWait, CondWake, SpuriousWake, WakeFromWait, Relock
  <2>2. TaskCountExact'
    BY <2>1 DEF SectionInv, TaskCountExact
  <2> QED BY <2>1, <2>2 DEF SectionInv
<1> QED BY <1>1, <1>2, <1>3

LEMMA SectionStep ==
  ASSUME IInv, SectionInv, [Next]_vars
  PROVE  SectionInv'
<1>1. CASE TaskWord \/ ByeStep
  <2>1. Laws(g, g')
    BY <1>1, WordLaws, ByeLaws
  <2>2. pc = "slice" /\ UNCHANGED <<pc, cursor>>
    BY <1>1
    DEF ByeStep, threads, TaskWord, OtherWord, SpawnWord, ToTerminateWord,
        StartWord, TerminateWord, KillWord, YieldWord, WaitWord, WakeWord,
        AbortWord, BeginAtomicWord, EndAtomicWord, EndAtomicAndWaitWord,
        ToHandlerTaskWord, ToIoHandlerTaskWord, IoBlockWord, IoAsyncWord,
        ByeWord, Executes
  <2>3. {Nil, g.current, ioHandler} \subseteq {Nil, g.current, ioHandler'}
    BY <1>1
    DEF ByeStep, TaskWord, OtherWord, SpawnWord, ToTerminateWord,
        StartWord, TerminateWord, KillWord, YieldWord, WaitWord, WakeWord,
        AbortWord, BeginAtomicWord, EndAtomicWord, EndAtomicAndWaitWord,
        ToHandlerTaskWord, ToIoHandlerTaskWord, MayHandleIo, IoBlockWord,
        IoAsyncWord, ByeWord
  <2>4. TaskCountExact'
    BY <2>1 DEF SectionInv, TaskCountExact, Laws, Counted
  <2>5. g.current # Nil
    BY <2>2 DEF IInv, PointersInv
  <2> QED BY <2>1, <2>2, <2>3, <2>4, <2>5 DEF SectionInv, Laws, Excludes
<1>2. CASE Reap
  <2>1. pc' \in {"walk", "sweep"} /\ TaskCountExact'
    BY <1>2, ReapLaws DEF Reap, SectionInv, TaskCountExact, Counted
  <2> QED BY <2>1 DEF SectionInv
<1>3. CASE IoThread
  <2>1. /\ SameTasks(g, g') /\ UNCHANGED <<pc, cursor, ioHandler>>
        /\ pc = "slice" => g' = g
        /\ g'.atomic \in {g.atomic, ioHandler}
    BY <1>3, IoLaws
  <2>2. TaskCountExact'
    BY <2>1, SameTasksCounted DEF SectionInv, TaskCountExact, Counted
  <2> QED BY <2>1, <2>2 DEF SectionInv
<1>4. CASE UNCHANGED vars
  BY <1>4 DEF vars, threads, SectionInv, TaskCountExact
<1> QED BY <1>1, <1>2, <1>3, <1>4, LoopSection DEF Next, LoopStep

LEMMA SectionInit ==
  ASSUME Init
  PROVE  SectionInv
<1> DEFINE blank == Blank
<1>1. /\ blank.tasks = <<>> /\ blank.handler = Nil /\ blank.current = Nil
      /\ blank.count = 0 /\ blank.atomic = Nil
      /\ blank.freeing = [t \in Task |-> FALSE]
      /\ blank.base = [t \in Task |-> 0] /\ blank.active = 0
      /\ blank.cby = [t \in Task |-> 0]
  BY DEF Blank
<1>2. blank \in GlobalType
  <2>1. 0 \in 0..MaxCell /\ 0 \in 0..MaxExtra /\ -1 \in Int /\ <<>> \in Seq(Task)
    BY CycleAssumption
  <2> QED BY <2>1, ZenonT(30) DEF Blank, GlobalType
<1>3. PICK t \in Task : g = Start(Spawn(blank, t), t)
  BY DEF Init
<1>4. pc = "outer"
  BY DEF Init
<1> HIDE DEF blank
<1>5. Listed(blank) = {} /\ Awake(blank) = {}
  BY <1>1 DEF Listed, Awake
<1>6. Counted(blank)
  BY <1>1, <1>5, FS_EmptySet DEF Counted, Alive
<1>7. Sound(blank)
  <2>1. Cardinality(Awake(blank)) = 0
    BY <1>5, FS_EmptySet
  <2>2. \A u \in Task : ~ (blank.base[u] # 0 \/ blank.freeing[u])
    BY <1>1
  <2> QED BY <1>1, <1>2, <1>5, <2>1, <2>2 DEF Sound, Distinct
<1>8. Lawful(blank, Spawn(blank, t)) /\ Sound(Spawn(blank, t))
      /\ Spawn(blank, t).current = Nil
  BY <1>1, <1>5, <1>7, SpawnLawful, SpawnMoves DEF Moves
<1>9. Lawful(Spawn(blank, t), g)
  BY <1>3, <1>8, StartLawful
<1>10. Counted(g)
  BY <1>6, <1>8, <1>9 DEF Lawful
<1> QED BY <1>4, <1>10 DEF SectionInv, TaskCountExact, Counted

\* The two counts and the exclusion rest on one inductive invariant, SectionInv
\* over IInv.
THEOREM SectionInductive ==
  ASSUME Liberties \subseteq {"kill atomic"}
  PROVE  Spec => []SectionInv
<1>1. Init => SectionInv
  BY SectionInit
<1>2. IInv /\ SectionInv /\ [Next]_vars => SectionInv'
  BY SectionStep
<1> QED BY <1>1, <1>2, Inductive, PTL DEF Spec

\* TASKS is the number of tasks spawned and not killed: af_spawn_task and
\* af_kill_task count each task once, whatever the sections and BYE do between.
THEOREM TaskCountCorrect ==
  ASSUME Liberties \subseteq {"kill atomic"}
  PROVE  Spec => []TaskCountExact
<1>1. SectionInv => TaskCountExact
  BY DEF SectionInv
<1> QED BY <1>1, SectionInductive, PTL

\* While a task is atomic no other task executes a word, in a program without
\* an IO handler task: af_make_atomic stops the task that opened the section
\* for another at once, and the walk passes over the rest.
THEOREM AtomicExclusionCorrect ==
  ASSUME Liberties \subseteq {"kill atomic"}, ">IO-HANDLER-TASK" \notin Words
  PROVE  Spec => []AtomicExclusion
<1> DEFINE NoIoHandler == ioHandler = Nil
<1>1. Init => NoIoHandler
  BY DEF Init
<1>2. NoIoHandler /\ [Next]_vars => NoIoHandler'
  BY DEF Next, vars, LoopStep, Outer, Inner, Reap, PassOver, OpenGap, SkipSlice,
         EnterSlice, LeaveSlice, EndWalk, SweepPast, EndSweep, CondWait, CondWake,
         SpuriousWake, WakeFromWait, Relock, ByeStep, TaskWord, OtherWord,
         SpawnWord, ToTerminateWord, StartWord, TerminateWord, KillWord, YieldWord,
         WaitWord, WakeWord, AbortWord, BeginAtomicWord, EndAtomicWord,
         EndAtomicAndWaitWord, ToHandlerTaskWord, ToIoHandlerTaskWord, Executes,
         IoBlockWord, IoAsyncWord, ByeWord, IoThread, IoWake, IoNotice, IoNotify,
         IoSignal
<1>3. SectionInv /\ NoIoHandler => AtomicExclusion
  BY DEF SectionInv, AtomicExclusion
<1> QED BY <1>1, <1>2, <1>3, SectionInductive, PTL DEF Spec

\* An open section ends by a word of its own task, or after that task's death,
\* with the IO thread and the handler requests of spawns and kills in between.
THEOREM AtomicKeptCorrect ==
  ASSUME Liberties \subseteq {"kill atomic"}
  PROVE  Spec => AtomicKept
<1> DEFINE KeptStep == g.atomic # Nil /\ g'.atomic # g.atomic
                      => \/ g.current = g.atomic /\ Alive(g') = Alive(g)
                         \/ g.freeing[g.atomic]
<1>1. ASSUME IInv, SectionInv, [Next]_vars
      PROVE  KeptStep
  <2>1. CASE TaskWord \/ ByeStep
    BY <1>1, <2>1, WordLaws, ByeLaws DEF Laws, Passes
  <2>2. CASE Reap
    BY <1>1, <2>2, ReapLaws
  <2>3. CASE IoThread
    BY <1>1, <2>3, IoLaws DEF KeepsSection
  <2>4. CASE UNCHANGED vars
    BY <2>4 DEF vars
  <2> QED BY <1>1, <2>1, <2>2, <2>3, <2>4, LoopSection DEF Next, LoopStep
<1>2. IInv /\ SectionInv /\ [Next]_vars => [KeptStep]_vars
  BY <1>1
<1> QED BY <1>2, Inductive, SectionInductive, PTL DEF Spec, AtomicKept

===============================================================================
