------------------------------ MODULE LockProofs ------------------------------
(***************************************************************************)
(* Theorems about Lock, for every set of tasks, every set of unlocking     *)
(* words, every waiting size and every choice of the points at which a     *)
(* slice may end.                                                          *)
(***************************************************************************)
EXTENDS Lock, FiniteSetTheorems, TLAPS

Under == {"test", "locked", "release", "give", "leave"}

\* A task in a section under the secondary lock owns it.
SecondaryInv == \A t \in Task : pc[t] \in Under => secondary = t

\* A task that LOCK has returned to, or is about to, owns the primary lock.
PrimaryInv ==
  \A t \in Task : /\ t \in inside => primary = t /\ pc[t] \notin {"unlock", "give"}
                  /\ pc[t] = "locked" => primary = t

\* A task that sleeps will look at the primary lock when it wakes.
AsleepInv == \A t \in Task \ awake : pc[t] = "lock"

IInv == TypeOK /\ SecondaryInv /\ PrimaryInv /\ AsleepInv

-----------------------------------------------------------------------------
(* The waiting list.                                                       *)

LEMMA ExpandedType ==
  ASSUME NEW list \in Seq(Task \cup {Junk})
  PROVE  Expanded(list) \in Seq(Task \cup {Junk})
  BY SMT DEF Expanded

LEMMA AppendType ==
  ASSUME NEW S, NEW list \in Seq(S), NEW t \in S
  PROVE  /\ Append(list, t) \in Seq(S)
         /\ Len(Append(list, t)) = Len(list) + 1
         /\ \A i \in 1 .. Len(list) : Append(list, t)[i] = list[i]
         /\ Append(list, t)[Len(list) + 1] = t
  BY SMT

LEMMA TailType ==
  ASSUME NEW S, NEW list \in Seq(S), list # <<>>
  PROVE  /\ Tail(list) \in Seq(S) /\ Head(list) = list[1]
         /\ Head(list) \in S
         /\ Len(list) \in Nat \ {0}
         /\ Len(Tail(list)) = Len(list) - 1
         /\ \A i \in 1 .. Len(list) - 1 : Tail(list)[i] = list[i + 1]
  BY SMT

-----------------------------------------------------------------------------
(* Types.                                                                  *)

LEMMA CountType ==
  ASSUME NEW c \in Calls
  PROVE  c.count \in CountLimits \cup {0} /\ c.count \in Nat
<1>1. c.count \in CountLimits \cup {0}
  BY DEF Calls
<1>2. CountLimits \subseteq Nat
  BY LockSizeAssumption
<1>3. CASE c.count = 0
  BY <1>1, <1>3
<1>4. CASE c.count \in CountLimits
  BY <1>1, <1>2, <1>4
<1> QED BY <1>1, <1>3, <1>4

LEMMA TypeInit == Init => TypeOK
  BY LockSizeAssumption, SMT DEF Init, TypeOK, Points, Calls, UnlockNames

LEMMA TypeStep ==
  ASSUME TypeOK, NEW t \in Task, CallLock(t) \/ CallUnlock(t) \/ Execute(t)
  PROVE  TypeOK'
<1> USE LockSizeAssumption, LockWordsAssumption DEF TypeOK, At, Goto
<1>1. CASE CallLock(t)
  BY <1>1, SMT DEF CallLock, Points, lock
<1>2. CASE CallUnlock(t)
  BY <1>2, SMT DEF CallUnlock, Points, lock, Calls
<1>3. CASE EnterLock(t) \/ EnterUnlock(t)
  BY <1>3, SMT DEF EnterLock, EnterUnlock, TakeSecondary, Points
<1>4. CASE LeaveLock(t) \/ LeaveUnlock(t) \/ ReleaseToWait(t)
  BY <1>4, SMT DEF LeaveLock, LeaveUnlock, ReleaseToWait, LeaveSecondary, Points
<1>5. CASE Acquire(t) \/ Refuse(t) \/ Free(t) \/ Park(t)
  BY <1>5, SMT DEF Acquire, Refuse, Free, Park, Points, lock
<1>6. CASE QueueUp(t)
  <2>1. waiting' \in Seq(Task \cup {Junk})
    <3>1. t \in Task \cup {Junk} /\ waiting \in Seq(Task \cup {Junk})
      OBVIOUS
    <3>2. Expanded(waiting) \in Seq(Task \cup {Junk})
      BY <3>1, ExpandedType
    <3>3. /\ Append(waiting, t) \in Seq(Task \cup {Junk})
          /\ Append(Expanded(waiting), t) \in Seq(Task \cup {Junk})
      BY <3>1, <3>2, AppendType
    <3> QED BY <1>6, <3>3 DEF QueueUp
  <2>2. size' \in Nat \ {0}
    BY <1>6, SMT DEF QueueUp
  <2> QED BY <1>6, <2>1, <2>2, SMT DEF QueueUp, Points
<1>7. CASE PassOn(t)
  <2>1. waiting' \in Seq(Task \cup {Junk}) /\ primary' \in Task \cup {Junk}
    BY <1>7, TailType DEF PassOn, MustPassOn, Dequeue
  <2>2. unlockCount' \in {0, unlockCount}
    BY <1>7 DEF PassOn, RestartCount
  <2> QED BY <1>7, <2>1, <2>2, SMT DEF PassOn, MustPassOn, Dequeue, WakeUp, Points
<1>8. CASE OnlyWake(t)
  <2>1. waiting' \in Seq(Task \cup {Junk})
    BY <1>8, TailType DEF OnlyWake, Dequeue
  <2>4. call' = call /\ primary' = primary
    BY <1>8 DEF OnlyWake, Dequeue
  <2>2. call[t].count \in CountLimits \cup {0} /\ call[t].count \in Nat
    BY CountType
  <2>3. /\ unlockCount' \in Nat
        /\ \E limit \in CountLimits \cup {0} : unlockCount' <= limit
    BY <1>8, <2>2, SMT DEF OnlyWake, PassesOn
  <2>5. awake' \subseteq Task /\ missed' \subseteq Task /\ pc' \in [Task -> Points]
    BY <1>8 DEF OnlyWake, Dequeue, WakeUp, Points
  <2>6. UNCHANGED <<inside, secondary, size>>
    BY <1>8 DEF OnlyWake, Dequeue
  <2> QED BY <2>1, <2>3, <2>4, <2>5, <2>6
<1> QED BY <1>1, <1>2, <1>3, <1>4, <1>5, <1>6, <1>7, <1>8 DEF Execute

-----------------------------------------------------------------------------
(* Exclusion.                                                              *)

LEMMA OwnersInit == Init => SecondaryInv /\ PrimaryInv /\ AsleepInv
  BY DEF Init, SecondaryInv, PrimaryInv, AsleepInv, Under

LEMMA OwnersStep ==
  ASSUME TypeOK, SecondaryInv, PrimaryInv,
         NEW t \in Task, CallLock(t) \/ CallUnlock(t) \/ Execute(t)
  PROVE  SecondaryInv' /\ PrimaryInv'
<1> USE LockTaskAssumption
    DEF TypeOK, SecondaryInv, PrimaryInv, Under, At, Goto, lock
<1>1. CASE CallLock(t) \/ CallUnlock(t)
  BY <1>1 DEF CallLock, CallUnlock
<1>2. CASE EnterLock(t) \/ EnterUnlock(t)
  BY <1>2 DEF EnterLock, EnterUnlock, TakeSecondary
<1>3. CASE LeaveLock(t) \/ LeaveUnlock(t) \/ ReleaseToWait(t)
  BY <1>3 DEF LeaveLock, LeaveUnlock, ReleaseToWait, LeaveSecondary
<1>4. CASE Acquire(t) \/ Refuse(t) \/ Free(t)
  BY <1>4 DEF Acquire, Refuse, Free
<1>5. CASE Park(t) \/ QueueUp(t)
  BY <1>5 DEF Park, QueueUp
<1>6. CASE PassOn(t)
  BY <1>6 DEF PassOn, MustPassOn, Dequeue, WakeUp
<1>7. CASE OnlyWake(t)
  BY <1>7 DEF OnlyWake, Dequeue, WakeUp
<1> QED BY <1>1, <1>2, <1>3, <1>4, <1>5, <1>6, <1>7 DEF Execute

LEMMA AsleepStep ==
  ASSUME TypeOK, AsleepInv, NEW t \in Task, CallLock(t) \/ CallUnlock(t) \/ Execute(t)
  PROVE  AsleepInv'
<1> USE DEF TypeOK, AsleepInv, At, Goto, lock
<1>1. CASE CallLock(t) \/ CallUnlock(t) \/ EnterLock(t) \/ EnterUnlock(t)
  BY <1>1 DEF CallLock, CallUnlock, EnterLock, EnterUnlock, TakeSecondary
<1>2. CASE LeaveLock(t) \/ LeaveUnlock(t) \/ ReleaseToWait(t)
  BY <1>2 DEF LeaveLock, LeaveUnlock, ReleaseToWait, LeaveSecondary
<1>3. CASE Acquire(t) \/ Refuse(t) \/ Free(t) \/ Park(t) \/ QueueUp(t)
  BY <1>3 DEF Acquire, Refuse, Free, Park, QueueUp
<1>4. CASE PassOn(t) \/ OnlyWake(t)
  BY <1>4 DEF PassOn, MustPassOn, OnlyWake, Dequeue, WakeUp
<1> QED BY <1>1, <1>2, <1>3, <1>4 DEF Execute

(* The strengthening is an invariant, whatever the constants.              *)
THEOREM LockInductive == Spec => []IInv
<1>1. Init => IInv
  BY TypeInit, OwnersInit DEF IInv
<1>2. IInv /\ [Next]_vars => IInv'
  <2>1. CASE UNCHANGED vars
    BY <2>1 DEF vars, lock, IInv, TypeOK, SecondaryInv, PrimaryInv, AsleepInv
  <2> QED BY <2>1, TypeStep, OwnersStep, AsleepStep DEF IInv, Next
<1> QED BY <1>1, <1>2, PTL DEF Spec

(* Every variable keeps its type.                                          *)
THEOREM LockTypeCorrect == Spec => []TypeOK
<1>1. IInv => TypeOK
  BY DEF IInv
<1> QED BY <1>1, LockInductive, PTL

(* No two tasks are between LOCK and the unlocking word at once, and who   *)
(* is there owns the lock.                                                 *)
THEOREM Exclusion == Spec => []MutualExclusion
<1>1. IInv => MutualExclusion
  BY DEF IInv, TypeOK, PrimaryInv, MutualExclusion
<1> QED BY <1>1, LockInductive, PTL

-----------------------------------------------------------------------------
(* Waking, wherever slices end.                                            *)

\* The owner is not on its way to sleep and not asleep, unless a wake-up has
\* missed it.
WakeInv ==
  \A t \in Task : primary = t =>
    t \in missed \/ (t \in awake /\ pc[t] \notin {"release", "park"})

LEMMA WakeStep ==
  ASSUME IInv, WakeInv, NEW t \in Task, CallLock(t) \/ CallUnlock(t) \/ Execute(t)
  PROVE  WakeInv'
<1> USE LockTaskAssumption
    DEF IInv, TypeOK, SecondaryInv, AsleepInv, WakeInv, Under, At, Goto, lock
<1>1. CASE CallLock(t) \/ CallUnlock(t)
  BY <1>1 DEF CallLock, CallUnlock
<1>2. CASE EnterLock(t) \/ EnterUnlock(t)
  BY <1>2 DEF EnterLock, EnterUnlock, TakeSecondary
<1>3. CASE LeaveLock(t) \/ LeaveUnlock(t) \/ ReleaseToWait(t)
  BY <1>3 DEF LeaveLock, LeaveUnlock, ReleaseToWait, LeaveSecondary
<1>4. CASE Acquire(t) \/ Refuse(t) \/ Free(t)
  BY <1>4 DEF Acquire, Refuse, Free
<1>5. CASE Park(t) \/ QueueUp(t)
  BY <1>5 DEF Park, QueueUp
<1>6. CASE PassOn(t)
  <2>1. /\ primary' = Head(waiting)
        /\ awake' = awake \cup ({Head(waiting)} \cap Task)
        /\ missed' = missed \cup ({Head(waiting)} \cap awake)
    BY <1>6 DEF PassOn, Dequeue, WakeUp
  <2>2. pc[t] = "give" /\ pc' = [pc EXCEPT ![t] = "leave"]
    BY <1>6 DEF PassOn, MustPassOn, Dequeue
  <2>3. ASSUME NEW u \in Task, u = Head(waiting), u \notin awake
        PROVE  u \in awake' /\ pc'[u] \notin {"release", "park"}
    BY <2>1, <2>2, <2>3
  <2> QED BY <2>1, <2>3
<1>7. CASE OnlyWake(t)
  BY <1>7 DEF OnlyWake, Dequeue, WakeUp
<1> QED BY <1>1, <1>2, <1>3, <1>4, <1>5, <1>6, <1>7 DEF Execute

(* A sleeping owner was handed the lock before it waited, wherever slices  *)
(* end, whatever the words and the list: WAIT after SIMPLE-UNLOCK is the   *)
(* only place where a hand-over goes unheard.                              *)
THEOREM OwnersHear == Spec => []OwnerHeard
<1>1. Init => WakeInv
  BY LockTaskAssumption DEF Init, WakeInv
<1>2. IInv /\ WakeInv /\ [Next]_vars => WakeInv'
  <2>1. CASE UNCHANGED vars
    BY <2>1 DEF vars, lock, WakeInv
  <2> QED BY <2>1, WakeStep DEF Next
<1>3. WakeInv => OwnerHeard
  BY DEF WakeInv, OwnerHeard
<1> QED BY <1>1, <1>2, <1>3, LockInductive, PTL DEF Spec

-----------------------------------------------------------------------------
(* The waiting list and its tasks.                                         *)

Queues(t) == pc[t] \in {"release", "park"} \/ t \notin awake

\* A task in the list is there once and is on its way to sleep, or sleeps.
QueueInv ==
  /\ \A i \in 1 .. Len(waiting) : \A t \in Task :
       waiting[i] = t => Queues(t)
  /\ \A i, j \in 1 .. Len(waiting) : \A t \in Task :
       waiting[i] = t /\ waiting[j] = t => i = j

\* An owner whose last unlocking word was UNLOCK is in LOCK, or between LOCK and
\* an unlocking word, or in UNLOCK.
OwnerInv ==
  \A t \in Task :
    primary = t /\ call[t].word = "UNLOCK" => t \in inside \/ pc[t] \notin {"idle", "leave"}

LEMMA QueueKept ==
  ASSUME QueueInv, UNCHANGED waiting, \A u \in Task : Queues(u) => Queues(u)'
  PROVE  QueueInv'
  BY DEF QueueInv

LEMMA QueueStep ==
  ASSUME IInv, QueueInv,
         NEW t \in Task, CallLock(t) \/ CallUnlock(t) \/ Execute(t)
  PROVE  QueueInv'
<1> USE LockTaskAssumption
    DEF IInv, TypeOK, SecondaryInv, AsleepInv, Queues, Under, At, Goto, lock
<1>1. CASE CallLock(t) \/ CallUnlock(t)
  <2>1. UNCHANGED waiting /\ \A u \in Task : Queues(u) => Queues(u)'
    BY <1>1 DEF CallLock, CallUnlock
  <2> QED BY <2>1, QueueKept
<1>2. CASE EnterLock(t) \/ EnterUnlock(t)
  <2>1. UNCHANGED waiting /\ \A u \in Task : Queues(u) => Queues(u)'
    BY <1>2 DEF EnterLock, EnterUnlock, TakeSecondary
  <2> QED BY <2>1, QueueKept
<1>3. CASE LeaveLock(t) \/ LeaveUnlock(t) \/ ReleaseToWait(t)
  <2>1. UNCHANGED waiting /\ \A u \in Task : Queues(u) => Queues(u)'
    BY <1>3 DEF LeaveLock, LeaveUnlock, ReleaseToWait, LeaveSecondary
  <2> QED BY <2>1, QueueKept
<1>4. CASE Acquire(t) \/ Refuse(t) \/ Free(t) \/ Park(t)
  <2>1. UNCHANGED waiting /\ \A u \in Task : Queues(u) => Queues(u)'
    BY <1>4 DEF Acquire, Refuse, Free, Park
  <2> QED BY <2>1, QueueKept
<1>5. CASE QueueUp(t)
  <2>1. pc[t] = "test" /\ t \in awake /\ awake' = awake
        /\ pc' = [pc EXCEPT ![t] = "release"]
    BY <1>5 DEF QueueUp
  <2>2. \A i \in 1 .. Len(waiting) : waiting[i] # t
    BY <2>1 DEF QueueInv
  <2>3. PICK list \in {waiting, Expanded(waiting)} : waiting' = Append(list, t)
    BY <1>5 DEF QueueUp
  <2>4. /\ list \in Seq(Task \cup {Junk}) /\ Len(list) = Len(waiting)
        /\ \A i \in 1 .. Len(list) : list[i] \in {waiting[i], Junk}
    BY ExpandedType DEF Expanded
  <2>5. /\ Len(waiting') = Len(list) + 1 /\ waiting'[Len(list) + 1] = t
        /\ \A i \in 1 .. Len(list) : waiting'[i] = list[i]
    <3>1. t \in Task \cup {Junk}
      OBVIOUS
    <3> QED BY <2>3, <2>4, <3>1, AppendType
  <2>6. /\ Len(waiting') = Len(waiting) + 1 /\ waiting'[Len(waiting) + 1] = t
        /\ \A i \in 1 .. Len(waiting) : waiting'[i] \in {waiting[i], Junk}
    BY <2>4, <2>5
  <2>7. \A u \in Task : Queues(u) \/ u = t => Queues(u)'
    BY <2>1
  <2>8. Len(waiting) \in Nat
    OBVIOUS
  <2>9. ASSUME NEW i \in 1 .. Len(waiting'), NEW u \in Task, waiting'[i] = u
        PROVE  /\ i \in 1 .. Len(waiting) => waiting[i] = u
               /\ i \notin 1 .. Len(waiting) => i = Len(waiting) + 1 /\ u = t
    BY <2>6, <2>8, <2>9
  <2>10. ASSUME NEW i \in 1 .. Len(waiting'), NEW u \in Task, waiting'[i] = u
         PROVE  Queues(u)'
    BY <2>7, <2>9, <2>10 DEF QueueInv
  <2>11. ASSUME NEW i \in 1 .. Len(waiting'), NEW j \in 1 .. Len(waiting'),
                NEW u \in Task, waiting'[i] = u, waiting'[j] = u
         PROVE  i = j
    BY <2>2, <2>9, <2>11 DEF QueueInv
  <2> QED BY <2>10, <2>11 DEF QueueInv
<1>6. CASE PassOn(t) \/ OnlyWake(t)
  <2>1. /\ pc[t] = "give" /\ t \in awake /\ waiting # <<>>
        /\ waiting' = Tail(waiting) /\ pc' = [pc EXCEPT ![t] = "leave"]
        /\ awake' = awake \cup ({Head(waiting)} \cap Task)
    BY <1>6 DEF PassOn, MustPassOn, OnlyWake, Dequeue, WakeUp
  <2>2. /\ Head(waiting) = waiting[1] /\ Len(waiting) \in Nat \ {0}
        /\ Len(waiting') = Len(waiting) - 1
        /\ \A i \in 1 .. Len(waiting') : waiting'[i] = waiting[i + 1]
    BY <2>1, TailType
  <2>3. \A i \in 1 .. Len(waiting') : i + 1 \in 1 .. Len(waiting) /\ i + 1 # 1
    BY <2>2
  <2>4. ASSUME NEW i \in 1 .. Len(waiting'), NEW u \in Task, waiting'[i] = u
        PROVE  Queues(u)'
    <3>1. waiting[i + 1] = u /\ waiting[1] # u
      <4>1. waiting[i + 1] = u /\ i + 1 \in 1 .. Len(waiting) /\ i + 1 # 1
        BY <2>2, <2>3, <2>4
      <4>2. 1 \in 1 .. Len(waiting)
        BY <2>2
      <4> QED BY <4>1, <4>2 DEF QueueInv
    <3>2. (pc[u] \in {"release", "park"} \/ u \notin awake) /\ u # t
      <4>1. Queues(u)
        BY <2>3, <3>1 DEF QueueInv
      <4> QED BY <2>1, <4>1
    <3> QED BY <2>1, <2>2, <3>1, <3>2
  <2>5. ASSUME NEW i \in 1 .. Len(waiting'), NEW j \in 1 .. Len(waiting'),
               NEW u \in Task, waiting'[i] = u, waiting'[j] = u
        PROVE  i = j
    <3>1. i + 1 = j + 1
      <4>1. waiting[i + 1] = u /\ waiting[j + 1] = u
        BY <2>2, <2>5
      <4> QED BY <2>3, <4>1 DEF QueueInv
    <3> QED BY <2>2, <3>1
  <2> QED BY <2>4, <2>5 DEF QueueInv
<1> QED BY <1>1, <1>2, <1>3, <1>4, <1>5, <1>6 DEF Execute

LEMMA OwnerStep ==
  ASSUME IInv, QueueInv, OwnerInv,
         NEW t \in Task, CallLock(t) \/ CallUnlock(t) \/ Execute(t)
  PROVE  OwnerInv'
<1> USE LockTaskAssumption
    DEF IInv, TypeOK, SecondaryInv, PrimaryInv, AsleepInv, OwnerInv, Under, At, Goto, lock
<1>1. CASE CallLock(t) \/ CallUnlock(t)
  BY <1>1 DEF CallLock, CallUnlock
<1>2. CASE EnterLock(t) \/ EnterUnlock(t)
  BY <1>2 DEF EnterLock, EnterUnlock, TakeSecondary
<1>3. CASE LeaveLock(t) \/ LeaveUnlock(t) \/ ReleaseToWait(t)
  BY <1>3 DEF LeaveLock, LeaveUnlock, ReleaseToWait, LeaveSecondary
<1>4. CASE Acquire(t) \/ Refuse(t) \/ Free(t)
  BY <1>4 DEF Acquire, Refuse, Free
<1>5. CASE Park(t) \/ QueueUp(t)
  BY <1>5 DEF Park, QueueUp
<1>6. CASE PassOn(t)
  <2>1. /\ pc[t] = "give" /\ t \in awake /\ waiting # <<>> /\ inside' = inside
        /\ primary' = Head(waiting) /\ pc' = [pc EXCEPT ![t] = "leave"]
    BY <1>6 DEF PassOn, MustPassOn, Dequeue
  <2>2. Head(waiting) = waiting[1] /\ 1 \in 1 .. Len(waiting)
    BY <2>1, TailType
  <2>3. ASSUME Head(waiting) \in Task
        PROVE  Head(waiting) # t /\ pc[Head(waiting)] \notin {"idle", "leave"}
    <3>1. Queues(Head(waiting))
      BY <2>2, <2>3 DEF QueueInv
    <3> QED BY <2>1, <2>3, <3>1 DEF Queues
  <2> QED BY <2>1, <2>3
<1>7. CASE OnlyWake(t)
  <2>1. /\ call[t].word # "UNLOCK" /\ UNCHANGED <<primary, call, inside>>
        /\ pc' = [pc EXCEPT ![t] = "leave"]
    BY <1>7 DEF OnlyWake, PassesOn, Dequeue
  <2> QED BY <2>1
<1> QED BY <1>1, <1>2, <1>3, <1>4, <1>5, <1>6, <1>7 DEF Execute

(* A task that has left with UNLOCK owns nothing, whatever words the       *)
(* others call, wherever slices end and however often the list grows.      *)
THEOREM LeaversOwnNothing == Spec => []OutsideOwnsNothing
<1>1. Init => QueueInv /\ OwnerInv
  BY LockTaskAssumption DEF Init, QueueInv, OwnerInv
<1>2. IInv /\ QueueInv /\ OwnerInv /\ [Next]_vars => QueueInv' /\ OwnerInv'
  <2> SUFFICES ASSUME IInv, QueueInv, OwnerInv, [Next]_vars
               PROVE  QueueInv' /\ OwnerInv'
    OBVIOUS
  <2>1. CASE UNCHANGED vars
    BY <2>1 DEF vars, lock, QueueInv, Queues, OwnerInv
  <2>2. ASSUME NEW t \in Task, CallLock(t) \/ CallUnlock(t) \/ Execute(t)
        PROVE  QueueInv' /\ OwnerInv'
    BY <2>2, QueueStep, OwnerStep
  <2> QED BY <2>1, <2>2 DEF Next
<1>3. OwnerInv => OutsideOwnsNothing
  BY DEF OwnerInv, OutsideOwnsNothing
<1> QED BY <1>1, <1>2, <1>3, LockInductive, PTL DEF Spec

-----------------------------------------------------------------------------
(* The list holds the tasks that wait, as long as it is not grown.         *)

LEMMA EntriesOfAppend ==
  ASSUME NEW S, NEW list \in Seq(S), NEW t \in S
  PROVE  Entries(Append(list, t)) = Entries(list) \cup {t}
<1>1. /\ DOMAIN list = 1 .. Len(list)
      /\ DOMAIN Append(list, t) = 1 .. Len(list) + 1
      /\ Len(list) \in Nat
  OBVIOUS
<1>2. /\ \A i \in 1 .. Len(list) : Append(list, t)[i] = list[i]
      /\ Append(list, t)[Len(list) + 1] = t
  BY AppendType
<1>3. \A i \in 1 .. Len(list) + 1 : i \in 1 .. Len(list) \/ i = Len(list) + 1
  BY <1>1
<1>4. \A i \in 1 .. Len(list) : i \in 1 .. Len(list) + 1
  BY <1>1
<1>5. Len(list) + 1 \in 1 .. Len(list) + 1
  BY <1>1
<1> QED BY <1>1, <1>2, <1>3, <1>4, <1>5, Zenon DEF Entries

LEMMA EntriesOfTail ==
  ASSUME NEW S, NEW list \in Seq(S), list # <<>>,
         \A i, j \in 1 .. Len(list) : list[i] = list[j] => i = j
  PROVE  /\ Entries(Tail(list)) = Entries(list) \ {Head(list)}
         /\ Head(list) \in Entries(list)
<1>1. /\ DOMAIN list = 1 .. Len(list) /\ DOMAIN Tail(list) = 1 .. Len(list) - 1
      /\ Len(list) \in Nat \ {0}
  OBVIOUS
<1>2. Head(list) = list[1] /\ \A i \in 1 .. Len(list) - 1 : Tail(list)[i] = list[i + 1]
  BY TailType
<1>3. 1 \in 1 .. Len(list)
  BY <1>1
<1>4. \A i \in 1 .. Len(list) - 1 : i + 1 \in 1 .. Len(list) /\ i + 1 # 1
  BY <1>1
<1>5. \A i \in 1 .. Len(list) : i # 1 => i - 1 \in 1 .. Len(list) - 1 /\ i = (i - 1) + 1
  BY <1>1
<1>6. Entries(Tail(list)) \subseteq Entries(list) \ {Head(list)}
  BY <1>1, <1>2, <1>3, <1>4 DEF Entries
<1>7. Entries(list) \ {Head(list)} \subseteq Entries(Tail(list))
  <2> SUFFICES ASSUME NEW i \in 1 .. Len(list), list[i] # Head(list)
               PROVE  list[i] \in Entries(Tail(list))
    BY <1>1 DEF Entries
  <2>1. i - 1 \in 1 .. Len(list) - 1 /\ Tail(list)[i - 1] = list[i]
    BY <1>2, <1>5
  <2> QED BY <1>1, <2>1 DEF Entries
<1> QED BY <1>1, <1>2, <1>3, <1>6, <1>7 DEF Entries

\* Whoever a wake-up has missed waits for good, off the list; and while the list
\* has never been grown it holds the others that wait.
SleepInv ==
  /\ size >= WaitingSize
  /\ \A t \in missed : Queues(t) /\ t \notin Entries(waiting)
  /\ size = WaitingSize =>
       /\ waiting \in Seq(Task)
       /\ Entries(waiting) = {t \in Task : Queues(t)} \ missed

LEMMA SleepKept ==
  ASSUME TypeOK, SleepInv, UNCHANGED <<waiting, size, missed>>,
         \A u \in Task : Queues(u) <=> Queues(u)'
  PROVE  SleepInv'
<1>1. missed \subseteq Task
  BY DEF TypeOK
<1> QED BY <1>1 DEF SleepInv

LEMMA QueueUpSleep ==
  ASSUME IInv, SleepInv, NEW t \in Task, QueueUp(t)
  PROVE  SleepInv'
<1> USE LockTaskAssumption, LockSizeAssumption
<1>0. /\ missed \subseteq Task /\ waiting \in Seq(Task \cup {Junk})
      /\ size \in Nat \ {0} /\ WaitingSize \in Nat /\ size >= WaitingSize
  BY DEF IInv, TypeOK, SleepInv
<1>1. /\ pc[t] = "test" /\ t \in awake /\ UNCHANGED <<awake, missed>>
      /\ pc' = [pc EXCEPT ![t] = "release"] /\ pc \in [Task -> Points]
  BY DEF QueueUp, At, Goto, IInv, TypeOK
<1>2. ~ Queues(t) /\ \A u \in Task : Queues(u)' <=> Queues(u) \/ u = t
  BY <1>1 DEF Queues
<1>3. t \notin missed
  BY <1>2 DEF SleepInv
<1>4. CASE Len(waiting) = size
  <2>1. waiting' = Append(Expanded(waiting), t) /\ size' = 2 * size
    BY <1>4 DEF QueueUp
  <2>2. size' > WaitingSize
    BY <1>0, <2>1
  <2>3. Entries(waiting') = Entries(Expanded(waiting)) \cup {t}
    BY <1>0, <2>1, ExpandedType, EntriesOfAppend
  <2>4. Entries(Expanded(waiting)) \subseteq {Junk}
    BY DEF Entries, Expanded
  <2>5. \A u \in missed' : Queues(u)' /\ u \notin Entries(waiting')
    BY <1>0, <1>1, <1>2, <1>3, <2>3, <2>4 DEF SleepInv
  <2>6. size' >= WaitingSize /\ size' # WaitingSize
    BY <1>0, <2>1, <2>2
  <2> QED BY <2>5, <2>6 DEF SleepInv
<1>5. CASE Len(waiting) # size
  <2>1. waiting' = Append(waiting, t) /\ size' = size
    BY <1>5 DEF QueueUp
  <2>2. Entries(waiting') = Entries(waiting) \cup {t}
    BY <1>0, <2>1, EntriesOfAppend
  <2>3. \A u \in missed' : Queues(u)' /\ u \notin Entries(waiting')
    BY <1>0, <1>1, <1>2, <1>3, <2>2 DEF SleepInv
  <2>4. ASSUME size = WaitingSize
        PROVE  /\ waiting' \in Seq(Task)
               /\ Entries(waiting') = {u \in Task : Queues(u)'} \ missed'
    <3>1. waiting \in Seq(Task) /\ Entries(waiting) = {u \in Task : Queues(u)} \ missed
      BY <2>4 DEF SleepInv
    <3>2. waiting' \in Seq(Task)
      BY <2>1, <3>1, AppendType
    <3> QED BY <1>1, <1>2, <1>3, <2>2, <3>1, <3>2
  <2> QED BY <1>0, <2>1, <2>3, <2>4 DEF SleepInv
<1> QED BY <1>4, <1>5

LEMMA DequeueSleep ==
  ASSUME IInv, QueueInv, SleepInv, NEW t \in Task, PassOn(t) \/ OnlyWake(t)
  PROVE  SleepInv'
<1> USE LockTaskAssumption
<1>0. PICK heir : heir = Head(waiting)
  OBVIOUS
<1>1. /\ pc[t] = "give" /\ t \in awake /\ waiting # <<>> /\ size' = size
      /\ waiting' = Tail(waiting) /\ pc' = [pc EXCEPT ![t] = "leave"]
      /\ awake' = awake \cup ({heir} \cap Task)
      /\ missed' = missed \cup ({heir} \cap awake)
  BY <1>0 DEF PassOn, MustPassOn, OnlyWake, Dequeue, WakeUp, At, Goto
<1>2. /\ waiting \in Seq(Task \cup {Junk}) /\ missed \subseteq Task
      /\ awake \subseteq Task /\ pc \in [Task -> Points]
      /\ \A u \in Task : pc[u] # "release"
      /\ \A u \in Task \ awake : pc[u] = "lock"
  BY <1>1 DEF IInv, TypeOK, SecondaryInv, AsleepInv, Under
<1>3. /\ heir = waiting[1] /\ Len(waiting) \in Nat \ {0}
      /\ Len(waiting') = Len(waiting) - 1
      /\ \A i \in 1 .. Len(waiting') : waiting'[i] = waiting[i + 1]
  BY <1>0, <1>1, <1>2, TailType
<1>4. /\ DOMAIN waiting = 1 .. Len(waiting) /\ DOMAIN waiting' = 1 .. Len(waiting')
      /\ 1 \in 1 .. Len(waiting)
      /\ \A i \in 1 .. Len(waiting') : i + 1 \in 1 .. Len(waiting) /\ i + 1 # 1
  BY <1>1, <1>2, <1>3
<1>5. heir \in Entries(waiting) /\ Entries(waiting') \subseteq Entries(waiting)
  BY <1>3, <1>4 DEF Entries
<1>6. heir \in Task => heir \notin Entries(waiting')
  <2> SUFFICES ASSUME heir \in Task, NEW i \in 1 .. Len(waiting'), waiting'[i] = heir
               PROVE  FALSE
    BY <1>4 DEF Entries
  <2>1. waiting[i + 1] = heir /\ waiting[1] = heir
    BY <1>3
  <2> QED BY <1>4, <2>1 DEF QueueInv
<1>7. \A u \in Task : u # heir => (Queues(u)' <=> Queues(u))
  BY <1>1, <1>2 DEF Queues
<1>8. heir \in Task => heir # t /\ heir \notin missed /\ Queues(heir)
  <2>1. heir \notin missed
    BY <1>5 DEF SleepInv
  <2>2. heir \in Task => Queues(heir)
    BY <1>3, <1>4 DEF QueueInv
  <2> QED BY <1>1, <2>1, <2>2 DEF Queues
<1>9. heir \in Task => (Queues(heir)' <=> heir \in missed')
  <2>1. CASE heir \in awake
    <3>1. pc[heir] = "park" /\ pc'[heir] = "park" /\ heir \in missed'
      BY <1>1, <1>2, <1>8, <2>1 DEF Queues
    <3> QED BY <3>1 DEF Queues
  <2>2. CASE heir \in Task \ awake
    <3>1. pc'[heir] = "lock" /\ heir \in awake' /\ heir \notin missed'
      BY <1>1, <1>2, <1>8, <2>2
    <3> QED BY <3>1 DEF Queues
  <2> QED BY <2>1, <2>2
<1>10. \A u \in missed' : Queues(u)' /\ u \notin Entries(waiting')
  <2>1. ASSUME NEW u \in missed', u # heir
        PROVE  Queues(u)' /\ u \notin Entries(waiting')
    BY <1>1, <1>2, <1>5, <1>7, <2>1 DEF SleepInv
  <2>2. heir \in missed' => Queues(heir)' /\ heir \notin Entries(waiting')
    BY <1>1, <1>2, <1>6, <1>9
  <2> QED BY <2>1, <2>2
<1>11. ASSUME size = WaitingSize
       PROVE  /\ waiting' \in Seq(Task)
              /\ Entries(waiting') = {u \in Task : Queues(u)'} \ missed'
  <2>1. waiting \in Seq(Task) /\ Entries(waiting) = {u \in Task : Queues(u)} \ missed
    BY <1>11 DEF SleepInv
  <2>2. \A i, j \in 1 .. Len(waiting) : waiting[i] = waiting[j] => i = j
    <3>1. \A i \in 1 .. Len(waiting) : waiting[i] \in Task
      BY <2>1
    <3> QED BY <3>1 DEF QueueInv
  <2>3. Entries(waiting') = Entries(waiting) \ {heir} /\ heir \in Task
    <3>1. Entries(Tail(waiting)) = Entries(waiting) \ {Head(waiting)}
      BY <1>1, <2>1, <2>2, EntriesOfTail
    <3> QED BY <1>0, <1>1, <1>5, <2>1, <3>1
  <2>4. waiting' \in Seq(Task)
    BY <1>1, <2>1, TailType
  <2>5. \A u \in Task : u # heir => (u \in missed' <=> u \in missed)
    BY <1>1
  <2> QED BY <1>7, <1>9, <2>1, <2>3, <2>4, <2>5
<1> QED BY <1>1, <1>10, <1>11 DEF SleepInv

LEMMA SleepStep ==
  ASSUME IInv, QueueInv, SleepInv,
         NEW t \in Task, CallLock(t) \/ CallUnlock(t) \/ Execute(t)
  PROVE  SleepInv'
<1>0. TypeOK
  BY DEF IInv
<1> USE DEF TypeOK, Queues, At, Goto, lock
<1>1. CASE CallLock(t) \/ CallUnlock(t)
  <2>1. UNCHANGED <<waiting, size, missed>> /\ \A u \in Task : Queues(u) <=> Queues(u)'
    BY <1>0, <1>1 DEF CallLock, CallUnlock
  <2> QED BY <1>0, <2>1, SleepKept
<1>2. CASE EnterLock(t) \/ EnterUnlock(t)
  <2>1. UNCHANGED <<waiting, size, missed>> /\ \A u \in Task : Queues(u) <=> Queues(u)'
    BY <1>0, <1>2 DEF EnterLock, EnterUnlock, TakeSecondary
  <2> QED BY <1>0, <2>1, SleepKept
<1>3. CASE LeaveLock(t) \/ LeaveUnlock(t) \/ ReleaseToWait(t)
  <2>1. UNCHANGED <<waiting, size, missed>> /\ \A u \in Task : Queues(u) <=> Queues(u)'
    BY <1>0, <1>3 DEF LeaveLock, LeaveUnlock, ReleaseToWait, LeaveSecondary
  <2> QED BY <1>0, <2>1, SleepKept
<1>4. CASE Acquire(t) \/ Refuse(t) \/ Free(t) \/ Park(t)
  <2>1. UNCHANGED <<waiting, size, missed>> /\ \A u \in Task : Queues(u) <=> Queues(u)'
    BY <1>0, <1>4 DEF Acquire, Refuse, Free, Park
  <2> QED BY <1>0, <2>1, SleepKept
<1> QED BY <1>1, <1>2, <1>3, <1>4, QueueUpSleep, DequeueSleep DEF Execute

(* Wherever slices end, and until LOCK-EXPAND has been called, the waiting *)
(* list holds exactly the tasks in LOCK-WAIT or asleep that no wake-up has *)
(* missed, each once.                                                      *)
THEOREM WaitersAreQueued == Spec => []WaitersQueued
<1>1. Init => QueueInv /\ SleepInv
  <2> SUFFICES ASSUME Init PROVE QueueInv /\ SleepInv
    OBVIOUS
  <2>1. /\ waiting = <<>> /\ size = WaitingSize /\ missed = {}
        /\ \A t \in Task : ~ Queues(t)
    BY DEF Init, Queues
  <2>2. waiting \in Seq(Task) /\ Len(waiting) = 0 /\ Entries(waiting) = {}
    BY <2>1 DEF Entries
  <2> QED BY <2>1, <2>2, LockSizeAssumption DEF QueueInv, SleepInv
<1>2. IInv /\ QueueInv /\ SleepInv /\ [Next]_vars => QueueInv' /\ SleepInv'
  <2> SUFFICES ASSUME IInv, QueueInv, SleepInv, [Next]_vars
               PROVE  QueueInv' /\ SleepInv'
    OBVIOUS
  <2>1. CASE UNCHANGED vars
    BY <2>1 DEF vars, lock, QueueInv, Queues, SleepInv
  <2>2. ASSUME NEW t \in Task, CallLock(t) \/ CallUnlock(t) \/ Execute(t)
        PROVE  QueueInv' /\ SleepInv'
    BY <2>2, QueueStep, SleepStep
  <2> QED BY <2>1, <2>2 DEF Next
<1>3. QueueInv /\ SleepInv => WaitersQueued
  <2> SUFFICES ASSUME QueueInv, SleepInv, size = WaitingSize
               PROVE  /\ Entries(waiting) = {t \in Task : Queues(t)} \ missed
                      /\ \A i, j \in DOMAIN waiting : waiting[i] = waiting[j] => i = j
    BY DEF WaitersQueued, Queues
  <2>1. waiting \in Seq(Task) /\ Entries(waiting) = {t \in Task : Queues(t)} \ missed
    BY DEF SleepInv
  <2>2. DOMAIN waiting = 1 .. Len(waiting) /\ \A i \in 1 .. Len(waiting) : waiting[i] \in Task
    BY <2>1
  <2> QED BY <2>1, <2>2 DEF QueueInv
<1> QED BY <1>1, <1>2, <1>3, LockInductive, PTL DEF Spec

=============================================================================
