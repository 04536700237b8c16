--------------------------------- MODULE Cond ---------------------------------
(***************************************************************************)
(* The condition variables of src/src/forth/cond.fs, any number of them on *)
(* the lock of module Lock.                                                *)
(*                                                                         *)
(*   condWaiting   COND-WAITING and COND-WAITING-COUNT                     *)
(*   condSize      COND-WAITING-SIZE                                       *)
(*   waitAt, waitOn                                                        *)
(*                 where a task is in WAIT-COND, and of which condition    *)
(*                                                                         *)
(* What a word does between taking and leaving COND-SECONDARY is one step, *)
(* the lock included: nothing but these sections looks at the list, and a  *)
(* task that finds the lock taken yields and tries again.                  *)
(***************************************************************************)
EXTENDS Lock

CONSTANTS Cond,       \* the condition variables
          CondSize    \* DEFAULT-COND-WAITING-SIZE, 8 in the code

ASSUME CondSizeAssumption == CondSize \in Nat \ {0}

VARIABLES condWaiting, condSize, waitAt, waitOn

condVars == <<condWaiting, condSize, waitAt, waitOn>>

CondInit ==
  /\ condWaiting = [c \in Cond |-> <<>>] /\ condSize = [c \in Cond |-> CondSize]
  /\ waitAt = [t \in Task |-> "no"] /\ waitOn = [t \in Task |-> Nil]

WaitGoto(t, point) == waitAt' = [waitAt EXCEPT ![t] = point]

\* WAIT-COND of a task that has the lock, as far as UNLOCK.  A list that is
\* full is grown the way LOCK-EXPAND does it.
QueueOnCond(t, c) ==
  /\ primary = t
  /\ LET full == Len(condWaiting[c]) = condSize[c]
         list == IF full THEN Expanded(condWaiting[c]) ELSE condWaiting[c]
     IN  /\ condWaiting' = [condWaiting EXCEPT ![c] = Append(list, t)]
         /\ condSize' = [condSize EXCEPT ![c] = IF full THEN 2 * @ ELSE @]
  /\ CallUnlock(t) /\ call'[t] = [word |-> "UNLOCK", count |-> 0]
  /\ WaitGoto(t, "unlock") /\ waitOn' = [waitOn EXCEPT ![t] = c]

\* THIS-TASK WAIT, when UNLOCK has returned
ParkOnCond(t) ==
  /\ waitAt[t] = "unlock" /\ At(t, "idle")
  /\ awake' = awake \ {t} /\ WaitGoto(t, "park")
  /\ UNCHANGED <<missed, pc, call, inside, lock, condWaiting, condSize, waitOn>>

\* LOCK, when it has been woken
RelockAfterWait(t) ==
  /\ waitAt[t] = "park" /\ CallLock(t) /\ WaitGoto(t, "lock")
  /\ UNCHANGED <<condWaiting, condSize, waitOn>>

\* mutant: the list is moved down before its head is read
Signal_Shifted(c) ==
  /\ condWaiting' = [condWaiting EXCEPT ![c] = IF @ = <<>> THEN @ ELSE Tail(@)]
  /\ IF condWaiting'[c] = <<>> THEN UNCHANGED <<awake, missed>>
     ELSE WakeUp(Head(condWaiting'[c]))
  /\ condSize' = condSize

\* mutant: nobody is woken
Signal_Silent(c) == UNCHANGED <<awake, missed, condWaiting, condSize>>

\* SIGNAL-COND; WAKE does nothing to a task that does not wait yet
Signal(c) ==
  /\ IF condWaiting[c] = <<>>
     THEN UNCHANGED <<awake, missed, condWaiting>>
     ELSE /\ WakeUp(Head(condWaiting[c]))
          /\ condWaiting' = [condWaiting EXCEPT ![c] = Tail(@)]
  /\ condSize' = condSize

=============================================================================
