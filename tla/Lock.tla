--------------------------------- MODULE Lock ---------------------------------
(***************************************************************************)
(* The locks of src/src/runtime/builtin.c (lines 432-536, Forth source in  *)
(* C strings), one of them, used by any number of tasks.                   *)
(*                                                                         *)
(*   primary, secondary   LOCK-PRIMARY, LOCK-SECONDARY: owner or 0         *)
(*   waiting              LOCK-WAITING and LOCK-WAITING-COUNT              *)
(*   size                 LOCK-WAITING-SIZE                                *)
(*   unlockCount          LOCK-UNLOCK-COUNT                                *)
(*                                                                         *)
(* The words run on the scheduler of module Scheduler, of which only this  *)
(* is kept: a task that waits is not in awake, WAKE of a task that does    *)
(* not wait does nothing, one task runs at a time, and a slice may end     *)
(* between any two words.  The words between taking and leaving the        *)
(* secondary lock are one step, since only its owner touches the lock;     *)
(* the CAS that takes it, the CAS that leaves it and WAIT are steps of     *)
(* their own.  A CAS that fails, with the YIELD after it, changes nothing  *)
(* and is no step.                                                         *)
(***************************************************************************)
EXTENDS Integers, Sequences, FiniteSets

CONSTANTS Task,          \* the tasks that use the lock
          Nil,           \* 0, no task
          Junk,          \* what a freed waiting list holds
          WaitingSize,   \* DEFAULT-LOCK-WAITING-SIZE, 8 in the code
          UnlockWords,   \* the unlocking words the program uses
          CountLimits    \* the counts it passes to UNLOCK-COUNT-RELOCK

Points == {"idle", "lock", "test", "locked", "release", "park",
           "unlock", "give", "leave"}

UnlockNames == {"UNLOCK", "UNLOCK-NO-RELOCK", "UNLOCK-COUNT-RELOCK"}

ASSUME LockTaskAssumption == Nil \notin Task /\ Junk \notin Task \cup {Nil}
ASSUME LockSizeAssumption == WaitingSize \in Nat \ {0} /\ CountLimits \subseteq Nat
ASSUME LockWordsAssumption == UnlockWords \subseteq UnlockNames

VARIABLES
  awake,        \* the tasks that have cycles
  missed,       \* history: the tasks that were woken before they waited
  pc,           \* where each task is in a lock word, "idle" when in none
  call,         \* the unlocking word a task is in, and its count
  inside,       \* the tasks LOCK returned to and that have not unlocked since
  primary, secondary, waiting, size, unlockCount

lock == <<primary, secondary, waiting, size, unlockCount>>
vars == <<awake, missed, pc, call, inside, lock>>

Calls == [word : UnlockNames, count : CountLimits \cup {0}]

Init ==
  /\ awake = Task /\ missed = {} /\ inside = {}
  /\ pc = [t \in Task |-> "idle"]
  /\ call = [t \in Task |-> [word |-> "UNLOCK", count |-> 0]]
  /\ primary = Nil /\ secondary = Nil
  /\ waiting = <<>> /\ size = WaitingSize /\ unlockCount = 0

-----------------------------------------------------------------------------
\* t runs; the slices of the others have ended wherever they are
At(t, point) == pc[t] = point /\ t \in awake

Goto(t, point) == pc' = [pc EXCEPT ![t] = point]

\* SIMPLE-LOCK of the secondary lock
TakeSecondary(t, point) ==
  /\ secondary = Nil /\ secondary' = t
  /\ Goto(t, point)
  /\ UNCHANGED <<awake, missed, call, inside, primary, waiting, size, unlockCount>>

\* SIMPLE-UNLOCK of the secondary lock
LeaveSecondary(t, point) ==
  /\ secondary' = IF secondary = t THEN Nil ELSE secondary
  /\ Goto(t, point)
  /\ UNCHANGED <<awake, missed, call, primary, waiting, size, unlockCount>>

-----------------------------------------------------------------------------
(* LOCK.                                                                   *)

CallLock(t) ==
  /\ At(t, "idle") /\ Goto(t, "lock")
  /\ UNCHANGED <<awake, missed, call, inside, lock>>

EnterLock(t) == At(t, "lock") /\ TakeSecondary(t, "test")

\* the CAS of LOCK-PRIMARY, or the owner calling LOCK again
Acquire(t) ==
  /\ At(t, "test") /\ primary \in {Nil, t}
  /\ primary' = t /\ Goto(t, "locked")
  /\ UNCHANGED <<awake, missed, call, inside, secondary, waiting, size, unlockCount>>

\* LOCK-EXPAND copies the new, uninitialised list over the old one, frees the
\* new one and keeps it
Expanded(list) == [i \in DOMAIN list |-> Junk]

\* LOCK-WAIT as far as the count; LOCK-EXPAND when the list is full
QueueUp(t) ==
  /\ At(t, "test") /\ primary \notin {Nil, t}
  /\ IF Len(waiting) = size
     THEN waiting' = Append(Expanded(waiting), t) /\ size' = 2 * size
     ELSE waiting' = Append(waiting, t) /\ size' = size
  /\ Goto(t, "release")
  /\ UNCHANGED <<awake, missed, call, inside, primary, secondary, unlockCount>>

ReleaseToWait(t) ==
  /\ At(t, "release") /\ LeaveSecondary(t, "park")
  /\ inside' = inside

\* THIS-TASK WAIT; once awake again the task takes the secondary lock
Park(t) ==
  /\ At(t, "park") /\ Goto(t, "lock")
  /\ awake' = awake \ {t}
  /\ UNCHANGED <<missed, call, inside, lock>>

LeaveLock(t) ==
  /\ At(t, "locked") /\ LeaveSecondary(t, "idle")
  /\ inside' = inside \cup {t}

-----------------------------------------------------------------------------
(* The three unlocking words.                                              *)

CallUnlock(t) ==
  /\ At(t, "idle") /\ Goto(t, "unlock")
  /\ \E word \in UnlockWords, count \in CountLimits :
       call' = [call EXCEPT ![t] = [word |-> word, count |-> count]]
  /\ inside' = inside \ {t}
  /\ UNCHANGED <<awake, missed, lock>>

EnterUnlock(t) == At(t, "unlock") /\ TakeSecondary(t, "give")

\* ABORT" of a task that has not the lock
Refuse(t) ==
  /\ At(t, "give") /\ primary # t
  /\ Goto(t, "leave")
  /\ UNCHANGED <<awake, missed, call, inside, lock>>

\* mutant: whoever calls an unlocking word may
Free_Unchecked(t) ==
  /\ At(t, "give") /\ waiting = <<>>
  /\ primary' = Nil /\ Goto(t, "leave")
  /\ UNCHANGED <<awake, missed, call, inside, secondary, waiting, size, unlockCount>>

\* UNLOCK-SIMPLE
Free(t) ==
  /\ At(t, "give") /\ primary = t /\ waiting = <<>>
  /\ primary' = Nil /\ Goto(t, "leave")
  /\ UNCHANGED <<awake, missed, call, inside, secondary, waiting, size, unlockCount>>

\* mutant: the counter may pass the count
PassesOn_Late(t) ==
  \/ call[t].word = "UNLOCK"
  \/ call[t].word = "UNLOCK-COUNT-RELOCK" /\ unlockCount > call[t].count

\* whether the word passes the lock on
PassesOn(t) ==
  \/ call[t].word = "UNLOCK"
  \/ call[t].word = "UNLOCK-COUNT-RELOCK" /\ unlockCount >= call[t].count

\* WAKE, which does nothing to a task that does not wait; Junk is no task
WakeUp(u) ==
  /\ awake' = awake \cup ({u} \cap Task)
  /\ missed' = missed \cup ({u} \cap awake)

\* heir is taken off the list, which leaves rest
Dequeue(t, heir, rest) ==
  /\ waiting' = rest /\ WakeUp(heir)
  /\ Goto(t, "leave")
  /\ UNCHANGED <<call, inside, secondary, size>>

MustPassOn(t) == At(t, "give") /\ primary = t /\ waiting # <<>> /\ PassesOn(t)

RestartCount(t) ==
  unlockCount' = IF call[t].word = "UNLOCK-COUNT-RELOCK" THEN 0 ELSE unlockCount

\* mutant: the lock is passed on to the last in the list
PassOn_Last(t) ==
  /\ MustPassOn(t) /\ RestartCount(t)
  /\ primary' = waiting[Len(waiting)]
  /\ Dequeue(t, waiting[Len(waiting)], SubSeq(waiting, 1, Len(waiting) - 1))

\* mutant: the task the lock is passed on to is not woken
PassOn_Silent(t) ==
  /\ MustPassOn(t) /\ RestartCount(t)
  /\ primary' = Head(waiting) /\ Dequeue(t, Nil, Tail(waiting))

\* mutant: the task is woken and LOCK-PRIMARY is left
PassOn_Kept(t) ==
  /\ MustPassOn(t) /\ RestartCount(t)
  /\ primary' = primary /\ Dequeue(t, Head(waiting), Tail(waiting))

\* mutant: the list is not moved down
PassOn_Unshifted(t) ==
  /\ MustPassOn(t) /\ RestartCount(t)
  /\ primary' = Head(waiting)
  /\ Dequeue(t, Head(waiting), SubSeq(waiting, 1, Len(waiting) - 1))

\* UNLOCK-RELOCK
PassOn(t) ==
  /\ MustPassOn(t) /\ RestartCount(t)
  /\ primary' = Head(waiting) /\ Dequeue(t, Head(waiting), Tail(waiting))

\* UNLOCK-ONLY-WAKE, which leaves LOCK-PRIMARY alone
OnlyWake(t) ==
  /\ At(t, "give") /\ primary = t /\ waiting # <<>> /\ ~ PassesOn(t)
  /\ Dequeue(t, Head(waiting), Tail(waiting))
  /\ unlockCount' = IF call[t].word = "UNLOCK-COUNT-RELOCK" THEN unlockCount + 1
                    ELSE unlockCount
  /\ primary' = primary

LeaveUnlock(t) ==
  /\ At(t, "leave") /\ LeaveSecondary(t, "idle")
  /\ inside' = inside

-----------------------------------------------------------------------------
\* the steps of t in the word it is executing
Execute(t) ==
  \/ EnterLock(t) \/ Acquire(t) \/ QueueUp(t) \/ ReleaseToWait(t) \/ Park(t)
  \/ LeaveLock(t) \/ EnterUnlock(t) \/ Refuse(t) \/ Free(t) \/ PassOn(t)
  \/ OnlyWake(t) \/ LeaveUnlock(t)

Next == \E t \in Task : CallLock(t) \/ CallUnlock(t) \/ Execute(t)

Spec == Init /\ [][Next]_vars

\* The round robin gives every awake task slices for ever, and a task that
\* spins on the secondary lock finds it free in one of them: its sections are
\* some dozen words, a slice thousands.  Who is inside unlocks one day.
Fairness ==
  \A t \in Task : SF_vars(Execute(t)) /\ SF_vars(CallUnlock(t) /\ t \in inside)

FairSpec == Spec /\ Fairness
-----------------------------------------------------------------------------
(* Properties.                                                             *)

Entries(list) == {list[i] : i \in DOMAIN list}

\* Every variable has its type; the release counter never passes the limits.
TypeOK ==
  /\ awake \subseteq Task /\ missed \subseteq Task /\ inside \subseteq Task
  /\ pc \in [Task -> Points] /\ call \in [Task -> Calls]
  /\ primary \in Task \cup {Nil, Junk} /\ secondary \in Task \cup {Nil}
  /\ waiting \in Seq(Task \cup {Junk}) /\ size \in Nat \ {0}
  /\ unlockCount \in Nat /\ \E limit \in CountLimits \cup {0} : unlockCount <= limit

\* Between LOCK and the unlocking word a task owns the lock, so no two tasks
\* are between them at once.
MutualExclusion == \A t \in inside : primary = t

\* doc/lock.md: UNLOCK releases the lock.  A task that is in no lock word and not
\* between LOCK and an unlocking word does not own it if the last such word it
\* called was UNLOCK, whatever words the others call: none hands it the lock again.
OutsideOwnsNothing ==
  \A t \in Task \ inside : pc[t] = "idle" /\ call[t].word = "UNLOCK" => primary # t

\* doc/lock.md: LOCK acquires the lock, waiting until it is available, and UNLOCK
\* passes it to a task that waits and wakes that task.  So the lock is never owned
\* by a task that sleeps in LOCK (builtin.c:472, 488).
OwnerAwake == primary \in Task => primary \in awake

\* Wherever slices end, a task sleeps as the owner of the lock only if the wake-up
\* that came with the lock reached it before it waited (builtin.c:472): there is
\* no other way to lose one.
OwnerHeard == primary \in Task \ awake => primary \in missed

\* Wherever slices end, and until LOCK-EXPAND has been called, the list holds
\* those that are in LOCK-WAIT or sleep, each once, but for the tasks that a
\* wake-up has missed: no other is forgotten, and none is woken twice.
WaitersQueued ==
  size = WaitingSize =>
    /\ Entries(waiting) =
         {t \in Task : pc[t] \in {"release", "park"} \/ t \notin awake} \ missed
    /\ \A i, j \in DOMAIN waiting : waiting[i] = waiting[j] => i = j

\* Where UNLOCK is the only unlocking word called and no wake-up comes too early,
\* every LOCK returns if those inside unlock (builtin.c:474-503).
LockReturns ==
  []((\A t \in Task : call[t].word = "UNLOCK") /\ missed = {}) =>
    \A t \in Task : pc[t] = "lock" ~> t \in inside

=============================================================================
