------------------------------ MODULE Scheduler ------------------------------
(***************************************************************************)
(* The two OS threads of attoforth around the task structures: the main    *)
(* thread, which runs af_task_loop / af_inner_loop and so every Forth      *)
(* word, and the IO thread (io.c), which wakes tasks when their IO ends.   *)
(* They share global->mutex and the condition variable of cond.c.          *)
(*                                                                         *)
(* The main thread holds the mutex except                                  *)
(*   - in "gap", the unlock/lock pair before each slice, and               *)
(*   - from "unlocked" to "relock", around af_cond_wait;                   *)
(* the IO thread holds it for all of IoWake and of IoNotify, so each is    *)
(* one action.                                                             *)
(* A step of a slice is one word: a word runs under the mutex and never    *)
(* blocks the thread.                                                      *)
(***************************************************************************)
EXTENDS Tasking

CONSTANTS Words,      \* the task words the program uses (a subset of WordNames)
          Liberties   \* the uses beyond the contract it makes (of LibertyNames)

WordNames == {"SPAWN", ">TERMINATE", "START", "TERMINATE", "BYE", "KILL",
              "YIELD", "WAIT", "WAKE", "ABORT", "BEGIN-ATOMIC", "END-ATOMIC",
              "END-ATOMIC-AND-WAIT", ">HANDLER-TASK", ">IO-HANDLER-TASK",
              "IO-BLOCK", "IO-ASYNC"}

LibertyNames == {"kill stopped", "kill waiting", "kill atomic", "wait idle",
                 "wake stopped", "terminate stopped", "nest stopped"}

ASSUME WordsAssumption == Words \subseteq WordNames /\ Liberties \subseteq LibertyNames

VARIABLES
  g,          \* the task structures, see Tasking
  pc,         \* where the main thread is
  cursor,     \* the local task of the two list walks of af_task_loop
  prev,       \* its prev_task
  bye,        \* the local task of af_bye, Nil when it is not running
  posted,     \* cond.count # 0
  signalled,  \* a pthread_cond_signal the sleeping main thread has yet to take
  io,         \* "idle", "notify" before af_lock, "signal" before af_cond_signal
  pendingIo,  \* outstanding IO actions, by task_to_wake (Nil if none)
  ioHandler   \* io->handler_task

threads == <<pc, cursor, prev, posted, signalled, io>>
vars == <<g, bye, pendingIo, ioHandler, threads>>

PCs == {"outer", "inner", "walk", "gap", "slice", "sweep",
        "unlocked", "asleep", "relock", "done"}

\* the main thread is not holding global->mutex
MutexFree == pc \in {"gap", "unlocked", "asleep", "relock", "done"}

Blank == [tasks |-> <<>>,
          base |-> [t \in Task |-> 0], extra |-> [t \in Task |-> 0],
          cby |-> [t \in Task |-> 0], left |-> [t \in Task |-> 0],
          freeing |-> [t \in Task |-> FALSE], nesting |-> [t \in Task |-> -1],
          term |-> [t \in Task |-> FALSE],
          active |-> 0, count |-> 0,
          current |-> Nil, atomic |-> Nil, handler |-> Nil]

\* af_global_execute: one task is spawned and started, then af_task_loop runs
Init ==
  /\ \E t \in Task : g = Start(Spawn(Blank, t), t)
  /\ pc = "outer" /\ cursor = Nil /\ prev = Nil /\ bye = Nil
  /\ posted = FALSE /\ signalled = FALSE /\ io = "idle"
  /\ pendingIo = {} /\ ioHandler = Nil

-----------------------------------------------------------------------------
(* The main thread: af_task_loop.                                          *)

\* while(global->first_task)
Outer ==
  /\ pc = "outer"
  /\ pc' = IF g.tasks = <<>> THEN "done" ELSE "inner"
  /\ UNCHANGED <<g, bye, pendingIo, ioHandler, cursor, prev, posted, signalled, io>>

\* mutant: the if(global->first_task) is left out
Inner_Sleeping ==
  /\ pc = "inner"
  /\ IF g.active # 0
     THEN pc' = "walk" /\ cursor' = First(g.tasks)
     ELSE pc' = "unlocked" /\ cursor' = Nil
  /\ prev' = Nil
  /\ UNCHANGED <<g, bye, pendingIo, ioHandler, posted, signalled, io>>

\* while(global->tasks_active_count), and the if(global->first_task) after it
Inner ==
  /\ pc = "inner"
  /\ IF g.active # 0
     THEN pc' = "walk" /\ cursor' = First(g.tasks)
     ELSE pc' = (IF g.tasks = <<>> THEN "outer" ELSE "unlocked") /\ cursor' = Nil
  /\ prev' = Nil
  /\ UNCHANGED <<g, bye, pendingIo, ioHandler, posted, signalled, io>>

\* mutant: prev_task is not moved along
Advance_Stale == cursor' = NextOf(g'.tasks, cursor) /\ prev' = prev

Advance == cursor' = NextOf(g'.tasks, cursor) /\ prev' = cursor

\* a task to be freed is unlinked and freed, in the walk and in the sweep
Reap ==
  /\ pc \in {"walk", "sweep"} /\ cursor # Nil /\ g.freeing[cursor]
  /\ g' = Free(g, prev, cursor)
  /\ cursor' = NextOf(g.tasks, cursor)
  /\ UNCHANGED <<pc, prev, bye, pendingIo, ioHandler, posted, signalled, io>>

\* the walk passes over every task but the atomic one
PassOver ==
  /\ pc = "walk" /\ cursor # Nil /\ ~ g.freeing[cursor]
  /\ g.atomic \notin {Nil, cursor}
  /\ g' = g /\ Advance
  /\ UNCHANGED <<pc, bye, pendingIo, ioHandler, posted, signalled, io>>

OpenGap ==
  /\ pc = "walk" /\ cursor # Nil /\ ~ g.freeing[cursor]
  /\ g.atomic \in {Nil, cursor}
  /\ pc' = "gap"
  /\ UNCHANGED <<g, cursor, prev, bye, pendingIo, ioHandler, posted, signalled, io>>

\* after the gap nothing is tested again but the task's own cycles
SkipSlice ==
  /\ pc = "gap" /\ g.cby[cursor] = 0
  /\ g' = g /\ pc' = "walk" /\ Advance
  /\ UNCHANGED <<bye, pendingIo, ioHandler, posted, signalled, io>>

EnterSlice ==
  /\ pc = "gap" /\ g.cby[cursor] # 0
  /\ g' = BeginSlice(g, cursor) /\ pc' = "slice"
  /\ UNCHANGED <<cursor, prev, bye, pendingIo, ioHandler, posted, signalled, io>>

\* mutant: every slice is followed by one of the head of the list
LeaveSlice_ToHead ==
  /\ pc = "slice" /\ bye = Nil /\ g.left[g.current] = 0
  /\ g' = EndSlice(g) /\ pc' = "walk" /\ cursor' = First(g'.tasks) /\ prev' = Nil
  /\ UNCHANGED <<bye, pendingIo, ioHandler, posted, signalled, io>>

LeaveSlice ==
  /\ pc = "slice" /\ bye = Nil /\ g.left[g.current] = 0
  /\ g' = EndSlice(g) /\ pc' = "walk" /\ Advance
  /\ UNCHANGED <<bye, pendingIo, ioHandler, posted, signalled, io>>

EndWalk ==
  /\ pc = "walk" /\ cursor = Nil
  /\ pc' = "sweep" /\ cursor' = First(g.tasks) /\ prev' = Nil
  /\ UNCHANGED <<g, bye, pendingIo, ioHandler, posted, signalled, io>>

SweepPast ==
  /\ pc = "sweep" /\ cursor # Nil /\ ~ g.freeing[cursor]
  /\ g' = g /\ Advance
  /\ UNCHANGED <<pc, bye, pendingIo, ioHandler, posted, signalled, io>>

EndSweep ==
  /\ pc = "sweep" /\ cursor = Nil
  /\ pc' = "inner" /\ prev' = Nil
  /\ UNCHANGED <<g, cursor, bye, pendingIo, ioHandler, posted, signalled, io>>

-----------------------------------------------------------------------------
(* The main thread: af_cond_wait, whose test and sleep are one step        *)
(* because cond->mutex is held from one to the other.                      *)

\* mutant: the count is cleared before the wait, not tested
CondWait_Deaf ==
  /\ pc = "unlocked" /\ pc' = "asleep"
  /\ posted' = FALSE /\ signalled' = FALSE
  /\ UNCHANGED <<g, cursor, prev, bye, pendingIo, ioHandler, io>>

CondWait ==
  /\ pc = "unlocked"
  /\ pc' = IF posted THEN "relock" ELSE "asleep"
  /\ posted' = FALSE /\ signalled' = FALSE
  /\ UNCHANGED <<g, cursor, prev, bye, pendingIo, ioHandler, io>>

WakeFromWait(taken) ==
  /\ pc = "asleep" /\ taken
  /\ pc' = "relock" /\ posted' = FALSE /\ signalled' = FALSE
  /\ UNCHANGED <<g, cursor, prev, bye, pendingIo, ioHandler, io>>

CondWake == WakeFromWait(signalled)

\* POSIX lets pthread_cond_wait return unasked, and cond.c does not loop
SpuriousWake == WakeFromWait(~ signalled)

Relock ==
  /\ pc = "relock" /\ pc' = "outer"
  /\ UNCHANGED <<g, cursor, prev, bye, pendingIo, ioHandler, posted, signalled, io>>

-----------------------------------------------------------------------------
(* The contract the tasks keep.  A pointer to a killed task is not used    *)
(* again (doc/task.md, KILL); the rest is what the functions rely on       *)
(* without testing it.  Each liberty drops one clause.                     *)

MayWait(t) == t \in Alive(g) /\ (t \in Awake(g) \/ "wait idle" \in Liberties)

MayWake(t) == t \in Alive(g) /\ (g.base[t] # 0 \/ "wake stopped" \in Liberties)

MayKill(t) ==
  /\ t \in Alive(g) /\ t \notin {g.handler, ioHandler}
  /\ \/ t \in Awake(g)
     \/ g.base[t] = 0 /\ "kill stopped" \in Liberties
     \/ g.base[t] # 0 /\ "kill waiting" \in Liberties
  /\ t # g.atomic \/ "kill atomic" \in Liberties
  /\ t \notin pendingIo

MayStart(t) == t \in Alive(g) /\ (g.base[t] = 0 => t \notin Awake(g))

MayTerminate(t) ==
  IF g.term[t] THEN g.base[t] # 0 \/ "terminate stopped" \in Liberties
  ELSE MayKill(t)

\* af_end_atomic wakes whatever task af_get_nested_task returns
MayPassTo(next) ==
  next \in {t \in Task : g.base[t] # 0 \/ "nest stopped" \in Liberties} \cup {Nil}

MayHandle(t) == t = Nil \/ (t \in Alive(g) /\ g.base[t] # 0)

\* as the monitor of init.fs does: it installs itself, and takes itself back
MayHandleIo(t) == IF ioHandler = Nil THEN t = g.current
                  ELSE t = Nil /\ ioHandler = g.current

-----------------------------------------------------------------------------
(* The words, executed by g.current with a cycle already charged.          *)

Executes(word) ==
  /\ pc = "slice" /\ bye = Nil /\ g.left[g.current] # 0
  /\ word \in Words
  /\ UNCHANGED threads

\* any word that leaves the task structures alone
OtherWord ==
  /\ pc = "slice" /\ bye = Nil /\ g.left[g.current] # 0
  /\ g' = Charge(g)
  /\ UNCHANGED <<bye, pendingIo, ioHandler, threads>>

SpawnWord ==
  /\ Executes("SPAWN")
  /\ \E t \in Task \ Listed(g) : g' = Spawn(Charge(g), t)
  /\ UNCHANGED <<bye, pendingIo, ioHandler>>

ToTerminateWord ==
  /\ Executes(">TERMINATE")
  /\ \E t \in Alive(g), set \in BOOLEAN : g' = [Charge(g) EXCEPT !.term[t] = set]
  /\ UNCHANGED <<bye, pendingIo, ioHandler>>

StartWord ==
  /\ Executes("START")
  /\ \E t \in Alive(g) : MayStart(t) /\ g' = Start(Charge(g), t)
  /\ UNCHANGED <<bye, pendingIo, ioHandler>>

TerminateWord ==
  /\ Executes("TERMINATE")
  /\ \E t \in Alive(g) : MayTerminate(t) /\ g' = Terminate(Charge(g), t)
  /\ UNCHANGED <<bye, pendingIo, ioHandler>>

KillWord ==
  /\ Executes("KILL")
  /\ \E t \in Alive(g) : MayKill(t) /\ g' = Kill(Charge(g), t)
  /\ UNCHANGED <<bye, pendingIo, ioHandler>>

YieldWord ==
  /\ Executes("YIELD")
  /\ g' = Yield(Charge(g), g.current)
  /\ UNCHANGED <<bye, pendingIo, ioHandler>>

WaitWord ==
  /\ Executes("WAIT")
  /\ \E t \in Alive(g) : MayWait(t) /\ g' = Wait(Charge(g), t)
  /\ UNCHANGED <<bye, pendingIo, ioHandler>>

WakeWord ==
  /\ Executes("WAKE")
  /\ \E t \in Alive(g) : MayWake(t) /\ g' = Wake(Charge(g), t)
  /\ UNCHANGED <<bye, pendingIo, ioHandler>>

\* ABORT, and every error af_reset answers; >ABORT may have unset the abort word
AbortWord ==
  /\ Executes("ABORT")
  /\ \E aborts \in BOOLEAN :
       /\ aborts \/ MayKill(g.current)
       /\ g' = Reset(Charge(g), g.current, aborts)
  /\ UNCHANGED <<bye, pendingIo, ioHandler>>

BeginAtomicWord ==
  /\ Executes("BEGIN-ATOMIC")
  /\ g' = BeginAtomic(Charge(g), g.current)
  /\ UNCHANGED <<bye, pendingIo, ioHandler>>

EndAtomicWord ==
  /\ Executes("END-ATOMIC")
  /\ \E next \in Task \cup {Nil} :
       /\ next = NestedTask(g) /\ MayPassTo(next)
       /\ g' = EndAtomic(Charge(g), g.current, next)
  /\ UNCHANGED <<bye, pendingIo, ioHandler>>

EndAtomicAndWaitWord ==
  /\ Executes("END-ATOMIC-AND-WAIT")
  /\ \E next \in Task \cup {Nil} :
       /\ next = NestedTask(g) /\ MayPassTo(next)
       /\ g' = EndAtomicAndWait(Charge(g), g.current, next)
  /\ UNCHANGED <<bye, pendingIo, ioHandler>>

ToHandlerTaskWord ==
  /\ Executes(">HANDLER-TASK")
  /\ \E t \in Task \cup {Nil} : MayHandle(t) /\ g' = [Charge(g) EXCEPT !.handler = t]
  /\ UNCHANGED <<bye, pendingIo, ioHandler>>

ToIoHandlerTaskWord ==
  /\ Executes(">IO-HANDLER-TASK")
  /\ \E t \in Task \cup {Nil} : MayHandleIo(t) /\ ioHandler' = t
  /\ g' = Charge(g)
  /\ UNCHANGED <<bye, pendingIo>>

\* the blocking IO words and IO-SLEEP: an action is added, the task waits
IoBlockWord ==
  /\ Executes("IO-BLOCK")
  /\ g.current \notin pendingIo          \* bound: one blocking action per task
  /\ pendingIo' = pendingIo \cup {g.current}
  /\ g' = Wait(Charge(g), g.current)
  /\ UNCHANGED <<bye, ioHandler>>

\* an action with no task to wake
IoAsyncWord ==
  /\ Executes("IO-ASYNC")
  /\ Nil \notin pendingIo                \* bound: one asynchronous action
  /\ pendingIo' = pendingIo \cup {Nil}
  /\ g' = Charge(g)
  /\ UNCHANGED <<bye, ioHandler>>

\* af_bye terminates every task, in list order, within the one word
ByeWord ==
  /\ Executes("BYE")
  /\ \A t \in Alive(g) : MayTerminate(t)
  /\ g' = Charge(g) /\ bye' = First(g.tasks)
  /\ UNCHANGED <<pendingIo, ioHandler>>

ByeStep ==
  /\ pc = "slice" /\ bye # Nil
  /\ g' = Terminate(g, bye) /\ bye' = NextOf(g.tasks, bye)
  /\ UNCHANGED <<pendingIo, ioHandler, threads>>

TaskWord ==
  \/ OtherWord \/ SpawnWord \/ ToTerminateWord \/ StartWord \/ TerminateWord
  \/ KillWord \/ YieldWord \/ WaitWord \/ WakeWord \/ AbortWord
  \/ BeginAtomicWord \/ EndAtomicWord \/ EndAtomicAndWaitWord
  \/ ToHandlerTaskWord \/ ToIoHandlerTaskWord \/ IoBlockWord \/ IoAsyncWord
  \/ ByeWord

-----------------------------------------------------------------------------
(* The IO thread: the end of af_io_remove_done for one finished action.    *)

\* the action of a blocking word
IoWake(t) ==
  /\ io = "idle" /\ MutexFree /\ t \in pendingIo
  /\ LET woken == Wake(g, t)
     IN  g' = IF ioHandler = Nil THEN woken ELSE BeginAtomic(woken, ioHandler)
  /\ pendingIo' = pendingIo \ {t}
  /\ io' = "signal"
  /\ UNCHANGED <<bye, ioHandler, pc, cursor, prev, posted, signalled>>

\* an action nobody waits for: io->handler_task is first read without the lock
IoNotice ==
  /\ io = "idle" /\ Nil \in pendingIo
  /\ pendingIo' = pendingIo \ {Nil}
  /\ io' = IF ioHandler = Nil THEN "idle" ELSE "notify"
  /\ UNCHANGED <<g, bye, ioHandler, pc, cursor, prev, posted, signalled>>

\* and again under the lock
IoNotify ==
  /\ io = "notify" /\ MutexFree
  /\ g' = IF ioHandler = Nil THEN g ELSE BeginAtomic(g, ioHandler)
  /\ io' = "signal"
  /\ UNCHANGED <<bye, pendingIo, ioHandler, pc, cursor, prev, posted, signalled>>

\* af_cond_signal
IoSignal ==
  /\ io = "signal"
  /\ io' = "idle" /\ posted' = TRUE /\ signalled' = (signalled \/ pc = "asleep")
  /\ UNCHANGED <<g, bye, pendingIo, ioHandler, pc, cursor, prev>>

IoThread == (\E t \in Task : IoWake(t)) \/ IoNotice \/ IoNotify \/ IoSignal

-----------------------------------------------------------------------------
LoopStep ==
  \/ Outer \/ Inner \/ Reap \/ PassOver \/ OpenGap \/ SkipSlice \/ EnterSlice
  \/ LeaveSlice \/ EndWalk \/ SweepPast \/ EndSweep \/ CondWait \/ CondWake
  \/ Relock \/ ByeStep

Next == LoopStep \/ TaskWord \/ IoThread \/ SpuriousWake

Spec == Init /\ [][Next]_vars

\* Both threads keep running: a slice is bounded, so neither holds the mutex
\* forever, and pthread_cond_wait returns once signalled.  Spurious returns
\* are not relied on.
Fairness == /\ WF_vars(LoopStep \/ TaskWord)
            /\ WF_vars(IoSignal)
            /\ \A t \in Task : SF_vars(IoWake(t))
            /\ WF_vars(IoNotice) /\ SF_vars(IoNotify)

FairSpec == Spec /\ Fairness
-----------------------------------------------------------------------------
(* Properties.                                                             *)

\* Every variable has its type; in particular the saved cycles of a task
\* never exceed max_extra_cycles, in af_wait and in af_inner_loop.
TypeOK ==
  /\ g \in GlobalType /\ pc \in PCs
  /\ cursor \in Task \cup {Nil} /\ prev \in Task \cup {Nil} /\ bye \in Task \cup {Nil}
  /\ posted \in BOOLEAN /\ signalled \in BOOLEAN /\ io \in {"idle", "notify", "signal"}
  /\ pendingIo \subseteq Task \cup {Nil} /\ ioHandler \in Task \cup {Nil}

\* tasks_active_count, kept by af_schedule / af_deschedule alone, is the number
\* of tasks that have cycles; af_task_loop sleeps on its word.
ActiveCountExact == g.active = Cardinality(Awake(g))

\* TASKS (task_count) is the number of tasks that were spawned and not killed;
\* the monitor task of init.fs ends the program on its word.
TaskCountExact == g.count = Cardinality(Alive(g))

\* The main thread never sleeps in af_cond_wait, with no signal on its way,
\* while a task has cycles: a wake-up by the IO thread between the unlock and
\* the wait is not lost.
NoStrandedTask ==
  pc = "asleep" /\ ~ signalled /\ io = "idle" => Awake(g) = {}

\* prev_task is the predecessor of the walked task whenever one may be
\* unlinked, although the words of a slice push new tasks at the head.
WalkPointers ==
  pc \in {"walk", "sweep"} /\ cursor # Nil =>
    cursor = IF prev = Nil THEN First(g.tasks) ELSE NextOf(g.tasks, prev)

\* No pointer the runtime keeps designates a freed task, and no task with
\* cycles is off the list: unlinking loses only the task it frees.
NoDanglingPointer ==
  ({g.current, g.atomic, g.handler, ioHandler, cursor, prev, bye}
     \cup pendingIo \cup Awake(g)) \ {Nil} \subseteq Listed(g)

\* While a task is atomic no other task executes a word.
AtomicExclusion ==
  pc = "slice" /\ bye = Nil /\ g.left[g.current] # 0 => g.atomic \in {Nil, g.current}

\* An atomic section ends by a word of its own task, or after that task's death:
\* nobody takes it away, and the handler request that follows the owner's own
\* spawns and kills does not either.
AtomicKept ==
  [][g.atomic # Nil /\ g'.atomic # g.atomic
       => \/ g.current = g.atomic /\ Alive(g') = Alive(g)
          \/ g.freeing[g.atomic]]_vars

\* Round robin: a task that has cycles is given a slice, or loses its cycles
\* first (another task waits or kills it).
AwakeTaskRuns ==
  \A t \in Task : t \in Awake(g) ~> (g.current = t \/ t \notin Awake(g))

\* Blocking IO only blocks the task for as long as the IO lasts.
IoTaskResumes ==
  \A t \in Task : t \in pendingIo ~> t \in Awake(g)

\* When every task is killed the main loop ends.
ExitsWhenAllKilled == Alive(g) = {} ~> pc = "done"

=============================================================================
