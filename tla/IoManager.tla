------------------------------- MODULE IoManager -------------------------------
(***************************************************************************)
(* The IO thread of src/src/runtime/io.c, the IO words of                  *)
(* src/src/runtime/prim.c (lines 4622-4990) that hand it actions, and the  *)
(* tasks that call them, IO-MONITOR of src/src/forth/init.fs among them.   *)
(*                                                                         *)
(*   act, live              the af_io_action_t records, and those that are *)
(*                          allocated                                      *)
(*   active, waiting, done  the three lists of af_io_t, head first         *)
(*   activeCount, pendingWrites, handler                                   *)
(*                          active_action_count, pending_write_count and   *)
(*                          whether handler_task is set                    *)
(*   breaks                 bytes in the pipe that breaks the poll         *)
(*   at, stage, cursor, next, again, polled, revents                       *)
(*                          where af_io_main is, and its local variables   *)
(*                                                                         *)
(* The IO mutex is not a variable: the IO thread has it at "scan" and      *)
(* "remove", and has let go of it, or is waiting for it, elsewhere.  It    *)
(* goes "astray" when a task frees an action it still has in hand: what    *)
(* the program does from then on is undefined, and is not followed.  A     *)
(* word runs with the task lock, so af_wake (at "notify") waits until no   *)
(* task is in a word.                                                      *)
(* Of the scheduler only who is awake is kept.  A poll without timeout or  *)
(* event is no step.  EINTR, the failure of malloc and of the break pipe,  *)
(* on which the thread ends, and af_io_destroy, which nothing calls, are   *)
(* left out.                                                               *)
(***************************************************************************)
EXTENDS Integers, Sequences, FiniteSets, SequencesExt

CONSTANTS Task,       \* the tasks that do IO
          Nil,
          Action,     \* the memory of the actions, reused once freed
          Fd,         \* the file descriptors the program has open
          Stdin,      \* 0, which a SLEEP action has as well
          Pipes,      \* those whose hangup is POLLHUP without POLLIN
          Types,      \* the types of action the program uses
          Counts,     \* the byte counts it reads and writes
          MaxData,    \* bytes that may be ready to be read
          MaxBreaks,  \* bytes the pipe that breaks the poll may hold
          Leftover    \* what malloc left in pending_write_count

AllTypes == {"READ", "WRITE", "CLOSE", "SEEK", "TELL", "SLEEP"}
Instant == {"CLOSE", "SEEK", "TELL"}
Transfers == {"READ", "WRITE"}

ASSUME IoTaskAssumption == Nil \notin Task \cup Action /\ IsFiniteSet(Action)
ASSUME IoTypesAssumption == Types \subseteq AllTypes /\ Counts \subseteq Nat
ASSUME IoBoundsAssumption == {MaxData, MaxBreaks, Leftover} \subseteq Nat

VARIABLES
  act, live, active, waiting, done, activeCount, pendingWrites, handler, breaks,
  at, stage, cursor, next, again, polled, revents,
  user,      \* where each task is in an IO word or between two of them
  handle,    \* the action a task has on its data stack
  awake,     \* the tasks that have cycles
  monitor,   \* where IO-MONITOR is
  data,      \* bytes that can be read from each file descriptor
  hup,       \* the other end has hung up
  open,      \* not closed by the program
  issued     \* the outstanding actions of each file descriptor, as issued

lists == <<live, active, waiting, done, activeCount, pendingWrites, issued>>
thread == <<at, stage, cursor, next, again, polled, revents>>
world == <<data, hup, open>>
tasks == <<user, handle, awake>>
vars == <<act, lists, handler, breaks, thread, tasks, monitor, world>>

Blank == [type |-> "SLEEP", fd |-> Stdin, count |-> 0, index |-> 0,
          task |-> Nil, doomed |-> FALSE, isDone |-> FALSE, isClosed |-> FALSE,
          hasHangup |-> FALSE, hasError |-> FALSE, due |-> FALSE]

Init ==
  /\ act = [a \in Action |-> Blank] /\ live = {}
  /\ active = <<>> /\ waiting = <<>> /\ done = <<>>
  /\ activeCount = 0 /\ pendingWrites = Leftover
  /\ handler = FALSE /\ breaks = 0
  /\ at = "top" /\ stage = "before" /\ cursor = Nil /\ next = Nil
  /\ again = FALSE /\ polled = {} /\ revents = [a \in Action |-> {}]
  /\ user = [t \in Task |-> "idle"] /\ handle = [t \in Task |-> Nil]
  /\ awake = Task /\ monitor = "off"
  /\ data = [f \in Fd |-> 0] /\ hup = [f \in Fd |-> FALSE]
  /\ open = [f \in Fd |-> TRUE] /\ issued = [f \in Fd |-> <<>>]

-----------------------------------------------------------------------------
(* The lists.                                                              *)

Place(list, a) == CHOOSE i \in DOMAIN list : list[i] = a
From(list, a) == SubSeq(list, Place(list, a), Len(list))
First(list) == IF list = <<>> THEN Nil ELSE Head(list)
After(list, a) ==
  IF Place(list, a) = Len(list) THEN Nil ELSE list[Place(list, a) + 1]
Without(list, a) ==
  IF a \in ToSet(list) THEN RemoveAt(list, Place(list, a)) ELSE list

\* the first of the list that is among some actions, Nil if none is
FirstAmong(list, some) ==
  IF ToSet(list) \cap some = {} THEN Nil
  ELSE list[CHOOSE i \in DOMAIN list :
              list[i] \in some /\ \A j \in 1..(i - 1) : list[j] \notin some]

UsesFd(f) == {a \in Action : act[a].fd = f}

Astray == at = "astray"
MutexOpen == at \notin {"scan", "remove"}

\* mutant: an action is put in the active list whatever is there
IsActive_Never(f) == FALSE

\* af_io_is_active
IsActive(f) ==
  \E a \in ToSet(active) : act[a].fd = f /\ act[a].type # "SLEEP"

\* mutant: the IO thread is left in its poll
BreakPoll_Not == breaks' = breaks

\* af_io_wake, while the pipe has room
BreakPoll == breaks < MaxBreaks /\ breaks' = breaks + 1

\* af_io_add; the byte that breaks the poll follows when the mutex is open
Add(a, record) ==
  /\ MutexOpen
  /\ act' = [act EXCEPT ![a] = record] /\ live' = live \cup {a}
  /\ pendingWrites' = pendingWrites + (IF record.type = "WRITE" THEN 1 ELSE 0)
  /\ IF record.type # "SLEEP" /\ IsActive(record.fd)
     THEN /\ waiting' = Append(waiting, a)
          /\ UNCHANGED <<active, activeCount, breaks>>
     ELSE /\ active' = <<a>> \o active /\ activeCount' = activeCount + 1
          /\ BreakPoll /\ waiting' = waiting
  /\ issued' = IF record.type = "SLEEP" THEN issued
               ELSE [issued EXCEPT ![record.fd] = Append(@, a)]
  /\ done' = done

\* What the IO thread will look at again: the actions it has to do, those it
\* polls for, and the one it is waking a task for with the next one after it.
InHand == ToSet(active) \cup ToSet(waiting)
            \cup (IF at \in {"poll", "collect"} THEN polled ELSE {})
            \cup (IF at \in {"notify", "dispose"} THEN {cursor, next} \ {Nil}
                 ELSE {})

Free(a) == live' = live \ {a} /\ act' = [act EXCEPT ![a] = Blank]

\* where the IO thread is once a is freed, which is done
Freed(a) == at' = IF a \in InHand THEN "astray" ELSE at

\* mutant: an action is freed whether or not it is done
Destroy_AtOnce(a) ==
  /\ MutexOpen /\ Free(a) /\ done' = SelectSeq(done, LAMBDA b : b # a)
  /\ IF act[a].isDone THEN Freed(a) ELSE at' = at
  /\ UNCHANGED <<active, waiting>>

\* af_io_action_destroy: an action that is done is taken out of whatever list
\* it is linked into; at the head of a list it is first_done_action that is
\* pointed at its successor
Destroy(a) ==
  /\ MutexOpen
  /\ IF ~ act[a].isDone
     THEN /\ act' = [act EXCEPT ![a].doomed = TRUE]
          /\ UNCHANGED <<live, active, waiting, done, at>>
     ELSE LET Linked(list) == a \in ToSet(list) /\ Head(list) # a
              Out(list) == IF Linked(list) THEN Without(list, a) ELSE list
          IN  /\ Free(a) /\ Freed(a)
              /\ active' = Out(active) /\ waiting' = Out(waiting)
              /\ done' = IF \E l \in {active, waiting, done} : First(l) = a
                         THEN Tail(CHOOSE l \in {active, waiting, done} :
                                     First(l) = a)
                         ELSE Out(done)

-----------------------------------------------------------------------------
(* The IO words.  One task runs at a time, and no other while it is in a   *)
(* word.                                                                   *)

NoneInWord == \A t \in Task : user[t] # "sleep"

\* a program does not use a file descriptor once it has closed it
Usable(f) ==
  open[f] /\ \A a \in ToSet(issued[f]) : act[a].type = "CLOSE" => act[a].isDone

\* what af_io_tell, af_io_close_* and af_io_seek_* hand to af_io_add
InstantRecords(f, t) ==
  {[Blank EXCEPT !.type = type, !.fd = f, !.task = t] :
     type \in Types \cap Instant}

\* what af_io_read_* and af_io_write_* do
TransferRecord(type, f, t, count) ==
  [Blank EXCEPT !.type = type, !.fd = f, !.task = t,
                !.count = count, !.isDone = (count = 0)]
TransferRecords(f, t) ==
  {TransferRecord(type, f, t, count) :
     type \in Types \cap Transfers, count \in Counts}

Issue(t, waker) ==
  /\ user[t] = "idle" /\ NoneInWord
  /\ \E a \in Action \ live, f \in Fd :
     \E record \in InstantRecords(f, waker) \cup TransferRecords(f, waker) :
       /\ record.type = "TELL" => waker # Nil
       /\ Usable(f) /\ Add(a, record)
       /\ handle' = [handle EXCEPT ![t] = a]
  /\ UNCHANGED <<handler, thread, monitor, world>>

\* IO-TELL and the IO-*-BLOCK words, af_wait included: the task that waits
\* cannot be woken in between
BlockWord(t) ==
  /\ Issue(t, t)
  /\ user' = [user EXCEPT ![t] = "blocked"] /\ awake' = awake \ {t}

\* the IO-*-ASYNC words
AsyncWord(t) ==
  /\ Issue(t, Nil)
  /\ user' = [user EXCEPT ![t] = "holding"] /\ awake' = awake

\* IO-SLEEP destroys its action before it waits for it
SleepWord(t) ==
  /\ user[t] = "idle" /\ NoneInWord /\ "SLEEP" \in Types
  /\ \E a \in Action \ live :
       /\ Add(a, [Blank EXCEPT !.task = t])
       /\ handle' = [handle EXCEPT ![t] = a]
  /\ user' = [user EXCEPT ![t] = "sleep"]
  /\ UNCHANGED <<handler, thread, awake, monitor, world>>

SleepWait(t) ==
  /\ user[t] = "sleep" /\ Destroy(handle[t])
  /\ user' = [user EXCEPT ![t] = "blocked"] /\ awake' = awake \ {t}
  /\ handle' = [handle EXCEPT ![t] = Nil]
  /\ UNCHANGED <<activeCount, pendingWrites, issued, handler, breaks, stage,
                 cursor, next, again, polled, revents, monitor, world>>

\* IO-ACTION-DESTROY
DestroyWord(t) ==
  /\ user[t] \in {"holding", "blocked"} /\ t \in awake /\ NoneInWord
  /\ IF handle[t] = Nil THEN UNCHANGED <<act, live, active, waiting, done, at>>
     ELSE Destroy(handle[t])
  /\ user' = [user EXCEPT ![t] = "idle"]
  /\ handle' = [handle EXCEPT ![t] = Nil]
  /\ UNCHANGED <<activeCount, pendingWrites, issued, handler, breaks, stage,
                 cursor, next, again, polled, revents, awake, monitor, world>>

\* IO-READ-NONBLOCK, which takes what is there past the waiting actions
NonblockRead(t) ==
  /\ user[t] = "idle" /\ NoneInWord
  /\ \E f \in Fd, count \in Counts \ {0} :
       /\ Usable(f) /\ data[f] > 0
       /\ data' = [data EXCEPT ![f] = IF @ < count THEN 0 ELSE @ - count]
  /\ UNCHANGED <<act, lists, handler, breaks, thread, tasks, monitor, hup, open>>

\* IO-OPEN and IO-PIPE, which return a file descriptor that was closed
OpenWord(t) ==
  /\ user[t] = "idle" /\ NoneInWord
  /\ \E f \in Fd : /\ ~ open[f] /\ open' = [open EXCEPT ![f] = TRUE]
                  /\ data' = [data EXCEPT ![f] = 0]
                  /\ hup' = [hup EXCEPT ![f] = FALSE]
  /\ UNCHANGED <<act, lists, handler, breaks, thread, tasks, monitor>>

\* the task is killed; it has no handle
Exit(t) ==
  /\ user[t] = "idle" /\ NoneInWord
  /\ user' = [user EXCEPT ![t] = "gone"] /\ awake' = awake \ {t}
  /\ UNCHANGED <<act, lists, handler, breaks, thread, handle, monitor, world>>

-----------------------------------------------------------------------------
(* The IO thread.                                                          *)

Expired(a) == act[a].type = "SLEEP" /\ act[a].due

\* what needs no poll is done at once, and again until there is none of it
Scan ==
  /\ at \in {"top", "scan"}
  /\ LET Closes(f) ==
           \E a \in ToSet(active) : act[a].fd = f /\ act[a].type = "CLOSE"
         finished == {a \in ToSet(active) :
                        \/ act[a].type \in Instant
                        \/ act[a].type \in Transfers /\ act[a].count = 0
                        \/ Expired(a)}
     IN  /\ act' = [a \in Action |->
                      IF a \notin finished THEN act[a]
                      ELSE [act[a] EXCEPT
                              !.isDone = TRUE,
                              !.hasError = /\ act[a].type \in {"SEEK", "TELL"}
                                           /\ ~ open[act[a].fd]]]
         /\ open' = [f \in Fd |-> open[f] /\ ~ Closes(f)]
         /\ again' = (finished # {})
  /\ at' = "remove" /\ stage' = "before" /\ cursor' = First(active)
  /\ UNCHANGED <<lists, handler, breaks, next, polled, revents, tasks, monitor,
                 data, hup>>

\* the action that takes the place of one that is done, Nil if there is none
Successor(a) == FirstAmong(waiting, UsesFd(act[a].fd))

\* mutant: the action that is taken out is counted out although another
\* takes its place
CountWithout_Always(successor) == activeCount - 1

CountWithout(successor) == IF successor = Nil THEN activeCount - 1 ELSE activeCount

\* mutant: the handler task is not told of an action nobody waits for
Answers_WaitersOnly(a) == act[a].task # Nil

\* somebody is to be woken for a
Answers(a) == act[a].task # Nil \/ handler

\* the body of af_io_remove_done for a, which is done, as far as the wake-up
TakeOut(a) ==
  LET successor == Successor(a)
      rest == Without(active, a)
  IN  /\ pendingWrites' = pendingWrites - (IF act[a].type = "WRITE" THEN 1 ELSE 0)
      /\ done' = IF act[a].doomed THEN done ELSE <<a>> \o done
      /\ IF successor = Nil
         THEN active' = rest /\ waiting' = waiting
         ELSE /\ active' = <<successor>> \o rest
              /\ waiting' = Without(waiting, successor)
      /\ activeCount' = CountWithout(successor)
      /\ issued' = IF act[a].type = "SLEEP" THEN issued
                   ELSE [issued EXCEPT ![act[a].fd] = Without(@, a)]
      /\ IF Answers(a)
         THEN at' = "notify" /\ cursor' = a /\ next' = After(active, a)
         ELSE at' = at /\ cursor' = After(active, a) /\ next' = Nil
      /\ IF act[a].doomed /\ ~ Answers(a) THEN Free(a) ELSE UNCHANGED <<live, act>>

\* mutant: the other end has hung up, but there is more to read
IsDone_Hangup(a) == act[a].isDone \/ act[a].hasHangup

IsDone(a) == act[a].isDone

RemoveDone ==
  /\ at = "remove" /\ cursor # Nil
  /\ LET finished == FirstAmong(From(active, cursor), {a \in Action : IsDone(a)})
     IN  IF finished # Nil THEN TakeOut(finished)
         ELSE cursor' = Nil /\ UNCHANGED <<act, lists, at, next>>
  /\ UNCHANGED <<handler, breaks, stage, again, polled, revents, tasks,
                 monitor, world>>

\* af_wake and af_begin_atomic under the task lock, and af_cond_signal
Notify ==
  /\ at = "notify" /\ NoneInWord
  /\ awake' = awake \cup {t \in Task : t = act[cursor].task /\ user[t] # "gone"}
  /\ monitor' = IF handler /\ monitor = "asleep" THEN "test" ELSE monitor
  /\ at' = "dispose"
  /\ UNCHANGED <<act, lists, handler, breaks, stage, cursor, next, again, polled,
                 revents, user, handle, world>>

\* the mutex is taken again
Dispose ==
  /\ at = "dispose"
  /\ IF act[cursor].doomed THEN Free(cursor) ELSE UNCHANGED <<live, act>>
  /\ at' = "remove" /\ cursor' = next /\ next' = Nil
  /\ UNCHANGED <<active, waiting, done, activeCount, pendingWrites, issued,
                 handler, breaks, stage, again, polled, revents, tasks, monitor,
                 world>>

\* the end of the list: once more over it, or on to the poll, or round again
EndPass ==
  /\ at = "remove" /\ cursor = Nil
  /\ IF stage = "after" THEN at' = "top" /\ polled' = {}
     ELSE IF again THEN at' = "scan" /\ polled' = polled
     ELSE /\ at' = "poll"
          /\ polled' = {a \in ToSet(active) : act[a].type \in Transfers}
  /\ UNCHANGED <<act, lists, handler, breaks, stage, cursor, next, again, revents,
                 tasks, monitor, world>>

-----------------------------------------------------------------------------
(* The poll.                                                               *)

\* what poll() reports of an action's file descriptor
Events(a) ==
  LET f == act[a].fd
      Report(event, condition) == IF condition THEN {event} ELSE {}
  IN  IF ~ open[f] THEN {"NVAL"}
      ELSE IF act[a].type = "READ"
      THEN Report("IN", data[f] > 0 \/ (hup[f] /\ f \notin Pipes))
             \cup Report("HUP", hup[f])
      ELSE Report("OUT", ~ hup[f]) \cup Report("ERR", hup[f])

\* poll() returns, and its byte is read from the pipe
PollReturns ==
  /\ at = "poll"
  /\ \/ breaks > 0
     \/ \E a \in polled : Events(a) # {}
     \/ \E a \in ToSet(active) : Expired(a)
  /\ revents' = [a \in Action |-> IF a \in polled THEN Events(a) ELSE {}]
  /\ breaks' = IF breaks > 0 THEN breaks - 1 ELSE 0
  /\ at' = "collect"
  /\ UNCHANGED <<act, lists, handler, stage, cursor, next, again, polled, tasks,
                 monitor, world>>

\* mutant: what is left is not looked at
Step_Whole(size, left) == size

\* the size read() or write() returns, which are asked for what is left
Step(size, left) == IF size < left THEN size ELSE left

Moved(record, n) == [record EXCEPT !.index = @ + n,
                                   !.isDone = record.index + n >= record.count]
Ended(record) == [record EXCEPT !.isDone = TRUE, !.isClosed = TRUE]

\* one action after the poll: room is what a write can write, -1 if it would
\* block, and failing are the actions whose read() or write() fails
Answered(a, room, failing) ==
  LET r == act[a]
      hung == [r EXCEPT !.hasHangup = @ \/ "HUP" \in revents[a],
                        !.hasError = @ \/ "ERR" \in revents[a],
                        !.isDone = @ \/ "ERR" \in revents[a]]
      left == r.count - r.index
  IN  IF revents[a] \cap {"IN", "OUT"} = {} THEN hung
      ELSE IF a \in failing THEN [Ended(hung) EXCEPT !.hasError = TRUE]
      ELSE IF r.type = "WRITE"
      THEN IF room < 0 THEN hung
           ELSE IF room = 0 THEN Ended(hung) ELSE Moved(hung, Step(room, left))
      ELSE IF data[r.fd] > 0 THEN Moved(hung, Step(data[r.fd], left))
      ELSE IF hup[r.fd] THEN Ended(hung)
      ELSE hung

Collect ==
  /\ at = "collect"
  /\ \E room \in -1..2, failing \in SUBSET polled :
       LET Answer(a) == Answered(a, room, failing)
           Read(f) == {a \in polled : act[a].fd = f /\ act[a].type = "READ"}
       IN  /\ act' = [a \in Action |->
                         IF a \in polled THEN Answer(a)
                         ELSE IF a \in ToSet(active) /\ Expired(a)
                              THEN [act[a] EXCEPT !.isDone = TRUE] ELSE act[a]]
           /\ data' = [f \in Fd |->
                         IF Read(f) = {} THEN data[f]
                         ELSE LET a == CHOOSE b \in Read(f) : TRUE
                              IN  data[f] - (Answer(a).index - act[a].index)]
  /\ revents' = [a \in Action |-> {}]
  /\ at' = "remove" /\ stage' = "after" /\ cursor' = First(active)
  /\ UNCHANGED <<lists, handler, breaks, next, again, polled, tasks, monitor, hup,
                 open>>

-----------------------------------------------------------------------------
(* IO-MONITOR of init.fs, run when no other task is left.                  *)

StartMonitor ==
  /\ monitor = "off" /\ \A t \in Task : user[t] = "gone"
  /\ MutexOpen /\ handler' = TRUE /\ monitor' = "test"
  /\ UNCHANGED <<act, lists, breaks, thread, tasks, world>>

TestWrites ==
  /\ monitor = "test" /\ MutexOpen
  /\ IF pendingWrites > 0 THEN monitor' = "wait" /\ handler' = handler
     ELSE monitor' = "ended" /\ handler' = FALSE
  /\ UNCHANGED <<act, lists, breaks, thread, tasks, world>>

\* END-ATOMIC-AND-WAIT, which does not look whether the last write was done and
\* the wake-up came since the test
MonitorWait ==
  /\ monitor = "wait" /\ monitor' = "asleep"
  /\ UNCHANGED <<act, lists, handler, breaks, thread, tasks, world>>

-----------------------------------------------------------------------------
(* The world.                                                              *)

Arrive(f) ==
  /\ ~ hup[f] /\ data[f] < MaxData /\ data' = [data EXCEPT ![f] = @ + 1]
  /\ UNCHANGED <<act, lists, handler, breaks, thread, tasks, monitor, hup, open>>

HangUp(f) ==
  /\ ~ hup[f] /\ hup' = [hup EXCEPT ![f] = TRUE]
  /\ UNCHANGED <<act, lists, handler, breaks, thread, tasks, monitor, data, open>>

\* the time of a SLEEP action comes, maybe before IO-SLEEP waits for it
TimePasses(a) ==
  /\ a \in live /\ act[a].type = "SLEEP" /\ ~ act[a].due
  /\ act' = [act EXCEPT ![a].due = TRUE]
  /\ UNCHANGED <<lists, handler, breaks, thread, tasks, monitor, world>>

-----------------------------------------------------------------------------
IoThread == Scan \/ RemoveDone \/ Notify \/ Dispose \/ EndPass \/ PollReturns
              \/ Collect

Monitor == StartMonitor \/ TestWrites \/ MonitorWait

World == \/ \E f \in Fd : Arrive(f) \/ HangUp(f)
         \/ \E a \in Action : TimePasses(a)

Next ==
  /\ ~ Astray
  /\ \/ IoThread \/ Monitor \/ World
     \/ \E t \in Task : \/ BlockWord(t) \/ AsyncWord(t) \/ SleepWord(t)
                        \/ SleepWait(t) \/ DestroyWord(t) \/ NonblockRead(t)
                        \/ OpenWord(t) \/ Exit(t)

Spec == Init /\ [][Next]_vars

\* Both threads run.  The two mutexes are free again and again, and a thread
\* that waits for one gets it; at most one task waits for the IO mutex.  A
\* SLEEP has an end, and whoever a program reads from hangs up in the end.
FairSpec ==
  /\ Spec
  /\ WF_vars(IoThread) /\ SF_vars(Notify)
  /\ SF_vars(Monitor \/ \E t \in Task : SleepWait(t))
  /\ \A f \in Fd : WF_vars(HangUp(f))
  /\ \A a \in Action : WF_vars(TimePasses(a))

-----------------------------------------------------------------------------
Actions == [type : AllTypes, fd : Fd \cup {Stdin}, count : Counts \cup {0},
            index : Nat, task : Task \cup {Nil}, doomed : BOOLEAN,
            isDone : BOOLEAN, isClosed : BOOLEAN, hasHangup : BOOLEAN,
            hasError : BOOLEAN, due : BOOLEAN]

\* Every variable has its type, and a transfer never passes the end of its
\* buffer (io.c:889, 916).
TypeOK ==
  /\ act \in [Action -> Actions] /\ live \subseteq Action
  /\ \A a \in Action : act[a].index <= act[a].count
  /\ \A list \in {active, waiting, done} :
       list \in Seq(Action) /\ IsInjective(list)
  /\ \A f \in Fd : issued[f] \in Seq(Action)
  /\ activeCount \in Nat /\ pendingWrites \in Nat /\ breaks \in Nat
  /\ handler \in BOOLEAN /\ again \in BOOLEAN /\ polled \subseteq Action
  /\ at \in {"top", "scan", "remove", "notify", "dispose", "poll", "collect",
            "astray"}
  /\ stage \in {"before", "after"} /\ {cursor, next} \subseteq Action \cup {Nil}
  /\ revents \in [Action -> SUBSET {"IN", "OUT", "HUP", "ERR", "NVAL"}]
  /\ user \in [Task -> {"idle", "sleep", "blocked", "holding", "gone"}]
  /\ handle \in [Task -> Action \cup {Nil}] /\ awake \subseteq Task
  /\ monitor \in {"off", "test", "wait", "asleep", "ended"}
  /\ data \in [Fd -> 0..MaxData]
  /\ hup \in [Fd -> BOOLEAN] /\ open \in [Fd -> BOOLEAN]

\* An action a task destroys while the IO thread has it in hand is not freed:
\* its destruction is deferred until the IO thread is through with it
\* (af_io_action_destroy, io.c:158-175, which defers it only if the action is
\* not done).
DestructionDeferred ==
  [][\A t \in Task : handle[t] \in live \ live' => handle[t] \notin InHand]_vars

InUse == InHand \cup ToSet(done)

\* As long as no task frees an action that is done but still in the IO thread's
\* hand, everything the lists and the thread lead to is allocated memory: what
\* is destroyed before it is done is freed in the end and by the IO thread,
\* after its task is woken and all its uses (io.c:170, 1000-1008, 1066).
InUseKept == ~ Astray => InUse \subseteq live

\* active_action_count, which the array for poll() is allocated by (io.c:821),
\* is the length of the active list, and pending_write_count, on which
\* IO-MONITOR ends the program, counts the writes that are not done.
CountsExact ==
  ~ Astray =>
  /\ activeCount = Len(active)
  /\ pendingWrites = Leftover
       + Cardinality({a \in ToSet(active) \cup ToSet(waiting) :
                        act[a].type = "WRITE"})

\* a SLEEP has no file descriptor of its own: it lies on standard input's
OnFd(list, f) == {a \in ToSet(list) \cap UsesFd(f) : act[a].type # "SLEEP"}
Precedes(list, a, b) ==
  \E i, j \in DOMAIN list : i < j /\ list[i] = a /\ list[j] = b

\* the action issued first, of those that are not done
Foremost(f) == IF issued[f] = <<>> THEN {} ELSE {Head(issued[f])}

InOrder(f) ==
  /\ OnFd(active, f) = Foremost(f)
  /\ OnFd(waiting, f) = ToSet(issued[f]) \ Foremost(f)
  /\ \A a, b \in OnFd(waiting, f) :
       Precedes(waiting, a, b) <=> Precedes(issued[f], a, b)

\* The actions on one file descriptor are served one at a time and in the order
\* they were issued, over two lists that are both linked by hand, and none waits
\* while its file descriptor is free (io.c:720-738, 998-1042).
ServedInOrder == ~ Astray => \A f \in Fd : InOrder(f)

\* A task that blocked on an action and runs again finds it done, or so much as
\* ended (io.c:1046-1049; the READ-CHAR and KEY of init.fs take the byte).
ResumesWhenDone ==
  ~ Astray => \A t \in awake : user[t] = "blocked" /\ handle[t] # Nil
                                 => act[handle[t]].isDone

\* the end of a pipe is being read
HungUp(f) ==
  /\ f \in Pipes /\ hup[f] /\ data[f] = 0
  /\ \E a \in OnFd(active, f) : act[a].type = "READ"

\* Only who waits for the end of a pipe, or behind such a read, is not woken, for
\* there poll() returns POLLHUP without POLLIN and nothing is done (io.c:876):
\* actions in wait for another's file descriptor get their turn, a SLEEP ends,
\* and the thread is taken out of its poll for an action that comes after it
\* has begun (io.c:740, 1046).
OthersResume ==
  \A t \in Task :
    user[t] = "blocked"
      ~> \/ t \in awake \/ Astray
         \/ handle[t] # Nil /\ HungUp(act[handle[t]].fd)

\* IO-MONITOR, asleep while a write that some task left behind is not done, is
\* woken to test again (init.fs:1286-1290, io.c:1056): no wake-up it has to
\* wait for is lost, whatever it may miss before it sleeps.
MonitorWoken ==
  /\ monitor = "asleep"
  /\ \E a \in ToSet(active) \cup ToSet(waiting) : act[a].type = "WRITE"
  ~> monitor = "test" \/ Astray \/ \E f \in Fd : HungUp(f)

=============================================================================
