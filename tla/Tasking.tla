------------------------------- MODULE Tasking -------------------------------
(***************************************************************************)
(* The task bookkeeping of src/src/runtime/inner.c: what each function the *)
(* task words call does to af_global_t and to the af_task_t records.  The  *)
(* operators map a state of the two structures, one record s, to the state *)
(* the function leaves; the machine that calls them is module Scheduler.   *)
(*                                                                         *)
(*   s.tasks     the list first_task / next_task, head first               *)
(*   s.base      base_cycles_before_yield     s.extra    extra_cycles      *)
(*   s.cby       current_cycles_before_yield  s.left  current_cycles_left  *)
(*   s.freeing   is_to_be_freed               s.nesting  nesting_level     *)
(*   s.term      terminate # NULL             s.active tasks_active_count  *)
(*   s.count     task_count                   s.current  current_task      *)
(*   s.atomic    atomic_task                  s.handler  handler_task      *)
(*                                                                         *)
(* A task that is in no list (never allocated, or freed) has the values of *)
(* Blank; an address may be allocated again once it is freed.              *)
(***************************************************************************)
EXTENDS Integers, Sequences, FiniteSets

CONSTANTS Task,           \* addresses a task record can have
          Nil,            \* the NULL pointer
          DefaultCycles,  \* default_cycles_before_yield, 16K in the code
          MaxCycles,      \* max_cycles_before_yield, 64K in the code
          MaxExtra,       \* max_extra_cycles, 128K in the code
          MaxCell         \* the largest af_cell_t, 2^64 - 1

ASSUME TaskAssumption == IsFiniteSet(Task) /\ Nil \notin Task

ASSUME CycleAssumption ==
  /\ DefaultCycles \in Nat \ {0} /\ MaxCycles \in Nat
  /\ MaxExtra \in Nat /\ MaxCell \in Nat
  /\ DefaultCycles <= MaxCycles
  /\ MaxCycles + MaxExtra < MaxCell
  /\ Cardinality(Task) < MaxCell

-----------------------------------------------------------------------------
(* The two structures, as one record.                                      *)

GlobalType ==
  [tasks : Seq(Task), base : [Task -> {0, DefaultCycles}],
   extra : [Task -> 0..MaxExtra], cby : [Task -> {0, DefaultCycles}],
   left : [Task -> 0..MaxCell], freeing : [Task -> BOOLEAN],
   nesting : [Task -> Int], term : [Task -> BOOLEAN],
   active : 0..MaxCell, count : 0..MaxCell,
   current : Task \cup {Nil}, atomic : Task \cup {Nil}, handler : Task \cup {Nil}]

-----------------------------------------------------------------------------
(* Cells are unsigned and wrap.                                            *)

Inc(n) == IF n = MaxCell THEN 0 ELSE n + 1
Dec(n) == IF n = 0 THEN MaxCell ELSE n - 1
Plus(m, n) == IF m + n > MaxCell THEN m + n - MaxCell - 1 ELSE m + n
AtMost(n, bound) == IF n > bound THEN bound ELSE n

-----------------------------------------------------------------------------
(* The task list.                                                          *)

First(list) == IF list = <<>> THEN Nil ELSE Head(list)
Listed(s) == {s.tasks[i] : i \in DOMAIN s.tasks}
Alive(s) == {t \in Listed(s) : ~ s.freeing[t]}
Awake(s) == {t \in Task : s.cby[t] # 0}

Position(list, t) == CHOOSE i \in DOMAIN list : list[i] = t
NextOf(list, t) == LET i == Position(list, t)
                   IN  IF i = Len(list) THEN Nil ELSE list[i + 1]

\* mutant: first_task is pointed past t whether or not t has a predecessor
Unlink_First(list, prev, t) == SubSeq(list, Position(list, t) + 1, Len(list))

\* prev->next_task (or first_task) is pointed at what follows t: whatever
\* lay between prev and t would be lost as well
Unlink(list, prev, t) ==
  (IF prev = Nil THEN <<>> ELSE SubSeq(list, 1, Position(list, prev)))
    \o SubSeq(list, Position(list, t) + 1, Len(list))

-----------------------------------------------------------------------------
(* Scheduling.                                                             *)

Schedule(s)   == [s EXCEPT !.active = Inc(@)]
Deschedule(s) == [s EXCEPT !.active = Dec(@)]

Start(s, t) ==
  IF s.base[t] = 0 /\ ~ s.freeing[t]
  THEN Schedule([s EXCEPT !.base[t] = DefaultCycles, !.cby[t] = DefaultCycles,
                          !.left[t] = DefaultCycles])
  ELSE s

Yield(s, t) == [s EXCEPT !.left[t] = 0, !.extra[t] = 0]

\* mutant: the saved cycles are not limited
Wait_Unlimited(s, t) ==
  Deschedule([s EXCEPT !.cby[t] = 0, !.left[t] = 0,
                       !.extra[t] = Plus(@, s.left[t])])

Wait(s, t) ==
  Deschedule([s EXCEPT !.cby[t] = 0, !.left[t] = 0,
                       !.extra[t] = AtMost(Plus(@, s.left[t]), MaxExtra)])

\* mutant: a task that is not waiting is scheduled once more
Wake_Again(s, t) ==
  IF ~ s.freeing[t] THEN Schedule([s EXCEPT !.cby[t] = s.base[t]]) ELSE s

\* mutant: it is current_cycles_left that is tested
Wake_Left(s, t) ==
  IF s.left[t] = 0 /\ s.cby[t] = 0 /\ ~ s.freeing[t]
  THEN Schedule([s EXCEPT !.cby[t] = s.base[t]])
  ELSE s

Wake(s, t) ==
  IF s.cby[t] = 0 /\ ~ s.freeing[t]
  THEN Schedule([s EXCEPT !.cby[t] = s.base[t]])
  ELSE s

-----------------------------------------------------------------------------
(* Atomic sections.                                                        *)

\* af_get_nesting_level; first_task counts even when it is to be freed
NestingLevel(s) ==
  LET levels == {s.nesting[t] : t \in Alive(s) \cup {First(s.tasks)}}
  IN  CHOOSE l \in levels : \A m \in levels : m <= l

\* af_get_nested_task scans the list once, remembering the task it would
\* pick and that task's level, and starts from the level of first_task
NestedTask(s) ==
  LET Picks(level, t) == /\ ~ s.freeing[t]
                         /\ \/ level > -1 /\ s.nesting[t] < level
                            \/ level < 0  /\ s.nesting[t] > -1
      scan[i \in 0..Len(s.tasks)] ==
        IF i = 0 THEN [level |-> s.nesting[First(s.tasks)], task |-> Nil]
        ELSE LET t == s.tasks[i] IN
             IF Picks(scan[i - 1].level, t)
             THEN [level |-> s.nesting[t], task |-> t]
             ELSE scan[i - 1]
  IN  scan[Len(s.tasks)].task

\* mutant: the running task is not made to yield
MakeAtomic_Late(s, t) ==
  LET owned == [s EXCEPT !.nesting[t] = -1, !.atomic = t]
  IN  IF s.current = t THEN owned ELSE Wake(owned, t)

\* t becomes the atomic task; a running task other than t stops, t runs
MakeAtomic(s, t) ==
  LET owned == [s EXCEPT !.nesting[t] = -1, !.atomic = t]
  IN  IF s.current = t THEN owned
      ELSE Wake(IF s.current = Nil THEN owned ELSE Yield(owned, s.current), t)

\* mutant: another task's section is taken over
BeginAtomic_Seizing(s, t) == IF s.atomic # t THEN MakeAtomic(s, t) ELSE s

BeginAtomic(s, t) ==
  IF s.atomic = Nil THEN MakeAtomic(s, t)
  ELSE IF s.nesting[t] < 0 /\ t # s.atomic
       THEN [s EXCEPT !.nesting[t] = IF NestingLevel(s) < 0 THEN 0
                                     ELSE NestingLevel(s) + 1]
       ELSE s

\* next is the task af_get_nested_task returned
EndAtomic(s, t, next) ==
  IF t # s.atomic THEN s
  ELSE IF next # Nil /\ next # s.current THEN MakeAtomic(s, next)
       ELSE [s EXCEPT !.atomic = Nil]

EndAtomicAndWait(s, t, next) == Wait(EndAtomic(s, t, next), t)

-----------------------------------------------------------------------------
(* Creation and death.                                                     *)

\* af_handle_spawn and af_handle_kill
NotifyHandler(s) ==
  IF s.handler # Nil /\ ~ s.freeing[s.handler]
  THEN BeginAtomic(s, s.handler) ELSE s

Spawn(s, t) ==
  NotifyHandler(
    [s EXCEPT !.tasks = <<t>> \o @, !.base[t] = 0, !.extra[t] = 0,
              !.cby[t] = 0, !.left[t] = 0, !.freeing[t] = FALSE,
              !.nesting[t] = -1, !.term[t] = FALSE, !.count = Inc(@)])

Kill(s, t) ==
  NotifyHandler(
    Deschedule([s EXCEPT !.cby[t] = 0, !.left[t] = 0, !.freeing[t] = TRUE,
                         !.count = Dec(@)]))

\* mutant: a task that is already ended is ended again
Terminate_Again(s, t) ==
  IF ~ s.term[t] THEN Kill(s, t)
  ELSE IF s.cby[t] = 0
       THEN Schedule([s EXCEPT !.cby[t] = DefaultCycles])
       ELSE s

\* the terminate word starts executing in t's own context: it is t that
\* later executes its words
Terminate(s, t) ==
  IF s.freeing[t] THEN s
  ELSE IF ~ s.term[t] THEN Kill(s, t)
  ELSE IF s.cby[t] = 0
       THEN Schedule([s EXCEPT !.cby[t] = DefaultCycles])
       ELSE s

\* aborts says whether the task has an abort word
Reset(s, t, aborts) ==
  LET fresh == [s EXCEPT !.base[t] = DefaultCycles, !.extra[t] = 0,
                         !.cby[t] = DefaultCycles]
  IN  IF aborts THEN fresh ELSE Kill(fresh, t)

\* the unlinking and af_free_task of the two sweeps of af_task_loop
Free(s, prev, t) ==
  [s EXCEPT !.tasks = Unlink(@, prev, t),
            !.atomic = IF @ = t THEN Nil ELSE @,
            !.base[t] = 0, !.extra[t] = 0, !.cby[t] = 0, !.left[t] = 0,
            !.freeing[t] = FALSE, !.nesting[t] = -1, !.term[t] = FALSE]

-----------------------------------------------------------------------------
(* A slice.                                                                *)

\* the head of af_inner_loop: cycles a task may not use now stay extra
BeginSlice(s, t) ==
  LET grant == Plus(s.cby[t], s.extra[t])
  IN  [s EXCEPT !.current = t, !.left[t] = AtMost(grant, MaxCycles),
                !.extra[t] = IF grant > MaxCycles
                             THEN AtMost(grant - MaxCycles, MaxExtra) ELSE @]

\* while(current_cycles_left--): one cycle is charged before the word runs
Charge(s) == [s EXCEPT !.left[s.current] = Dec(@)]

\* the test that fails also decrements, so the counter wraps
EndSlice(s) == [Charge(s) EXCEPT !.current = Nil]

=============================================================================
