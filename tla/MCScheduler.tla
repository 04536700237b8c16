----------------------------- MODULE MCScheduler -----------------------------
(* Scheduler on small sets of tasks, for TLC.                              *)
EXTENDS Scheduler, TLC

\* tasks are interchangeable: Init, Next and the safety properties name none
TaskSymmetry == Permutations(Task)

\* the words that start, stop and end tasks, atomic sections and the handler task
LifeWords == {"SPAWN", "START", "KILL", "YIELD", "WAIT", "ABORT", ">TERMINATE", "TERMINATE", "BYE",
              "BEGIN-ATOMIC", "END-ATOMIC", "END-ATOMIC-AND-WAIT", ">HANDLER-TASK"}

\* the IO handler task and the IO that wakes tasks
MonitorWords == {"SPAWN", "START", "KILL", "WAKE", "BEGIN-ATOMIC",
                 "END-ATOMIC-AND-WAIT", ">IO-HANDLER-TASK", "IO-BLOCK", "IO-ASYNC"}

\* words enough to start a second task, block and resume
RoundRobinWords == {"SPAWN", "START", "KILL", "WAIT", "WAKE", "IO-BLOCK"}

(* The bound of the monitor run: a task that asks for the section is given  *)
(* one level more than the highest, so levels would grow without end.       *)
NestingBound == \A t \in Task : g.nesting[t] < 2

NoLiberties == {}

=============================================================================
