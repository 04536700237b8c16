# Attoforth in TLA+

A verification project for attoforth (`src/`), a preemptive multitasking Forth:
a C runtime of two OS threads, and a concurrency library written in Forth on
top of it.  It holds models of the system (`*.tla`), TLC configurations
(`*.cfg`), and theorems checked by TLAPS (`*Proofs.tla`).  `PROJECT.json` maps
each definition to the lines it models.

## 1. The system

| component | where | state | operations | what makes it correct |
|---|---|---|---|---|
| task records | `runtime/inner.c`, `af/types.h` | the list `first_task`, cycle counters per task, `tasks_active_count`, `task_count`, `atomic_task`, `handler_task` | start, wait, wake, yield, kill, terminate, reset, atomic sections | the counters count; the list loses only freed tasks; sections exclude |
| task loop | `runtime/inner.c` `af_task_loop`, `af_inner_loop` | `task`, `prev_task`, `current_task` | walk, slice, unlink, sleep | round robin; no sleep beside a runnable task |
| thread condition | `runtime/cond.c` | `count` | wait, signal | a signal before the wait is kept |
| IO thread | `runtime/io.c` | lists of active, waiting and done actions; `handler_task`; `pending_write_count` | poll, remove done, wake | an action completes once, its task is woken, memory is freed by one side |
| locks | `runtime/builtin.c` 432-536 (Forth source in C strings) | primary and secondary owner, queue of waiting tasks, release counter | `LOCK`, `UNLOCK`, `UNLOCK-NO-RELOCK`, `UNLOCK-COUNT-RELOCK` | exclusion, hand-over in order, every `LOCK` returns |
| condition variables | `forth/cond.fs` | secondary owner, queue | `WAIT-COND`, `SIGNAL-COND`, `BROADCAST-COND` | no signal is lost |
| channels | `forth/chan.fs`, `forth/bchan.fs` | a ring with two indices, a lock, one or two condition variables | send, receive, peek, try | FIFO, bounded, nobody waits while there is something to take |
| at-exit and spawn words | `runtime/builtin.c` 1015-1097 | buffer of handlers, its lock | `ATEXIT`, `EXECUTE-ATEXIT`, `DIE`, `SPAWN-SIMPLE...` | every handler runs once, in reverse order |
| monitors | `forth/init.fs` 1286-1300 | `handler_task`, `io->handler_task` | `TASK-MONITOR`, `IO-MONITOR` | the program ends after the last task and the last write |
| exceptions | `runtime/builtin.c` 577-631 | handler chain | `CATCH`, `THROW` | stacks restored to the catching depth |
| input, parsing, numbers, interpreter | `runtime/inner.c`, `runtime/prim.c`, `runtime/builtin.c` | input stack, `>IN`, base, wordlists | parse, convert, find, compile | each token once; numbers round-trip |
| data space | `runtime/inner.c`, `runtime/prim.c` | `data_space_current`, `_top` | `HERE`, `ALLOT`, guarantee | allocation stays in the space |
| buffers, terminal editing, history, kill ring | `forth/buffer.fs`, `forth/init.fs` | arrays and indices | append, prepend, edit, yank | indices stay inside |
| stack machine primitives, math, development tools | `runtime/prim.c`, `forth/*.fs` | a task's stacks | several hundred words | sequential, mostly out of scope |

How they interact.  The main thread runs `af_task_loop`; all Forth code runs
inside it, one word at a time, holding `global->mutex`.  It gives the mutex up
for an instant before each slice and while it sleeps.  The IO thread takes the
mutex to wake the task of a finished action.  Locks, condition variables and
channels are Forth words over `CAS`, `WAIT`, `WAKE` and `YIELD`; a slice may end
between any two words of them.

What is hard: the two threads meet only in the short gaps where the mutex is
open; a slice changes the very list the loop is walking; the active count is
kept by hand; atomic sections are handed over by spawns and kills anywhere;
wake-ups are not remembered by `WAIT`.  `hazards` in `PROJECT.json` lists these
with their lines.

## 2. Plan

Done, in this order:

1. `Tasking`, `Scheduler`, `SchedulerProofs`: the task structures and the two
   threads.
2. `Lock`, `LockProofs`: the lock words over an abstract scheduler.
3. `Cond` over `Lock`, `Channel` over both, and `ChannelSpec`, the queue that
   `Channel` implements; `ChannelProofs` for the ring, the refinement, the lock
   and the sleepers.
4. `IoManager`, `IoProofs`: the IO thread's lists, the life of an action, and
   `IO-MONITOR`.
5. `Arithmetic`, `ArithmeticProofs`: powers and bits; `StackMachine`,
   `StackMachineProofs`: the primitives on the stacks, with their checks.
6. `Dictionary`, `DictionaryProofs`: words, data spaces, compilation, lambdas.
7. `Numbers`, `NumbersProofs`: how numbers are written and read.

Left, by worth:

1. `AtExit` over `Lock`: `ATEXIT`, `EXECUTE-ATEXIT`, `DIE`, `FORCE-SIMPLE-LOCK`,
   with `TERMINATE` in the middle of any of them.
2. Exceptions, the input stack, tokens.
3. `TIME+`, buffers, the kill ring and history, as operators with reference
   definitions.

## 3. The modules

### Tasking

The functions of `inner.c` on `af_global_t` and `af_task_t`, as operators from
one record `s` to the next.  The header of the module names the field behind
each component.  The linked list is a sequence, head first; `Unlink` drops what
pointing `prev_task->next_task` past the task would drop, not just the task.
Cells wrap (`Inc`, `Dec`, `Plus`): `while(current_cycles_left--)` really leaves
the largest cell behind, and `af_wait` really adds it.  A task's stacks, words
and data space are not modelled; executing `init_word`, the terminate word or
the abort word only redirects the task's own interpreter, since these are colon
definitions, so the words they contain are executed later as words of a slice.

### Scheduler

`pc` is the place of the main thread in `af_task_loop`:

    outer -> inner -> walk -> (gap -> slice | gap) ... -> sweep -> inner
                  \-> unlocked -> (asleep ->) relock -> outer        done

| action | code |
|---|---|
| `Outer`, `Inner` | the two `while` tests and the `if(global->first_task)` |
| `Reap`, `PassOver`, `OpenGap`, `SweepPast`, `EndWalk`, `EndSweep` | the bodies of the two list walks |
| `SkipSlice`, `EnterSlice`, `LeaveSlice` | `af_inner_loop` |
| `...Word`, `ByeStep` | the task words of `prim.c`, one cycle each; `OtherWord` is every other word |
| `CondWait`, `CondWake`, `SpuriousWake`, `Relock` | `af_cond_wait` |
| `IoWake`, `IoNotice`, `IoNotify`, `IoSignal` | the end of `af_io_remove_done`, `af_cond_signal` |

`Words` chooses the words a program uses.  The `May...` operators are the
contract the functions rely on without testing it: a task pointer is not used
after `KILL` (`doc/task.md`), `WAIT` is for a task that has cycles, `WAKE` for
one that was started, and so on.  Each of the `Liberties` drops one clause, and
without the clause some property fails (section 4).  `"kill atomic"` is within
the contract of every theorem.

### Lock

The lock words of `builtin.c`, one step per stretch of words that other tasks
cannot observe: only the owner of the secondary lock touches the lock, so what
lies between `SIMPLE-LOCK` and `SIMPLE-UNLOCK` is one step, and these two and
`WAIT` are steps of their own.  `pc[t]` is the place of a task in a lock word:

    idle -> lock -> test -> locked -> idle                      LOCK
                      \-> release -> park -> (asleep) lock
    idle -> unlock -> give -> leave -> idle                     UNLOCK...

Of `Scheduler` it keeps that one task runs at a time, that its slice may end
between any two words, and that `WAKE` does nothing to a task that does not
wait.  `call` says which of the three unlocking words a task is in.
`inside` is what callers believe: the tasks between `LOCK` and their next
unlocking word.  `missed` is a history variable that no action reads: the tasks a
wake-up reached before they waited (`WakeUp`).  With it the properties say what
holds in spite of lost wake-ups.

### Cond, Channel, ChannelSpec

`Cond` extends `Lock` with condition variables (`cond.fs`): `WAIT-COND` is
queueing and calling `UNLOCK`, `WAIT` once that has returned, and `LOCK` once
woken; `SIGNAL-COND` is one step, for it runs between taking and leaving a
secondary lock.  `BROADCAST-COND` has no user in the repository's channels and
is left out.

`Channel` extends `Cond` with both kinds of channel.  `chan.fs` and `bchan.fs`
are the same words but for the bound, the condition senders wait on, and the
unlocking word each ends with; `max` is `Unbounded` for a `CHAN`.  A channel
word of a task is

    out -> lock -> (WAIT-COND, again and again) -> [signal ->] unlock -> leave -> out

where `LOCK`, `WAIT-COND` and the unlocking words are the steps of the modules
below, interleaved with those of the other tasks.  A slice may end anywhere in
all of them.

`ChannelSpec` is what `doc/chan.md` and `doc/bchan.md` promise: a sequence of
messages and words that take effect at once.  `Channel` maps its ring to that
sequence (`Abstract`), the step with the work on the ring to the effect.  What a
peek shows is left open there (`Shown`), for `PEEK` reads the wrong cell.

### IoManager

`io.c`, the IO words of `prim.c` and the tasks that call them.  The IO thread is
a program counter (`at`: scan, remove, notify, dispose, poll, collect) with the
local variables it keeps while the mutex is open; each action is the stretch
between two points where it takes or lets go of a mutex.  Actions are memory
(`live`) that is reused after it is freed, so that a stale pointer would meet
somebody else's action.  Tasks issue blocking, asynchronous and `IO-SLEEP`
actions, read without blocking, open and close descriptors, and destroy what
they were handed, done or not, at any time.  When an action is freed that the IO
thread has in hand (`InHand`: in the lists it walks, among those it polls for,
or in a local variable it keeps while the mutex is open) the thread goes
`"astray"`: what follows is undefined in C, so the model stops there, and the
properties say what holds up to that step.  The world gives bytes, hangs up and
lets time pass.
`IO-MONITOR` (`init.fs` 1286) is a task of its own, `StartMonitor`, `TestWrites`,
`MonitorWait`.

### Arithmetic

What the two modules below compute with: `Power`, and `&`, `|` and `^` of C as
the intersection, union and difference of the sets of bits that are one.  `^` of
TLA+ and `Bitwise` would serve TLC as well; about these one can prove.

### StackMachine

The primitives of `prim.c` on the data, float and return stacks.  A word is an
effect: what its `AF_VERIFY_...` macros ask for, what it really takes and
leaves, and where it goes.  `After` executes it; an access outside a stack is
the state `"stray"`.  A read check compares the address `base - (cells - 1)`, which
wraps (`CanRead`): `Space` is the number of cells that addresses tell apart,
`DataBase` and `FloatBase` are where the stacks lie in it.  An access behind a
check whose address wrapped is the state `"wild"`.  Floats are only counted; cells have `Width` bits.  The
code a task runs is any code: at every cell any word of the task's vocabulary
may stand.  The build is the one with `DEBUG`, whose checks `Debug` switches.

What programs must not do (`Lawful`): `FPICK` on a full float stack, for
which it checks no room (`prim.c` 2397); `EXIT` to what is no code address.
Shifts take their count modulo the width and the least number divided by -1
traps, as on x86.  `SP!`, `FP!`, `RP!` and the like set a stack to any address
and are left out.

### Dictionary

The words that define words and compile code.  `words` is every word defined,
`chains` the wordlists, `code` the instructions at their addresses, and per task
where its data space goes on, whether it compiles, its `most_recent_word` and
the lambdas it is in.  `Stays` and `Moves` are `af_guarantee`, `Allots` is
`af_allot`, `GiveBack` an `ALLOT` of a negative number.  Two fields remember what
the C code does not: `floor`, the cell up to which a task's chunk holds headers
and instructions, and `beyond`, the cells outside a chunk that `,` has stored to.
`Reached` follows control from a word's code through calls and
branches; it says nothing of how the code is made, so that the properties
compare the two.

The program the model runs keeps to what the code relies on without testing it:
no word is made between `[:` and `;]`, a negative `ALLOT` gives back cells that
hold data and neither headers nor code, no hole is left in an open definition by
`ALLOT`, `]` is used in a definition only, `;` and `IMMEDIATE` only after a word
was made (in the default build they do not test), `WORD` is not executed while
compiling, and a task with `FREE-DATA-ON-EXIT` defines no words (`doc/task.md`).
`WORDLIST`, `SET-ORDER` and `SET-CURRENT` are not modelled.

### Numbers

`FORMAT-NUMBER` and its three siblings, and `af_parse_number` and
`af_parse_2number`.  Characters are numbers: a digit is its value.  One width
stands for the cell and the double, whose routines differ in the full stop and
in the size of the buffer.  `af_parse_float` and `FORMAT-FLOAT` are not modelled.

### MC modules

`MCScheduler`, `MCLock`, `MCChannel`, `MCIoManager`, `MCStackMachine`,
`MCDictionary` and `MCNumbers` hold the sets the `.cfg` files name and the
symmetries; none replaces a definition.

## 4. Properties and runs

| run | properties | shows |
|---|---|---|
| `life` | `TypeOK`, `ActiveCountExact`, `TaskCountExact`, `WalkPointers`, `AtomicExclusion`, `AtomicKept` | the counters and the walk's pointers are right while tasks spawn, start, wait, abort, terminate and kill one another in and out of atomic sections, with the handler task, and `BYE` goes over the list |
| `monitor` | `NoStrandedTask`, `NoDanglingPointer` | no wake-up is lost and no pointer outlives its task while tasks block on IO and are killed, with the IO handler task and asynchronous IO |
| `round_robin` | `AwakeTaskRuns`, `IoTaskResumes`, `ExitsWhenAllKilled` | under `FairSpec` a task with cycles gets its slice, and the loop ends |
| `lock` | `TypeOK`, `MutualExclusion`, `OutsideOwnsNothing`, `OwnerHeard`, `WaitersQueued`, `LockReturns` | with all three unlocking words and slices ending anywhere the lock excludes; a wake-up is lost only if it comes right before `WAIT`, and the list holds all other sleepers, each once; where none is lost and `UNLOCK` alone is used, every `LOCK` returns |
| `lost_wake` | `OwnerAwake`, violated | finding: a slice that ends right before `WAIT` loses the wake-up, and the lock for good |
| `channel` | `ChanTypeOK`, `SignalsHeard`, `NoneStranded`, `ImplementsQueue` | a channel is a first-in first-out queue with its bound, wherever slices end and while the ring grows wrapped around; a signal misses a task only right before its `WAIT`; with no wake-up lost and the lock free nobody waits beside a message or room |
| `chan_hung_call` | `CallsServed`, violated | finding: with no wake-up lost, a call waits for ever in `LOCK` although a message or room is there |
| `io` | `TypeOK`, `InUseKept`, `CountsExact`, `ServedInOrder`, `ResumesWhenDone`, `OthersResume`, `MonitorWoken` | up to the step `io_destroy` shows, nothing in use is freed, the counters count, each descriptor serves its actions in the order issued and keeps none waiting while it is free, a task resumes only when its action is done; a blocked task resumes unless it waits for, or behind, the end of a pipe; `IO-MONITOR` is woken when it sleeps beside a pending write |
| `io_destroy` | `DestructionDeferred`, violated | finding: a done action is freed while the IO thread has it in hand |
| `stack_words` | `ChecksSuffice`, `ProgramsAgree`, `CallsComeBack` | the checks of a `DEBUG` build cover every access but those by an index beyond the base; some thirty pairs of programs that should agree do |
| `dictionary` | `DictionaryTypeOK`, `CodeEnds`, `CompilesRecent`, `CellsApart`, `NamesKept` | what can be executed is complete code, across chunks, resets and tasks; instructions lie apart, in cells that are allotted and kept |
| `numbers` | `TextFits`, `RoundTrip`, `ReadsNumerals`, `ReadsNothingElse` | numbers are read back as written; numerals and nothing else are read, with two exceptions |

### Bounds

The `Scheduler` runs have 2 or 3 tasks, one default cycle per slice, a slice
limit of 2 and a saved-cycles limit of 2, cells of 8 values.  Three
tasks give the walk a head, a middle and a tail, so every unlinking case, a
spawn in front of the walk and an atomic task with two others occur;
the saved cycles reach their limit and cells wrap.  Addresses are reused after a task is freed, as by
`malloc`.  At most one blocking IO action per task and one asynchronous one are
outstanding (the bounds in `IoBlockWord` and `IoAsyncWord`).  In `monitor`
nesting levels stay below 2 (`NestingBound`): each request takes a level above
the highest, so the code lets them grow.  Deadlock is not checked there: the
program may end (`pc = "done"`), and `af_bye` may meet a task its contract does
not let it terminate.

The lock runs have three tasks and a list of two cells, so that two tasks can
wait behind an owner and the list is full but never grown.  Deadlock is not
checked: the lost wake-up is one.

`channel` has two tasks, two messages, a ring of two cells and bounds of 1, 3
and none: the ring starts smaller than, as large as, or at its bound, is grown
once while it is wrapped, and is full and empty; a message may be taken before
the receiver signalled for it has the lock.  Two tasks never sleep on one
condition with a third left to signal it; the theorems have any number.  At most
`MaxQueued` messages are in the channel and on their way.  `PEEK`, which takes a
signal and no message, is not among the words: `NoneStranded` fails with it.
`TRY-RECV` is left out too: it takes like `RECV`, or takes nothing like `TRY-PEEK`, and
unlocks by the words others do.
Deadlock is not checked: all tasks may rightly wait, and lost wake-ups stop them.

`io` has two tasks and two actions on one descriptor, a pipe, so that one action
waits behind another and its memory is reused; the order among several that wait
is the theorem `IoServesInOrder`.  `MaxBreaks` bounds the bytes in the pipe that
breaks the poll, `MaxData` those that may be read at once.  Transfers are of no
byte or one: a transfer in parts is covered by the theorems only.  `Leftover` is
0, which lets `IO-MONITOR` end.  `SEEK` and `TELL` are done like `CLOSE`.  Deadlock
is not checked: the program may be at an end.

`stack_words`: cells of three bits, stacks of four, three and three entries, as
many as a word of double cells takes, four vocabularies; what literals and memory give is 0,
1 and the least number.  Addresses tell eight cells apart, as many as a cell has
values, and the bases are one above the sizes, so that some indices are beyond
them.  `dictionary`: two tasks, a chunk of six cells and two
chunks each, so that a definition that begins in one goes on in the other; two
words, four instructions, enough for a lambda in a definition; one wordlist.
`numbers`: cells of four bits, bases from 0 to 37, texts of up to four of nine
characters, every number in every base, written and read in any other.

### Fairness

`Scheduler`: `WF(LoopStep \/ TaskWord)`: the main thread keeps going; it only
ever blocks in `af_cond_wait` or on the mutex, which the IO thread holds for a
few instructions.  `SF(IoWake(t))` and `SF(IoNotify)`: the mutex is free again
and again, not continuously, and the IO thread, which blocks in
`pthread_mutex_lock`, obtains it eventually.  `WF(IoSignal)`, `WF(IoNotice)`: no
lock is needed.  Nothing is assumed of spurious returns, nor of what words the
tasks choose.

`Lock`: `SF` of each task's steps.  `round_robin` shows that every
task with cycles gets slices for ever; that a task spinning on a secondary lock
finds it free in one of them is the assumption, and its sections are some dozen
words in slices of thousands.  In `Lock` also `SF(CallUnlock(t) /\ t \in
inside)`: whoever is inside unlocks one day.  `LockReturns` has the conditions
that every call is of `UNLOCK` and that no wake-up comes too early.  `Channel` assumes no fairness: that a call is not
served is stated of the states in which nobody is at work (`Quiet`).

`IoManager`: `WF(IoThread)`: the thread runs on, but for `poll()`, until something
happens.  `SF(Notify)`, which needs the task lock, and `SF` of the steps of
`IO-MONITOR` and of a `SLEEP` between issuing and `WAIT`, which need the IO mutex:
both are open again and again.  Of the world, that the other end of a descriptor
hangs up in the end and that the time of a `SLEEP` comes.  Nothing is assumed of
bytes to arrive, nor that tasks issue or destroy anything.

### Where the code and what one expects part

Three runs end in a violation of what a text of the repository says;
`findings` in `PROJECT.json` quotes the texts:

| run | at | what happens |
|---|---|---|
| `lost_wake` | `builtin.c` 472 | `UNLOCK` wakes a task between `SIMPLE-UNLOCK` and `WAIT`; it sleeps as the owner |
| `chan_hung_call` | `chan.fs` 108 | a channel word ends with an unlocking word that keeps the lock from the task it wakes |
| `io_destroy` | `io.c` 161, 1066 | `is_done` is taken for "no longer in use" |

The others are in the models as they are in the code, and the properties name
them as exceptions, or were met with the constants named here.

- Task operations.  The `May...` operators of `Scheduler` are the contract;
  with a member of `Liberties` a clause falls.  `"kill stopped"`: killing a task
  that was never started takes the active count one too low (`inner.c` 583), and
  the loop sleeps beside a runnable task (`NoStrandedTask`, `ActiveCountExact`).
  `"kill waiting"`, `"wait idle"`: the same.  `"wake stopped"`: a task
  woken before it is started is counted as active and has no cycles.  `"terminate stopped"`: such a task gets
  cycles but no base cycles (566-571), so its first blocking IO is its last
  (`IoTaskResumes`).  `WAIT` of a task that is not running adds the wrapped
  `current_cycles_left` (594) and saves more cycles than it had left, up to
  `max_extra_cycles`.
- `UNLOCK-NO-RELOCK`, and `UNLOCK-COUNT-RELOCK` below its count, take a waiting task off
  the list and wake it, but do not free the lock (`builtin.c` 505), which
  `doc/lock.md` 23 says they do; `OutsideOwnsNothing` is about `UNLOCK`.
- `LOCK-EXPAND` copies from the new list to the old and keeps what it frees
  (`builtin.c` 463), and so does the list of a condition: `WaitersQueued` and
  `SignalsHeard` are about lists that have not been grown.
- `WAIT-COND` unlocks and only then waits (`cond.fs` 66): a signal in between is
  lost, contrary to `doc/cond.md` 23.  `SignalsHeard` says that none is lost otherwise.
- `PEEK` reads cell 0 of the ring (`chan.fs` 131), contrary to `doc/chan.md` 31:
  after a receive it shows what was received.
- At the end of a pipe `poll()` reports `POLLHUP` without `POLLIN`, which ends nothing
  (`io.c` 876): who reads there is never woken, contrary to
  `doc/primitive_io.md` 99.  `OthersResume` excepts it and those behind it.
- The check of an index wraps (`inner.h` 59): `PICK`, `ROLL`, `FPICK` and `FROLL` of a
  huge index pass.  `ChecksSuffice` is about the rest; the machine becomes `"wild"`.
- `,` stores before it allots (`builtin.c` 74): in a full chunk the cell after its
  end is overwritten (`beyond`).  `CellsApart` says that it is that one.
- Saved cycles within the limit of a slice are used and kept (`inner.c` 218), so
  they are spent in every slice and not once.
- `END-ATOMIC` hands the section to the task of the lowest nesting level, a task
  that never asked included (`inner.c` 695), and can starve the others.
- The loop tests `atomic_task`, opens the mutex and does not test again
  (`inner.c` 174-177): with the IO handler task `AtomicExclusion` fails.
- A task waiting in `PEEK` takes a signal and leaves the message without passing
  it on (`chan.fs` 126).
- `IO-MONITOR` tests the pending write count and then waits (`init.fs` 1287-1290):
  when the last write ends in between, the handler is woken before it waits, and
  sleeps for ever.  `MonitorWoken` is about the writes still pending when it
  sleeps.
- The action of an `IO-SLEEP` lies on descriptor 0 (`io.c` 1017): when it is done,
  an action waiting on standard input comes in beside the one that is served
  (`ServedInOrder` with `Stdin` in `Fd`).
- A descriptor closed under an action is polled for ever (`io.c` 878).
  `pending_write_count` begins with what `malloc` left (94): with another value
  than 0, `Leftover` in the model, it stays too high and `IO-MONITOR` never ends.
- `F<=` does not advance (`prim.c` 2552) and is executed until the float stack
  is empty; the model has it so (`held`).  `2CAS` leaves TRUE when it failed
  (4125).  `2/` is defined as `2 *` (`builtin.c` 71).
- A negative `ALLOT` is not checked (`inner.c` 838) and may give back headers and
  code.  The `FORMAT` words and `EMIT` store at `HERE` without asking.  A header's
  padding is computed for the data space it may leave (`prim.c` 1750).
- A spawned task gets `wordlist_order_count` bytes of its parent's order
  (`inner.c` 404).
- In a base below ten every letter is a digit (`inner.c` 930), and `.` is read as
  a double zero: the two exceptions of `ReadsNothingElse`.
- `TIME+` carries above 1000000000 nanoseconds and not at it (`builtin.c` 420).

## 5. Proofs

`SchedulerProofs` begins with the lemmas about the operators of `Tasking`: what each
does to the list,
to the sets `Listed`, `Alive` and `Awake` and to the active count (`Kept`,
`Moves`).  It proves, for every finite set of tasks, every set of
words and every cycle limit, with `Liberties` at most `{"kill atomic"}`:

| theorem | states |
|---|---|
| `Inductive` | `Spec => []IInv` |
| `TypeCorrect`, `ActiveCountCorrect`, `NoTaskStranded`, `WalkPointersCorrect`, `PointersCorrect` | `TypeOK`, `ActiveCountExact`, `NoStrandedTask`, `WalkPointers`, `NoDanglingPointer` |

The invariants are not inductive alone.  `IInv` adds: `Sound(g)` (the list has no
repetition and holds every awake task; the active count is exact; the pointers
of `g` are listed; a task off the list is blank), what the program counter says about `cursor` and
`current_task` (`PointersInv`), that the task of a slice has cycles (`SliceInv`,
needed because a killed or waiting task has none left and the loop must leave
at once), that `af_bye` may still terminate what it has yet to reach (`ByeInv`),
that tasks the IO thread knows are alive and started, and that between the
unlock and the sleep either a signal is owed or nobody has cycles (`SleepInv`).
`IInv` was first checked by TLC in the safety runs.  The argument then has one
lemma per action: a word of a slice is a `Moves` step (it never unlinks, kills
only who may be killed, leaves the running task with cycles or with none left),
the loop's own steps keep `g` or free one task, and the IO thread's steps wake.

Assumptions of `SchedulerProofs`: `TaskAssumption`, `CycleAssumption` (the limits
are what the code sets: default within the slice limit, sums below the largest
cell) and `WordsAssumption`.

and, over `IInv`, with the same `Liberties`:

| theorem | states | under |
|---|---|---|
| `TaskCountCorrect` | `TaskCountExact` | nothing more |
| `AtomicKeptCorrect` | `AtomicKept` | nothing more |
| `AtomicExclusionCorrect` | `AtomicExclusion` | no `>IO-HANDLER-TASK` in `Words` |

`SectionInv` says whose a section may be when a slice begins and while it lasts:
nobody's, the running task's, or the IO handler task's.  It is kept because each
function of `Tasking` that makes another task atomic leaves the running one
without cycles (`Excludes`), and because none but the owner's words and its
death end a section (`KeepsSection`); both laws are transitive, so that a word
is proved by the functions it is made of.  With an IO handler task the exclusion
is false (section 4, `inner.c` 174), hence the condition.

`LockProofs` proves, for every set of tasks and every list size:

| theorem | states | under |
|---|---|---|
| `LockTypeCorrect`, `Exclusion` | `TypeOK`, `MutualExclusion` | nothing more |
| `OwnersHear` | `OwnerHeard` | nothing more |
| `LeaversOwnNothing` | `OutsideOwnsNothing` | nothing more |
| `WaitersAreQueued` | `WaitersQueued` | nothing more; the property speaks of lists not yet grown |

The first two need `IInv`: a task in a section owns the secondary lock, and a
task about to return from `LOCK` owns the primary one.  `WakeInv` adds that the
owner is not on its way to sleep unless a wake-up came too early; `QueueInv` that a
task in the list is there once and sleeps or is about to, also in a grown list;
`OwnerInv` that the owner is in a lock word or inside; `SleepInv` that who was
missed waits off the list and, while the list is as made, the others are in it.
A list that is grown loses its tasks (`Expanded`), hence the condition in
`WaitersQueued`.

`ChannelProofs` proves, for every set of tasks and
messages, every bound and ring size, wherever slices end:

| theorem | states | under |
|---|---|---|
| `ChanTypeCorrect` | `ChanTypeOK` | nothing more |
| `ChannelImplementsQueue` | `ImplementsQueue` | nothing more |
| `ChannelExclusion` | `MutualExclusion` | nothing more |
| `RingUnderLock` | who works on the ring owns the lock | nothing more |
| `SignalsAreHeard` | `SignalsHeard` | nothing more; the property speaks of lists not yet grown |

`ChanIInv` is the types, the ring's arithmetic (`count` cells from
`dequeueIndex` lead to `enqueueIndex`) and that a task has a result from its work
on the ring on.  The refinement maps the ring, read from `dequeueIndex` on, to
the queue; the lemmas say what putting, taking and growing, wrapped around or
not, do to that sequence, and every other step is a stutter.  `UnderLockInv` has
the laws of `LockProofs` again, where tasks also sleep in `WAIT-COND`, and the
phase each task is in.  `RingUnderLock` is why the work on the ring may be one
step of the model.  `HeardInv` says that a task past queueing in `WAIT-COND` and
not woken since is in the list of its condition, or was signalled too early.

`IoProofs` proves, for every number of tasks, actions and descriptors, up to the
step in which a task destroys a done action that the IO thread has in hand (the
properties but `TypeOK` have `~ Astray` as a premise; what follows that step is
undefined, and `io_destroy` shows that it happens):

| theorem | states | under |
|---|---|---|
| `IoTypeCorrect`, `IoInUseKept`, `IoCountsCorrect` | `TypeOK`, `InUseKept`, `CountsExact` | nothing more |
| `IoResumesCorrect` | `ResumesWhenDone` | nothing more |
| `IoServesInOrder` | `ServedInOrder` | `Stdin` not in `Fd` |

`IoIInv` adds where the lists may overlap (`ListsInv`) and what the thread may
still rely on in its local variables each time it has the mutex again, unless it
is astray (`ThreadInv`): the action it wakes a task for is out of the lists and its own to
free, the next one is still active, and so is all it polled for.  `WakeInv` adds
that a task's handle is its own and that every action that is to wake a task is
the only one to do so, which is why a task that wakes finds its action done.
`OrderInv` compares the two lists with `issued`, the actions in the order they
were issued: one per descriptor is active, the foremost, and moving the first
that waits for a free descriptor keeps the rest in order.

`DictionaryProofs` proves, for every number of tasks, names, wordlists and words
and every size of headers and chunks, from `DictionarySizes` alone:

| theorem | states |
|---|---|
| `DictTypeCorrect`, `CellsApartCorrect`, `NamesKeptCorrect` | `DictionaryTypeOK`, `CellsApart`, `NamesKept` |
| `CodeEndsCorrect`, `CompilesRecentCorrect` | `CodeEnds`, `CompilesRecent` |

`DictIInv` has the layout: wordlists newest first, each instruction below the
cell below which its task has neither allotted nor gives back anything (`floor`)
and apart from the others (`Laid`), and the `BRANCH` of
each open lambda still there.  `NamesKept` follows since a step hides no word and
only adds to the front of a list (`WordsKept`).  `FlowInv` is about control.
`Reached`, by which the two properties are stated, is a least set, which a step
can change everywhere; the invariant speaks of sets that exist instead: some
closed set of code holds all that can be executed (`RunsIn`); the word a task
has made last has a closed set that is left at the task's next cell only
(`PartOf`, `RecentLaw`); a definition around an open lambda has one that is left
at that lambda's `BRANCH` only (`OuterLaw`), so that `;]` may patch it without
touching what can be executed.  That control *does* come to the next cell
(`Leads`) is stated of every closed set.  `ReachedWithin` and `ReachedClosed`
bring the two together: `Reached(S)` is the least closed set, since each of its
steps adds an instruction or is the last to add anything.  Before the
proof TLC checked the parts of `FlowInv` over `Reached` on the states of
`dictionary`.

`ArithmeticProofs` has what the next two modules rest on.  The library states
induction with an operator as parameter, which no prover here can instantiate;
but that a set of numbers has a least element is a fact about sets.
So `LeastExists` stands in for induction: the set of numbers that fail has no
least one.  A recursive function, and the function inside `FoldLeft` or
`FoldFunctionOnSet`, is a `CHOOSE`; that one with its equation exists is again
shown by a least element (`Recursion`, `Folding`).  Then come powers,
division, sums of powers and bits.

`StackMachineProofs` proves, for cells of any width, stacks of any size, any
length of code and any vocabulary, from `MachineSizes` (at least three bits, a
return stack that holds what a reset calls, a cell to read), `AddressSpace` (the
stacks lie in it) and `KnownWords`:

| theorem | states |
|---|---|
| `SpecChecksSuffice` | `ChecksSuffice` |
| `SpecCallsComeBack` | `CallsComeBack` |

The inductive invariant is `ChecksSuffice`, which speaks of steps whose checks did
not wrap (`Wraps`), with the sizes of the three stacks and
that they hold cells, return addresses and `Nowhere`.  `Fits` says of an
effect that, if its checks pass, the machine has what it takes and room for what
it leaves.  `EffectFits` is one lemma per group of words; most reduce to
`Covered`, six comparisons of the numbers in an effect, while `PICK` and `ROLL`,
which take as many cells as the top one says, are compared with the checked
depth (`ReadFits`: a check whose address does not wrap counts the cells below the
top).  That a word leaves
*cells* is where the arithmetic comes in: the quotient of two doubles, a shifted
number or a set of bits is within the width.  For `CallsComeBack` the words of
the two programs are followed one by one, for every value a literal or memory
may give and every cell the call may lead to.  Without the checks (`Debug`
false) `ChecksSuffice` says nothing; `CallsComeBack` holds all the same, since
`docol`, `does` and `EXIT` test in every build.

`NumbersProofs` proves, for every width from two bits on, every set of bases and
every alphabet and length of text, from `NumberSizes` alone:

| theorem | states |
|---|---|
| `SpecTextFits` | `TextFits` |
| `SpecRoundTrip` | `RoundTrip` |
| `SpecReadsNumerals` | `ReadsNumerals` |
| `SpecReadsNothingElse` | `ReadsNothingElse` |

`IInv` says that `written` and `read` are what the words make of some number and
some text.  The rest is about the operators, digit by digit: a number is less
than the base to the number of its digits and at least the base to one less
(`TextFits`), so that `Width` digits are enough; reading takes one digit at a time
and after each has what the digits up to it denote, modulo the cells (`RoundTrip`,
`ReadsNumerals`); a text that is accepted is a sign, digits below the base and,
for a double, its full stop (`ReadsNothingElse`).

Only model-checked: `ProgramsAgree`, and all liveness, which the prover cannot
express under fairness.  `ProgramsAgree` runs some thirty pairs of programs word
by word, on full and on short stacks, and compares sums, products and bits of
their results: each pair is a proof of its own, and the run compares them
on every stack it reaches, in cells of three bits, instead.  It is a statement about the `DEBUG` build: without
the checks a program that leaves its stack and one that does not may differ.  The scan of `NestedTask` is a
recursive function whose result is only used through `MayPassTo`; nothing is
proved about which task it returns.

## 6. Not modelled

`components` in `PROJECT.json` says for each part what is and what is not.

- Planned: at-exit handling (its lock is taken by force after ten tries, while a
  task is in the middle of `ATEXIT` or of its own `EXECUTE-ATEXIT`), exceptions,
  the input stack and tokens, buffers, history and the kill ring.
- Left out for good: files and output over the operating system's calls, the
  terminal editor, floating-point arithmetic, printing, the development, trace
  and profile libraries, start-up and the examples: straight-line code whose
  results a test shows, or layout.
- Outside of what is modelled of a part: the destroying words of locks,
  conditions and channels, which must not be called while anybody uses them;
  `BROADCAST-COND`; words that set a stack pointer; search orders; the failure
  of `malloc` and of system calls other than read and write.
