-------------------------------- MODULE Channel --------------------------------
(***************************************************************************)
(* The channels of src/src/forth/chan.fs and src/src/forth/bchan.fs, one   *)
(* of them, over the locks and condition variables of modules Lock and     *)
(* Cond.  The two files differ in the bound, in the condition senders wait *)
(* on, and in the unlocking words; which of the two kinds the channel is,  *)
(* and its bound, is chosen when it is made.                               *)
(*                                                                         *)
(*   max                    BCHAN-QUEUE-MAX-SIZE, Unbounded for a CHAN     *)
(*   cells                  the ring at CHAN-QUEUE                         *)
(*   queueSize, count       CHAN-QUEUE-SIZE, CHAN-QUEUE-COUNT              *)
(*   enqueueIndex, dequeueIndex                                            *)
(*   at, job, got           where a task is in a channel word, which one   *)
(*                          with which message, and what it returns        *)
(*                                                                         *)
(* The ring is touched only with the lock, so a word's work on it is one   *)
(* step (Lock!MutualExclusion).  COUNT-CHAN only reads the count.          *)
(* DESTROY-CHAN must not be called while a task uses the channel.          *)
(***************************************************************************)
EXTENDS Cond

CONSTANTS Message,
          Unbounded,    \* the bound of a CHAN
          MaxSizes,     \* the channels a program makes
          QueueSize,    \* CHAN-QUEUE-DEFAULT-SIZE, 8 in the code
          SendCount,    \* 2 in the code
          RecvCount,    \* 32 in the code
          Words,        \* the words the program uses
          MaxQueued     \* bound: messages in the channel and on their way

ASSUME ChannelCondAssumption == Cond = {"recv", "send"}
ASSUME ChannelSizeAssumption ==
  /\ Unbounded \notin Nat /\ MaxSizes \subseteq (Nat \ {0}) \cup {Unbounded}
  /\ QueueSize \in Nat \ {0} /\ {0, SendCount, RecvCount} \subseteq CountLimits
  /\ MaxQueued \in Nat

Sends == {"SEND", "TRY-SEND"}
Receives == {"RECV", "TRY-RECV"}
Peeks == {"PEEK", "TRY-PEEK"}
Tries == {"TRY-SEND", "TRY-RECV", "TRY-PEEK"}

ASSUME ChannelWordsAssumption == Words \subseteq Sends \cup Receives \cup Peeks

\* Nil is neither a message, nor a flag, nor a word with its message
Jobs == [word : Sends \cup Receives \cup Peeks, x : Message \cup {Nil}]
ASSUME ChannelNilAssumption == Nil \notin Message \cup {"TRUE", "FALSE"} \cup Jobs

VARIABLES max, cells, queueSize, count, enqueueIndex, dequeueIndex, at, job, got

ring == <<cells, queueSize, count, enqueueIndex, dequeueIndex>>
callVars == <<at, job, got>>
chanVars == <<vars, condVars, max, ring, callVars>>

Fresh(size_) == [i \in 0..(size_ - 1) |-> Junk]

ChanInit ==
  /\ Init /\ CondInit
  /\ max \in MaxSizes
  /\ queueSize = IF max # Unbounded /\ max < QueueSize THEN max ELSE QueueSize
  /\ cells = Fresh(queueSize)
  /\ count = 0 /\ enqueueIndex = 0 /\ dequeueIndex = 0
  /\ at = [t \in Task |-> "out"] /\ got = [t \in Task |-> Nil]
  /\ job = [t \in Task |-> [word |-> "RECV", x |-> Nil]]

-----------------------------------------------------------------------------
ChanGoto(t, point) == at' = [at EXCEPT ![t] = point]

Bounded == max # Unbounded
Full == Bounded /\ count >= max
Empty == count = 0

UnderWay == {t \in Task : at[t] = "lock" /\ job[t].word \in Sends}

\* a channel word begins with LOCK
Call(t) ==
  /\ at[t] = "out" /\ CallLock(t) /\ ChanGoto(t, "lock")
  /\ \E word \in Words, x \in Message \cup {Nil} :
       /\ word \in Sends <=> x # Nil
       /\ word \in Sends => count + Cardinality(UnderWay) < MaxQueued
       /\ word = "TRY-SEND" => Bounded
       /\ job' = [job EXCEPT ![t] = [word |-> word, x |-> x]]
  /\ got' = [got EXCEPT ![t] = Nil]
  /\ UNCHANGED <<condVars, max, ring>>

\* LOCK has returned, for the first time or in WAIT-COND
HasIt(t) == at[t] = "lock" /\ waitAt[t] \in {"no", "lock"} /\ At(t, "idle")

\* BEGIN ... WHILE ... WAIT-COND REPEAT
WaitFor(t) ==
  /\ HasIt(t)
  /\ \/ job[t].word = "SEND" /\ Full /\ QueueOnCond(t, "send")
     \/ job[t].word \in {"RECV", "PEEK"} /\ Empty /\ QueueOnCond(t, "recv")
  /\ UNCHANGED <<max, ring, callVars>>

\* the word's work is done: SIGNAL-COND comes next, or the unlocking word
Finish(t, value, next) ==
  /\ got' = [got EXCEPT ![t] = value] /\ ChanGoto(t, next)
  /\ WaitGoto(t, "no") /\ waitOn' = [waitOn EXCEPT ![t] = Nil]
  /\ UNCHANGED <<vars, condWaiting, condSize, max, job>>

\* mutant: the ring is doubled whatever the bound
Grown_Unbounded == 2 * queueSize

\* the size EXPAND-CHAN and EXPAND-BCHAN grow the ring to
Grown == IF Bounded /\ max < 2 * queueSize THEN max ELSE 2 * queueSize

\* mutant: the ring is copied from its first cell on
Unrolled_Flat(n) == [i \in 0..(n - 1) |-> IF i < count THEN cells[i] ELSE Junk]

\* EXPAND-CHAN: the messages, from the oldest on, in a ring of n cells
Unrolled(n) ==
  [i \in 0..(n - 1) |-> IF i < count THEN cells[(dequeueIndex + i) % queueSize]
                        ELSE Junk]

\* ENQUEUE-CHAN, EXPAND-CHAN included
Enqueue(x) ==
  /\ IF count >= queueSize
     THEN /\ queueSize' = Grown /\ dequeueIndex' = 0
          /\ cells' = [Unrolled(Grown) EXCEPT ![count] = x]
          /\ enqueueIndex' = (count + 1) % Grown
     ELSE /\ cells' = [cells EXCEPT ![enqueueIndex] = x]
          /\ enqueueIndex' = (enqueueIndex + 1) % queueSize
          /\ UNCHANGED <<queueSize, dequeueIndex>>
  /\ count' = count + 1

Put(t) ==
  /\ HasIt(t) /\ job[t].word \in Sends /\ ~ Full
  /\ Enqueue(job[t].x) /\ Finish(t, "TRUE", "signal")

\* DEQUEUE-CHAN
Take(t) ==
  /\ HasIt(t) /\ job[t].word \in Receives /\ ~ Empty
  /\ count' = count - 1 /\ dequeueIndex' = (dequeueIndex + 1) % queueSize
  /\ UNCHANGED <<cells, queueSize, enqueueIndex>>
  /\ Finish(t, cells[dequeueIndex], IF Bounded THEN "signal" ELSE "unlock")

\* PEEK-CHAN reads the first cell of the ring
Look(t) ==
  /\ HasIt(t) /\ job[t].word \in Peeks /\ ~ Empty
  /\ Finish(t, cells[0], "unlock") /\ UNCHANGED ring

\* a TRY- word with nothing to do
GiveUp(t) ==
  /\ HasIt(t) /\ job[t].word \in Tries
  /\ IF job[t].word \in Sends THEN Full ELSE Empty
  /\ Finish(t, "FALSE", "unlock") /\ UNCHANGED ring

SignalOther(t) ==
  /\ at[t] = "signal" /\ At(t, "idle") /\ ChanGoto(t, "unlock")
  /\ Signal(IF job[t].word \in Sends THEN "recv" ELSE "send")
  /\ UNCHANGED <<pc, call, inside, lock, waitAt, waitOn, max, ring, job, got>>

\* the unlocking word a channel word ends with
Unlocking(t) ==
  LET w == job[t].word
      failed == got[t] = "FALSE"
  IN  IF Bounded
      THEN IF \/ w \in Sends
              \/ w = "TRY-PEEK" /\ failed
              \/ ~ Empty
           THEN [word |-> "UNLOCK-NO-RELOCK", count |-> 0]
           ELSE [word |-> "UNLOCK", count |-> 0]
      ELSE IF (IF w \in Sends THEN count >= queueSize ELSE Empty)
           THEN [word |-> "UNLOCK", count |-> 0]
           ELSE [word |-> "UNLOCK-COUNT-RELOCK",
                 count |-> IF w \in Sends THEN SendCount ELSE RecvCount]

Unlock(t) ==
  /\ at[t] = "unlock" /\ CallUnlock(t) /\ call'[t] = Unlocking(t)
  /\ ChanGoto(t, "leave")
  /\ UNCHANGED <<condVars, max, ring, job, got>>

Return(t) ==
  /\ at[t] = "leave" /\ At(t, "idle") /\ ChanGoto(t, "out")
  /\ UNCHANGED <<vars, condVars, max, ring, job, got>>

\* a step of LOCK or of an unlocking word
LockStep(t) == Execute(t) /\ UNCHANGED <<condVars, max, ring, callVars>>

CondStep(t) ==
  (ParkOnCond(t) \/ RelockAfterWait(t)) /\ UNCHANGED <<max, ring, callVars>>

Step(t) ==
  \/ WaitFor(t) \/ Put(t) \/ Take(t) \/ Look(t) \/ GiveUp(t)
  \/ SignalOther(t) \/ Unlock(t) \/ Return(t) \/ LockStep(t) \/ CondStep(t)

ChanNext == \E t \in Task : Call(t) \/ Step(t)

ChanSpec == ChanInit /\ [][ChanNext]_chanVars

-----------------------------------------------------------------------------
Answers == Message \cup {Nil, Junk, "TRUE", "FALSE"}

\* Every variable has its type; the indices stay in the ring and apart by the
\* count, and a bounded ring never grows beyond its bound (bchan.fs:91).
ChanTypeOK ==
  /\ TypeOK
  /\ condWaiting \in [Cond -> Seq(Task \cup {Junk})]
  /\ condSize \in [Cond -> Nat \ {0}]
  /\ waitAt \in [Task -> {"no", "unlock", "park", "lock"}]
  /\ waitOn \in [Task -> Cond \cup {Nil}]
  /\ queueSize \in Nat \ {0} /\ (Bounded => queueSize <= max)
  /\ cells \in [0..(queueSize - 1) -> Message \cup {Junk}]
  /\ count \in 0..queueSize
  /\ {enqueueIndex, dequeueIndex} \subseteq 0..(queueSize - 1)
  /\ (dequeueIndex + count) % queueSize = enqueueIndex
  /\ at \in [Task -> {"out", "lock", "signal", "unlock", "leave"}]
  /\ got \in [Task -> Answers]

\* the messages in the ring, the oldest first
Messages == [i \in 1..count |-> cells[(dequeueIndex + i - 1) % queueSize]]

\* The channel as its users see it: no message is lost, doubled, made up or
\* overtaken, a bound is kept, and a word gives up only when there is nothing to
\* do, over every growth of the ring and wherever slices end.  Of a peek, which
\* reads the first cell of the ring and not the oldest message (chan.fs:131), it
\* says that it takes nothing.
Abstract == INSTANCE ChannelSpec WITH
  None <- Nil, limit <- max,
  queue <- Messages,
  busy <- [t \in Task |-> IF at[t] = "out" THEN Nil ELSE job[t]],
  answer <- got,
  Shown <- Message \cup {Junk}

ImplementsQueue == Abstract!Spec

Listed(t, c) == t \in Entries(condWaiting[c])

\* Wherever slices end, and until the list has been grown, a task that sleeps in
\* WAIT-COND is in the list of its condition unless a signal reached it between
\* its queueing and its WAIT: there is no other way to lose one (cond.fs:52-66).
SignalsHeard ==
  \A t \in Task \ awake :
    waitAt[t] = "park" /\ condSize[waitOn[t]] = CondSize
      => Listed(t, waitOn[t]) \/ t \in missed

\* a word waits for what is not there
RightlyWaits(t) == \/ job[t].word = "SEND" /\ Full
                   \/ job[t].word \in {"RECV", "PEEK"} /\ Empty

\* nobody is at work: every task is in no channel word, or sleeps in one
Quiet == \A t \in Task : at[t] = "out" \/ t \notin awake

\* no wake-up has come too early, and no list has been grown
NothingLost ==
  missed = {} /\ size = WaitingSize /\ \A c \in Cond : condSize[c] = CondSize

\* doc/chan.md, doc/bchan.md: a receiver waits for a message to become available
\* and a sender for room.  When nobody is at work and no wake-up was lost, who is
\* still in a channel word waits for what is not there.
CallsServed ==
  Quiet /\ NothingLost => \A t \in Task : at[t] # "out" => RightlyWaits(t)

\* The same where the lock has been left free, as the words that hand it on or
\* find nobody waiting do (builtin.c:519, 541): one signal for each message and
\* for each place is enough, although a message may be taken before the receiver
\* that was signalled for it has the lock (chan.fs:104-124, bchan.fs).
NoneStranded == primary = Nil => CallsServed

=============================================================================
