---------------------------- MODULE ChannelProofs -----------------------------
(***************************************************************************)
(* Theorems about Channel, for every set of tasks and messages, every      *)
(* bound and size of the ring, wherever slices end: the contents of the    *)
(* ring, then the lock and the condition variables under it.               *)
(***************************************************************************)
EXTENDS Channel, LockProofs, SequenceTheorems

-----------------------------------------------------------------------------
(* Indices of a ring.                                                      *)

LEMMA ModOf ==
  ASSUME NEW n \in Nat \ {0}, NEW a \in Nat, a < 2 * n
  PROVE  a % n = IF a < n THEN a ELSE a - n
  BY SMT

LEMMA IndexInRing ==
  ASSUME NEW n \in Nat \ {0}, NEW d \in 0..(n - 1), NEW i \in 0..n
  PROVE  /\ (d + i) % n = IF d + i < n THEN d + i ELSE d + i - n
         /\ (d + i) % n \in 0..(n - 1)
<1>1. PICK a \in Nat : a = d + i
  OBVIOUS
<1>2. (d + i) % n = IF d + i < n THEN d + i ELSE d + i - n
  <2>1. a < 2 * n
    BY <1>1
  <2>2. a % n = IF a < n THEN a ELSE a - n
    BY <2>1, ModOf
  <2> QED BY <1>1, <2>2
<1>3. CASE d + i < n
  <2>1. (d + i) % n = d + i /\ d + i \in 0..(n - 1)
    BY <1>2, <1>3
  <2> QED BY <1>2, <2>1
<1>4. CASE ~ (d + i < n)
  <2>1. d + i - n \in 0..(n - 1)
    BY <1>4
  <2>2. (d + i) % n = d + i - n
    BY <1>2, <1>4
  <2> QED BY <1>2, <2>1, <2>2
<1> QED BY <1>3, <1>4

\* The index one further on from the d-th is that of the next.
LEMMA NextInRing ==
  ASSUME NEW n \in Nat \ {0}, NEW d \in 0..(n - 1), NEW i \in 0..(n - 1)
  PROVE  /\ (((d + i) % n) + 1) % n = (d + (i + 1)) % n
         /\ (((d + 1) % n) + i) % n = (d + (i + 1)) % n
<1>1. /\ 1 \in 0..n /\ i \in 0..n /\ i + 1 \in 0..n
  OBVIOUS
<1>2. (d + (i + 1)) % n = IF d + (i + 1) < n THEN d + (i + 1) ELSE d + (i + 1) - n
  BY <1>1, IndexInRing
<1>3. PICK e \in 0..(n - 1) : e = (d + i) % n /\ e = IF d + i < n THEN d + i ELSE d + i - n
  BY <1>1, IndexInRing
<1>4. (e + 1) % n = IF e + 1 < n THEN e + 1 ELSE e + 1 - n
  BY <1>1, IndexInRing
<1>5. PICK f \in 0..(n - 1) : f = (d + 1) % n /\ f = IF d + 1 < n THEN d + 1 ELSE d + 1 - n
  BY <1>1, IndexInRing
<1>6. (f + i) % n = IF f + i < n THEN f + i ELSE f + i - n
  BY <1>1, IndexInRing
<1>7. (e + 1) % n = (d + (i + 1)) % n
  <2>1. (IF e + 1 < n THEN e + 1 ELSE e + 1 - n)
          = IF d + (i + 1) < n THEN d + (i + 1) ELSE d + (i + 1) - n
    <3>1. e = IF d + i < n THEN d + i ELSE d + i - n
      BY <1>3
    <3> HIDE <1>3
    <3> QED BY <3>1
  <2> QED BY <1>2, <1>4, <2>1
<1>8. (f + i) % n = (d + (i + 1)) % n
  <2>1. (IF f + i < n THEN f + i ELSE f + i - n)
          = IF d + (i + 1) < n THEN d + (i + 1) ELSE d + (i + 1) - n
    BY <1>5
  <2> QED BY <1>2, <1>6, <2>1
<1> QED BY <1>3, <1>5, <1>7, <1>8

\* Fewer than a ring's length on from d, every index is another.
LEMMA ApartInRing ==
  ASSUME NEW n \in Nat \ {0}, NEW d \in 0..(n - 1),
         NEW i \in 0..(n - 1), NEW j \in 0..(n - 1), i # j
  PROVE  (d + i) % n # (d + j) % n
<1>1. /\ (d + i) % n = IF d + i < n THEN d + i ELSE d + i - n
      /\ (d + j) % n = IF d + j < n THEN d + j ELSE d + j - n
  <2>1. i \in 0..n /\ j \in 0..n
    OBVIOUS
  <2> QED BY <2>1, IndexInRing
<1>2. (IF d + i < n THEN d + i ELSE d + i - n) # IF d + j < n THEN d + j ELSE d + j - n
  OBVIOUS
<1> QED BY <1>1, <1>2

-----------------------------------------------------------------------------
(* Types.                                                                  *)

CondType ==
  /\ condWaiting \in [Cond -> Seq(Task \cup {Junk})]
  /\ condSize \in [Cond -> Nat \ {0}]
  /\ waitAt \in [Task -> {"no", "unlock", "park", "lock"}]
  /\ waitOn \in [Task -> Cond \cup {Nil}]

RingInv ==
  /\ max \in MaxSizes /\ queueSize \in Nat \ {0} /\ (Bounded => queueSize <= max)
  /\ cells \in [0..(queueSize - 1) -> Message \cup {Junk}]
  /\ count \in 0..queueSize
  /\ enqueueIndex \in 0..(queueSize - 1) /\ dequeueIndex \in 0..(queueSize - 1)
  /\ (dequeueIndex + count) % queueSize = enqueueIndex

\* A task in a channel word has no result until the work on the ring is done, and
\* has one from then on.
CallInv ==
  /\ at \in [Task -> {"out", "lock", "signal", "unlock", "leave"}]
  /\ job \in [Task -> Jobs] /\ got \in [Task -> Answers]
  /\ \A t \in Task :
       /\ job[t].word \in Sends => job[t].x \in Message
       /\ at[t] = "lock" => got[t] = Nil
       /\ at[t] \in {"signal", "unlock", "leave"} => got[t] # Nil
       /\ at[t] # "out" => job[t].word \in Words

ChanIInv == TypeOK /\ CondType /\ RingInv /\ CallInv

LEMMA ChanTypeInit == ChanInit => ChanIInv
<1> SUFFICES ASSUME ChanInit PROVE ChanIInv
  OBVIOUS
<1>1. TypeOK
  BY TypeInit DEF ChanInit
<1>2. CondType
  BY CondSizeAssumption DEF ChanInit, CondInit, CondType
<1>3. RingInv
  <2>1. queueSize \in Nat \ {0} /\ (Bounded => queueSize <= max) /\ max \in MaxSizes
    BY ChannelSizeAssumption DEF ChanInit, Bounded
  <2>2. cells \in [0..(queueSize - 1) -> Message \cup {Junk}]
    BY DEF ChanInit, Fresh
  <2>3. (dequeueIndex + count) % queueSize = enqueueIndex
    <3>1. 0 % queueSize = 0
      BY <2>1, ModOf
    <3>2. dequeueIndex + count = 0 /\ enqueueIndex = 0
      BY DEF ChanInit
    <3> QED BY <3>1, <3>2
  <2>4. count = 0 /\ enqueueIndex = 0 /\ dequeueIndex = 0
    BY DEF ChanInit
  <2>5. 0 \in 0..queueSize /\ 0 \in 0..(queueSize - 1)
    BY <2>1
  <2> QED BY <2>1, <2>2, <2>3, <2>4, <2>5 DEF RingInv
<1>4. CallInv
  BY DEF ChanInit, CallInv, Jobs, Answers, Receives, Sends
<1> QED BY <1>1, <1>2, <1>3, <1>4 DEF ChanIInv

LEMMA LockTypeKept ==
  ASSUME ChanIInv, NEW t \in Task, Call(t) \/ Step(t)
  PROVE  TypeOK'
<1> USE DEF ChanIInv
<1>1. ASSUME UNCHANGED vars PROVE TypeOK'
  BY <1>1 DEF TypeOK, vars, lock
<1>2. CASE Call(t)
  BY <1>2, TypeStep DEF Call
<1>3. CASE WaitFor(t)
  BY <1>3, TypeStep DEF WaitFor, QueueOnCond
<1>4. CASE Put(t) \/ Take(t) \/ Look(t) \/ GiveUp(t) \/ Return(t)
  BY <1>1, <1>4 DEF Put, Take, Look, GiveUp, Return, Finish
<1>5. CASE SignalOther(t)
  BY <1>5 DEF SignalOther, Signal, WakeUp, TypeOK, lock
<1>6. CASE Unlock(t)
  BY <1>6, TypeStep DEF Unlock
<1>7. CASE LockStep(t)
  BY <1>7, TypeStep DEF LockStep
<1>8. CASE CondStep(t)
  <2>1. CASE ParkOnCond(t)
    BY <2>1 DEF ParkOnCond, TypeOK, lock
  <2>2. CASE RelockAfterWait(t)
    BY <2>2, TypeStep DEF RelockAfterWait
  <2> QED BY <1>8, <2>1, <2>2 DEF CondStep
<1> QED BY <1>2, <1>3, <1>4, <1>5, <1>6, <1>7, <1>8 DEF Step

LEMMA SignalType ==
  ASSUME CondType, NEW c \in Cond, Signal(c)
  PROVE  /\ condWaiting' \in [Cond -> Seq(Task \cup {Junk})]
         /\ condSize' \in [Cond -> Nat \ {0}]
<1>1. condWaiting[c] \in Seq(Task \cup {Junk})
  BY DEF CondType
<1>2. CASE condWaiting[c] = <<>>
  BY <1>2 DEF Signal, CondType
<1>3. CASE condWaiting[c] # <<>>
  <2>1. Tail(condWaiting[c]) \in Seq(Task \cup {Junk})
    BY <1>1, <1>3, TailType
  <2> QED BY <1>3, <2>1 DEF Signal, CondType
<1> QED BY <1>2, <1>3

LEMMA QueueOnCondType ==
  ASSUME CondType, NEW t \in Task, NEW c \in Cond, QueueOnCond(t, c)
  PROVE  /\ condWaiting' \in [Cond -> Seq(Task \cup {Junk})]
         /\ condSize' \in [Cond -> Nat \ {0}]
<1>1. condWaiting[c] \in Seq(Task \cup {Junk}) /\ t \in Task \cup {Junk}
  BY DEF CondType
<1>2. Expanded(condWaiting[c]) \in Seq(Task \cup {Junk})
  BY <1>1, ExpandedType
<1>3. /\ Append(condWaiting[c], t) \in Seq(Task \cup {Junk})
      /\ Append(Expanded(condWaiting[c]), t) \in Seq(Task \cup {Junk})
  BY <1>1, <1>2, AppendType
<1>4. condWaiting'[c] \in Seq(Task \cup {Junk})
      /\ condWaiting' = [condWaiting EXCEPT ![c] = condWaiting'[c]]
  BY <1>3 DEF QueueOnCond, CondType
<1>5. condSize' \in [Cond -> Nat \ {0}]
  <2>1. condSize[c] \in Nat \ {0} /\ 2 * condSize[c] \in Nat \ {0}
    BY DEF CondType
  <2> QED BY <2>1 DEF QueueOnCond, CondType
<1> QED BY <1>4, <1>5 DEF CondType

LEMMA CondTypeKept ==
  ASSUME ChanIInv, NEW t \in Task, Call(t) \/ Step(t)
  PROVE  CondType'
<1> USE ChannelCondAssumption DEF ChanIInv
<1>1. CASE Call(t) \/ Unlock(t) \/ Return(t) \/ LockStep(t)
  BY <1>1 DEF Call, Unlock, Return, LockStep, condVars, CondType
<1>2. CASE WaitFor(t)
  <2>1. PICK c \in Cond : QueueOnCond(t, c)
    BY <1>2 DEF WaitFor
  <2>2. waitAt' = [waitAt EXCEPT ![t] = "unlock"] /\ waitOn' = [waitOn EXCEPT ![t] = c]
    BY <2>1 DEF QueueOnCond, WaitGoto
  <2> QED BY <2>1, <2>2, QueueOnCondType DEF CondType
<1>3. CASE Put(t) \/ Take(t) \/ Look(t) \/ GiveUp(t)
  BY <1>3 DEF Put, Take, Look, GiveUp, Finish, WaitGoto, CondType
<1>4. CASE SignalOther(t)
  <2>1. (\E c \in Cond : Signal(c)) /\ UNCHANGED <<waitAt, waitOn>>
    BY <1>4 DEF SignalOther
  <2> QED BY <2>1, SignalType DEF CondType
<1>5. CASE CondStep(t)
  BY <1>5 DEF CondStep, ParkOnCond, RelockAfterWait, WaitGoto, CondType
<1> QED BY <1>1, <1>2, <1>3, <1>4, <1>5 DEF Step

-----------------------------------------------------------------------------
(* The ring.                                                               *)

\* What the ring is grown to has room for one message more.
LEMMA GrownRoom ==
  ASSUME RingInv, ~ Full, count >= queueSize
  PROVE  /\ Grown \in Nat \ {0} /\ count = queueSize /\ count < Grown
         /\ Bounded => Grown <= max
<1>1. count = queueSize /\ queueSize \in Nat \ {0}
  BY DEF RingInv
<1>2. CASE Bounded
  <2>1. max \in Nat \ {0} /\ count < max
    BY <1>1, <1>2, ChannelSizeAssumption DEF RingInv, Bounded, Full
  <2> QED BY <1>1, <1>2, <2>1 DEF Grown
<1>3. CASE ~ Bounded
  BY <1>1, <1>3 DEF Grown
<1> QED BY <1>2, <1>3

LEMMA UnrolledType ==
  ASSUME RingInv, NEW n \in Nat \ {0}
  PROVE  Unrolled(n) \in [0..(n - 1) -> Message \cup {Junk}]
<1> SUFFICES ASSUME NEW i \in 0..(n - 1), i < count
             PROVE  cells[(dequeueIndex + i) % queueSize] \in Message \cup {Junk}
  BY DEF Unrolled
<1>1. (dequeueIndex + i) % queueSize \in 0..(queueSize - 1)
  <2>1. dequeueIndex + i \in Nat /\ dequeueIndex + i < 2 * queueSize
    BY DEF RingInv
  <2>2. queueSize \in Nat \ {0}
    BY DEF RingInv
  <2> QED BY <2>1, <2>2, ModOf
<1> QED BY <1>1 DEF RingInv

LEMMA EnqueueRing ==
  ASSUME RingInv, ~ Full, NEW x \in Message, Enqueue(x), max' = max
  PROVE  RingInv'
<1>1. count' = count + 1 /\ max' \in MaxSizes /\ Bounded' = Bounded
  BY DEF RingInv, Enqueue, Bounded
<1>2. CASE count >= queueSize
  <2>1. /\ Grown \in Nat \ {0} /\ count = queueSize /\ count < Grown
        /\ Bounded => Grown <= max
    BY <1>2, GrownRoom
  <2>2. /\ queueSize' = Grown /\ dequeueIndex' = 0
        /\ cells' = [Unrolled(Grown) EXCEPT ![count] = x]
        /\ enqueueIndex' = (count + 1) % Grown
    BY <1>2 DEF Enqueue
  <2>3. cells' \in [0..(queueSize' - 1) -> Message \cup {Junk}]
    BY <2>1, <2>2, UnrolledType
  <2>4. /\ (0 + (count + 1)) % Grown \in 0..(Grown - 1) /\ 0 + (count + 1) = count + 1
        /\ count + 1 \in 0..Grown
    <3>1. 0 \in 0..(Grown - 1) /\ count + 1 \in 0..Grown /\ 0 + (count + 1) = count + 1
      BY <2>1, <1>2 DEF RingInv
    <3> QED BY <2>1, <3>1, IndexInRing
  <2>5. 0 \in 0..(Grown - 1)
    BY <2>1
  <2> QED BY <1>1, <2>1, <2>2, <2>3, <2>4, <2>5 DEF RingInv
<1>3. CASE ~ (count >= queueSize)
  <2>1. /\ queueSize' = queueSize /\ dequeueIndex' = dequeueIndex
        /\ cells' = [cells EXCEPT ![enqueueIndex] = x]
        /\ enqueueIndex' = (enqueueIndex + 1) % queueSize
    BY <1>3 DEF Enqueue
  <2>2. /\ queueSize \in Nat \ {0} /\ dequeueIndex \in 0..(queueSize - 1)
        /\ enqueueIndex \in 0..(queueSize - 1) /\ count \in 0..(queueSize - 1)
        /\ enqueueIndex = (dequeueIndex + count) % queueSize
    BY <1>3 DEF RingInv
  <2>3. enqueueIndex' = (dequeueIndex' + count') % queueSize'
    BY <1>1, <2>1, <2>2, NextInRing
  <2>4. enqueueIndex' \in 0..(queueSize - 1) /\ count' \in 0..queueSize
    <3>1. 1 \in 0..queueSize /\ count + 1 \in 0..queueSize
      BY <2>2
    <3> QED BY <1>1, <2>1, <2>2, <3>1, IndexInRing
  <2>5. cells' \in [0..(queueSize - 1) -> Message \cup {Junk}]
    BY <2>1 DEF RingInv
  <2> QED BY <1>1, <2>1, <2>2, <2>3, <2>4, <2>5 DEF RingInv
<1> QED BY <1>2, <1>3

LEMMA TakeRing ==
  ASSUME RingInv, NEW t \in Task, Take(t)
  PROVE  RingInv'
<1>1. /\ count # 0 /\ count' = count - 1 /\ Bounded' = Bounded
      /\ dequeueIndex' = (dequeueIndex + 1) % queueSize
      /\ UNCHANGED <<cells, queueSize, enqueueIndex, max>>
  BY DEF Take, Empty, Finish, Bounded
<1>2. /\ queueSize \in Nat \ {0} /\ dequeueIndex \in 0..(queueSize - 1)
      /\ enqueueIndex = (dequeueIndex + count) % queueSize
      /\ count - 1 \in 0..(queueSize - 1) /\ (count - 1) + 1 = count
      /\ count - 1 \in 0..queueSize /\ 1 \in 0..queueSize
  BY <1>1 DEF RingInv
<1>3. (dequeueIndex' + count') % queueSize' = enqueueIndex'
  BY <1>1, <1>2, NextInRing
<1>4. dequeueIndex' \in 0..(queueSize' - 1)
  BY <1>1, <1>2, IndexInRing
<1> QED BY <1>1, <1>2, <1>3, <1>4 DEF RingInv

\* Only putting and taking touch the ring.
LEMMA RingSteps ==
  ASSUME NEW t \in Task, Call(t) \/ Step(t)
  PROVE  max' = max /\ (UNCHANGED ring \/ Put(t) \/ Take(t))
<1>1. CASE Call(t) \/ WaitFor(t) \/ SignalOther(t) \/ Unlock(t) \/ Return(t)
           \/ LockStep(t) \/ CondStep(t)
  BY <1>1 DEF Call, WaitFor, SignalOther, Unlock, Return, LockStep, CondStep
<1>2. CASE Put(t) \/ Take(t) \/ Look(t) \/ GiveUp(t)
  BY <1>2 DEF Put, Take, Look, GiveUp, Finish
<1> QED BY <1>1, <1>2 DEF Step

LEMMA RingKept ==
  ASSUME ChanIInv, NEW t \in Task, Call(t) \/ Step(t)
  PROVE  RingInv'
<1> USE DEF ChanIInv
<1>1. CASE UNCHANGED ring
  BY <1>1, RingSteps DEF ring, RingInv, Bounded
<1>2. CASE Put(t)
  <2>1. job[t].x \in Message /\ Enqueue(job[t].x) /\ ~ Full
    BY <1>2 DEF Put, CallInv
  <2>2. max' = max
    BY RingSteps
  <2> QED BY <2>1, <2>2, EnqueueRing
<1>3. CASE Take(t)
  BY <1>3, TakeRing
<1> QED BY <1>1, <1>2, <1>3, RingSteps

-----------------------------------------------------------------------------
(* The calls.                                                              *)

\* Where the first and the oldest message lie.
LEMMA CellsRead ==
  ASSUME RingInv
  PROVE  /\ cells[0] \in Message \cup {Junk}
         /\ cells[dequeueIndex] \in Message \cup {Junk}
<1>1. 0 \in 0..(queueSize - 1)
  BY DEF RingInv
<1> QED BY <1>1 DEF RingInv

LEMMA FinishKeeps ==
  ASSUME CallInv, NEW t \in Task, NEW value \in Answers \ {Nil},
         NEW next \in {"signal", "unlock"}, Finish(t, value, next), HasIt(t)
  PROVE  CallInv'
<1>1. /\ got' = [got EXCEPT ![t] = value] /\ at' = [at EXCEPT ![t] = next] /\ job' = job
      /\ at[t] = "lock"
  BY DEF Finish, ChanGoto, HasIt
<1> QED BY <1>1 DEF CallInv, Answers

LEMMA CallKept ==
  ASSUME ChanIInv, NEW t \in Task, Call(t) \/ Step(t)
  PROVE  CallInv'
<1> USE DEF ChanIInv
<1>1. CASE Call(t)
  <2>1. PICK word \in Words, x \in Message \cup {Nil} :
          /\ word \in Sends <=> x # Nil
          /\ job' = [job EXCEPT ![t] = [word |-> word, x |-> x]]
    BY <1>1 DEF Call
  <2>2. [word |-> word, x |-> x] \in Jobs
    BY ChannelWordsAssumption DEF Jobs
  <2>3. at' = [at EXCEPT ![t] = "lock"] /\ got' = [got EXCEPT ![t] = Nil]
    BY <1>1 DEF Call, ChanGoto
  <2> QED BY <2>1, <2>2, <2>3 DEF CallInv, Answers
<1>2. CASE WaitFor(t) \/ LockStep(t) \/ CondStep(t)
  BY <1>2 DEF WaitFor, LockStep, CondStep, callVars, CallInv
<1>3. CASE Put(t) \/ GiveUp(t)
  <2>1. /\ "TRUE" \in Answers \ {Nil} /\ "FALSE" \in Answers \ {Nil}
    BY ChannelNilAssumption DEF Answers
  <2> QED BY <1>3, <2>1, FinishKeeps DEF Put, GiveUp
<1>4. CASE Take(t) \/ Look(t)
  <2>1. cells[0] \in Answers \ {Nil} /\ cells[dequeueIndex] \in Answers \ {Nil}
    BY CellsRead, ChannelNilAssumption, LockTaskAssumption DEF Answers
  <2> QED BY <1>4, <2>1, FinishKeeps DEF Take, Look
<1>5. CASE SignalOther(t) \/ Unlock(t) \/ Return(t)
  BY <1>5 DEF SignalOther, Unlock, Return, ChanGoto, CallInv
<1> QED BY <1>1, <1>2, <1>3, <1>4, <1>5 DEF Step

(* The strengthening is an invariant, whatever the constants.              *)
THEOREM ChanInductive == ChanSpec => []ChanIInv
<1>1. ChanInit => ChanIInv
  BY ChanTypeInit
<1>2. ChanIInv /\ [ChanNext]_chanVars => ChanIInv'
  <2>1. CASE UNCHANGED chanVars
    BY <2>1 DEF chanVars, vars, lock, condVars, ring, callVars, ChanIInv, TypeOK,
                CondType, RingInv, CallInv, Bounded
  <2>2. ASSUME ChanIInv, NEW t \in Task, Call(t) \/ Step(t)
        PROVE  ChanIInv'
    <3>1. TypeOK' /\ CondType' /\ RingInv' /\ CallInv'
      BY <2>2, LockTypeKept, CondTypeKept, RingKept, CallKept
    <3> QED BY <3>1 DEF ChanIInv
  <2> QED BY <2>1, <2>2 DEF ChanNext
<1> QED BY <1>1, <1>2, PTL DEF ChanSpec

(* Every variable keeps its type, the ring its shape and a bounded ring    *)
(* its bound.                                                              *)
THEOREM ChanTypeCorrect == ChanSpec => []ChanTypeOK
<1>1. ChanIInv => ChanTypeOK
  BY DEF ChanIInv, CondType, RingInv, CallInv, ChanTypeOK
<1> QED BY <1>1, ChanInductive, PTL

-----------------------------------------------------------------------------
(* The messages in the ring, as a sequence.                                *)

\* c messages from cell d on of a ring of n cells
RingSeq(a, d, c, n) == [i \in 1..c |-> a[(d + i - 1) % n]]

LEMMA RingSeqIs ==
  ASSUME NEW n \in Nat \ {0}, NEW a \in [0..(n - 1) -> Message \cup {Junk}],
         NEW d \in 0..(n - 1), NEW c \in 0..n
  PROVE  /\ RingSeq(a, d, c, n) \in Seq(Message \cup {Junk}) /\ Len(RingSeq(a, d, c, n)) = c
         /\ \A i \in 0..(c - 1) : RingSeq(a, d, c, n)[i + 1] = a[(d + i) % n]
<1>1. ASSUME NEW i \in 1..c
      PROVE  a[(d + i - 1) % n] \in Message \cup {Junk} /\ d + i - 1 = d + (i - 1)
  <2>1. i - 1 \in 0..n /\ d + i - 1 = d + (i - 1)
    OBVIOUS
  <2>2. (d + (i - 1)) % n \in 0..(n - 1)
    BY <2>1, IndexInRing
  <2> QED BY <2>1, <2>2
<1>2. RingSeq(a, d, c, n) \in [1..c -> Message \cup {Junk}] /\ c \in Nat
  BY <1>1 DEF RingSeq
<1>3. RingSeq(a, d, c, n) \in Seq(Message \cup {Junk}) /\ Len(RingSeq(a, d, c, n)) = c
  BY <1>2
<1>4. ASSUME NEW i \in 0..(c - 1)
      PROVE  RingSeq(a, d, c, n)[i + 1] = a[(d + i) % n]
  <2>1. i + 1 \in 1..c /\ d + (i + 1) - 1 = d + i
    OBVIOUS
  <2> QED BY <2>1 DEF RingSeq
<1> QED BY <1>3, <1>4

LEMMA MessagesAre ==
  ASSUME RingInv
  PROVE  /\ Messages \in Seq(Message \cup {Junk}) /\ Len(Messages) = count
         /\ \A i \in 0..(count - 1) :
              Messages[i + 1] = cells[(dequeueIndex + i) % queueSize]
<1>1. Messages = RingSeq(cells, dequeueIndex, count, queueSize)
  BY DEF Messages, RingSeq
<1>2. /\ queueSize \in Nat \ {0} /\ cells \in [0..(queueSize - 1) -> Message \cup {Junk}]
      /\ dequeueIndex \in 0..(queueSize - 1) /\ count \in 0..queueSize
  BY DEF RingInv
<1>3. LET q == RingSeq(cells, dequeueIndex, count, queueSize)
      IN  /\ q \in Seq(Message \cup {Junk}) /\ Len(q) = count
          /\ \A i \in 0..(count - 1) :
               q[i + 1] = cells[(dequeueIndex + i) % queueSize]
  BY <1>2, RingSeqIs
<1> QED BY <1>1, <1>3

LEMMA MessagesThen ==
  ASSUME RingInv'
  PROVE  /\ Messages' \in Seq(Message \cup {Junk}) /\ Len(Messages') = count'
         /\ \A i \in 0..(count' - 1) :
              Messages'[i + 1] = cells'[(dequeueIndex' + i) % queueSize']
<1>1. Messages' = RingSeq(cells', dequeueIndex', count', queueSize')
  BY DEF Messages, RingSeq
<1>2. /\ queueSize' \in Nat \ {0} /\ cells' \in [0..(queueSize' - 1) -> Message \cup {Junk}]
      /\ dequeueIndex' \in 0..(queueSize' - 1) /\ count' \in 0..queueSize'
  BY DEF RingInv
<1>3. LET q == RingSeq(cells', dequeueIndex', count', queueSize')
      IN  /\ q \in Seq(Message \cup {Junk}) /\ Len(q) = count'
          /\ \A i \in 0..(count' - 1) :
               q[i + 1] = cells'[(dequeueIndex' + i) % queueSize']
  BY <1>2, RingSeqIs
<1> QED BY <1>1, <1>3

\* Grown or not, the ring has the messages it had, and behind them the new one.
LEMMA MessagesPut ==
  ASSUME RingInv, ~ Full, NEW x \in Message, Enqueue(x), max' = max
  PROVE  Messages' = Append(Messages, x)
<1>1. RingInv' /\ count' = count + 1
  BY EnqueueRing DEF Enqueue
<1>2. count \in Nat /\ count' = count + 1 /\ x \in Message \cup {Junk}
  BY <1>1 DEF RingInv
<1>3. ASSUME NEW i \in 0..count
      PROVE  cells'[(dequeueIndex' + i) % queueSize']
               = IF i < count THEN cells[(dequeueIndex + i) % queueSize] ELSE x
  <2>1. CASE count >= queueSize
    <3>1. Grown \in Nat \ {0} /\ count = queueSize /\ count < Grown
      BY <2>1, GrownRoom
    <3>2. /\ queueSize' = Grown /\ dequeueIndex' = 0
          /\ cells' = [Unrolled(Grown) EXCEPT ![count] = x]
      BY <2>1 DEF Enqueue
    <3>3. (0 + i) % Grown = i
      <4>1. 0 \in 0..(Grown - 1) /\ i \in 0..Grown /\ 0 + i < Grown /\ 0 + i = i
        BY <1>2, <3>1
      <4> QED BY <3>1, <4>1, IndexInRing
    <3>4. i \in 0..(Grown - 1) /\ count \in 0..(Grown - 1)
      BY <1>2, <3>1
    <3>5. cells'[i] = IF i = count THEN x ELSE Unrolled(Grown)[i]
      BY <3>2, <3>4 DEF Unrolled
    <3>6. i < count => Unrolled(Grown)[i] = cells[(dequeueIndex + i) % queueSize]
      BY <3>4 DEF Unrolled
    <3>7. i < count <=> i # count
      BY <1>2
    <3> QED BY <3>2, <3>3, <3>5, <3>6, <3>7
  <2>2. CASE ~ (count >= queueSize)
    <3>1. /\ queueSize' = queueSize /\ dequeueIndex' = dequeueIndex
          /\ cells' = [cells EXCEPT ![enqueueIndex] = x]
      BY <2>2 DEF Enqueue
    <3>2. /\ queueSize \in Nat \ {0} /\ dequeueIndex \in 0..(queueSize - 1)
          /\ count \in 0..(queueSize - 1) /\ i \in 0..(queueSize - 1) /\ i \in 0..queueSize
          /\ enqueueIndex = (dequeueIndex + count) % queueSize
          /\ enqueueIndex \in 0..(queueSize - 1)
      BY <2>2 DEF RingInv
    <3>3. i # count => (dequeueIndex + i) % queueSize # enqueueIndex
      BY <3>2, ApartInRing
    <3>4. (dequeueIndex + i) % queueSize \in 0..(queueSize - 1)
      BY <3>2, IndexInRing
    <3>5. PICK e \in 0..(queueSize - 1) : e = (dequeueIndex + i) % queueSize
      BY <3>4
    <3>6. cells'[e] = IF e = enqueueIndex THEN x ELSE cells[e]
      BY <3>1, <3>2 DEF RingInv
    <3>7. i < count <=> i # count
      BY <1>2
    <3> QED BY <3>1, <3>2, <3>3, <3>5, <3>6, <3>7
  <2> QED BY <2>1, <2>2
<1>4. /\ Messages \in Seq(Message \cup {Junk}) /\ Len(Messages) = count
      /\ Messages' \in Seq(Message \cup {Junk}) /\ Len(Messages') = count + 1
  BY <1>1, MessagesAre, MessagesThen
<1>5. /\ Append(Messages, x) \in Seq(Message \cup {Junk})
      /\ Len(Append(Messages, x)) = count + 1
      /\ \A i \in 1 .. count : Append(Messages, x)[i] = Messages[i]
      /\ Append(Messages, x)[count + 1] = x
  BY <1>2, <1>4, AppendType
<1>6. ASSUME NEW i \in 1 .. count + 1
      PROVE  Messages'[i] = Append(Messages, x)[i]
  <2>1. PICK k \in 0..count : i = k + 1
    BY <1>2
  <2>2. Messages'[k + 1] = cells'[(dequeueIndex' + k) % queueSize']
    <3>1. k \in 0..(count' - 1)
      BY <1>2
    <3> QED BY <1>1, <3>1, MessagesThen
  <2>3. k < count => Messages[k + 1] = cells[(dequeueIndex + k) % queueSize]
    <3>1. k < count => k \in 0..(count - 1)
      BY <1>2
    <3> QED BY <3>1, MessagesAre
  <2>4. /\ k < count => k + 1 \in 1 .. count
        /\ ~ (k < count) => k + 1 = count + 1
    BY <1>2
  <2> QED BY <1>3, <1>5, <2>1, <2>2, <2>3, <2>4
<1> QED BY <1>4, <1>5, <1>6, SeqEqual

LEMMA MessagesTake ==
  ASSUME RingInv, NEW t \in Task, Take(t)
  PROVE  /\ Messages # <<>> /\ Head(Messages) = cells[dequeueIndex]
         /\ Messages' = Tail(Messages)
<1>1. /\ count' = count - 1 /\ dequeueIndex' = (dequeueIndex + 1) % queueSize
      /\ UNCHANGED <<cells, queueSize>> /\ RingInv'
  BY TakeRing DEF Take
<1>2. /\ queueSize \in Nat \ {0} /\ dequeueIndex \in 0..(queueSize - 1)
      /\ count \in Nat \ {0} /\ count <= queueSize /\ 0 \in 0..(count - 1)
  BY DEF RingInv, Take, Empty
<1>3. /\ Messages \in Seq(Message \cup {Junk}) /\ Len(Messages) = count
      /\ Messages' \in Seq(Message \cup {Junk}) /\ Len(Messages') = count - 1
  BY <1>1, MessagesAre, MessagesThen
<1>4. Messages # <<>>
  BY <1>2, <1>3
<1>5. Messages[1] = cells[dequeueIndex]
  <2>1. Messages[0 + 1] = cells[(dequeueIndex + 0) % queueSize]
    BY <1>2, MessagesAre
  <2>2. (dequeueIndex + 0) % queueSize = dequeueIndex
    <3>1. 0 \in 0..queueSize /\ dequeueIndex + 0 < queueSize /\ dequeueIndex + 0 = dequeueIndex
      BY <1>2
    <3> QED BY <1>2, <3>1, IndexInRing
  <2>3. 0 + 1 = 1
    OBVIOUS
  <2> QED BY <2>1, <2>2, <2>3
<1>6. /\ Tail(Messages) \in Seq(Message \cup {Junk}) /\ Head(Messages) = Messages[1]
      /\ Len(Tail(Messages)) = count - 1
      /\ \A i \in 1 .. count - 1 : Tail(Messages)[i] = Messages[i + 1]
  BY <1>3, <1>4, TailType
<1>7. ASSUME NEW i \in 1 .. count - 1
      PROVE  Messages'[i] = Tail(Messages)[i]
  <2>1. PICK k \in 0..(count - 2) : i = k + 1
    <3>1. i - 1 \in 0..(count - 2) /\ i = (i - 1) + 1
      BY <1>2
    <3> QED BY <3>1
  <2>2. Messages'[k + 1] = cells[(dequeueIndex' + k) % queueSize]
    <3>1. k \in 0..(count' - 1)
      BY <1>1, <1>2
    <3> QED BY <1>1, <3>1, MessagesThen
  <2>3. Messages[(k + 1) + 1] = cells[(dequeueIndex + (k + 1)) % queueSize]
    <3>1. k + 1 \in 0..(count - 1)
      BY <1>2
    <3> QED BY <3>1, MessagesAre
  <2>4. (dequeueIndex' + k) % queueSize = (dequeueIndex + (k + 1)) % queueSize
    <3>1. k \in 0..(queueSize - 1)
      BY <1>2
    <3> QED BY <1>1, <1>2, <3>1, NextInRing
  <2> QED BY <1>6, <2>1, <2>2, <2>3, <2>4
<1>8. Messages' = Tail(Messages)
  BY <1>3, <1>6, <1>7, SeqEqual
<1> QED BY <1>4, <1>5, <1>6, <1>8

-----------------------------------------------------------------------------
(* A channel implements the queue its users see.                           *)

Busy == [t \in Task |-> IF at[t] = "out" THEN Nil ELSE job[t]]

\* A task that has called a word and is not through with it holds it in the
\* abstract queue.
LEMMA BusyIs ==
  ASSUME CallInv, NEW t \in Task
  PROVE  /\ Busy[t] = Nil <=> at[t] = "out"
         /\ at[t] # "out" => Busy[t] = job[t]
  BY ChannelNilAssumption DEF CallInv, Busy

LEMMA FinishIs ==
  ASSUME CallInv, NEW t \in Task, NEW value, NEW next \in {"signal", "unlock"},
         HasIt(t), Finish(t, value, next)
  PROVE  /\ Busy' = Busy /\ Busy[t] # Nil /\ Busy[t] = job[t] /\ got[t] = Nil
         /\ got' = [got EXCEPT ![t] = value] /\ max' = max
<1>1. at[t] = "lock" /\ at' = [at EXCEPT ![t] = next] /\ job' = job
  BY DEF HasIt, Finish, ChanGoto
<1>2. Busy' = Busy
  BY <1>1 DEF Busy, CallInv
<1>3. Busy[t] # Nil /\ Busy[t] = job[t] /\ got[t] = Nil
  BY <1>1, BusyIs DEF CallInv
<1> QED BY <1>2, <1>3 DEF Finish

LEMMA FullIs == ASSUME RingInv PROVE Abstract!Full <=> Full
  BY MessagesAre DEF Abstract!Full, Full, Bounded

LEMMA EmptyIs == ASSUME RingInv PROVE Messages = <<>> <=> Empty
<1>1. Messages \in Seq(Message \cup {Junk}) /\ Len(Messages) = count
  BY MessagesAre
<1> QED BY <1>1 DEF Empty

LEMMA CallImplements ==
  ASSUME ChanIInv, NEW t \in Task, Call(t)
  PROVE  Abstract!Call(t)
<1>1. PICK word \in Words, x \in Message \cup {Nil} :
        job' = [job EXCEPT ![t] = [word |-> word, x |-> x]]
  BY DEF Call
<1>2. /\ at[t] = "out" /\ at' = [at EXCEPT ![t] = "lock"]
      /\ got' = [got EXCEPT ![t] = Nil] /\ UNCHANGED <<max, ring>>
  BY DEF Call, ChanGoto
<1>3. Messages' = Messages
  BY <1>2 DEF ring, Messages
<1>4. word \in Abstract!Sends \cup Abstract!Receives \cup Abstract!Peeks
  BY ChannelWordsAssumption
     DEF Abstract!Sends, Abstract!Receives, Abstract!Peeks, Sends, Receives, Peeks
<1>5. Busy[t] = Nil /\ Busy' = [Busy EXCEPT ![t] = [word |-> word, x |-> x]]
  BY <1>1, <1>2 DEF Busy, ChanIInv, CallInv
<1> QED BY <1>2, <1>3, <1>4, <1>5 DEF Abstract!Call, Busy

LEMMA PutImplements ==
  ASSUME ChanIInv, NEW t \in Task, Put(t)
  PROVE  Abstract!Send(t)
<1> USE DEF ChanIInv
<1>1. /\ job[t].word \in Sends /\ ~ Full /\ Enqueue(job[t].x) /\ HasIt(t)
      /\ Finish(t, "TRUE", "signal")
  BY DEF Put
<1>2. job[t].x \in Message
  BY <1>1 DEF CallInv
<1>3. /\ Busy' = Busy /\ Busy[t] # Nil /\ Busy[t] = job[t] /\ got[t] = Nil
      /\ got' = [got EXCEPT ![t] = "TRUE"] /\ max' = max
  BY <1>1, FinishIs
<1>4. Messages' = Append(Messages, job[t].x)
  BY <1>1, <1>2, <1>3, MessagesPut
<1>5. ~ Abstract!Full
  BY <1>1, FullIs
<1> QED BY <1>1, <1>3, <1>4, <1>5
        DEF Abstract!Send, Abstract!Holds, Abstract!Answer, Abstract!Sends, Sends, Busy

LEMMA TakeImplements ==
  ASSUME ChanIInv, NEW t \in Task, Take(t)
  PROVE  Abstract!Receive(t)
<1> USE DEF ChanIInv
<1>1. /\ job[t].word \in Receives /\ HasIt(t)
      /\ \E next \in {"signal", "unlock"} : Finish(t, cells[dequeueIndex], next)
  BY DEF Take
<1>2. /\ Busy' = Busy /\ Busy[t] # Nil /\ Busy[t] = job[t] /\ got[t] = Nil
      /\ got' = [got EXCEPT ![t] = cells[dequeueIndex]] /\ max' = max
  BY <1>1, FinishIs
<1>3. /\ Messages # <<>> /\ Head(Messages) = cells[dequeueIndex]
      /\ Messages' = Tail(Messages)
  BY MessagesTake
<1> QED BY <1>1, <1>2, <1>3
        DEF Abstract!Receive, Abstract!Holds, Abstract!Answer, Abstract!Receives,
            Receives, Busy

LEMMA LookImplements ==
  ASSUME ChanIInv, NEW t \in Task, Look(t)
  PROVE  Abstract!Peek(t)
<1> USE DEF ChanIInv
<1>1. /\ job[t].word \in Peeks /\ HasIt(t) /\ ~ Empty
      /\ Finish(t, cells[0], "unlock") /\ UNCHANGED ring
  BY DEF Look
<1>2. /\ Busy' = Busy /\ Busy[t] # Nil /\ Busy[t] = job[t] /\ got[t] = Nil
      /\ got' = [got EXCEPT ![t] = cells[0]] /\ max' = max
  BY <1>1, FinishIs
<1>3. Messages' = Messages /\ Messages # <<>>
  BY <1>1, EmptyIs DEF ring, Messages
<1>4. cells[0] \in Message \cup {Junk}
  BY CellsRead
<1> QED BY <1>1, <1>2, <1>3, <1>4
        DEF Abstract!Peek, Abstract!Holds, Abstract!Answer, Abstract!Peeks, Peeks, Busy

LEMMA GiveUpImplements ==
  ASSUME ChanIInv, NEW t \in Task, GiveUp(t)
  PROVE  Abstract!Fail(t)
<1> USE DEF ChanIInv
<1>1. /\ job[t].word \in Tries /\ HasIt(t) /\ Finish(t, "FALSE", "unlock")
      /\ IF job[t].word \in Sends THEN Full ELSE Empty
      /\ UNCHANGED ring
  BY DEF GiveUp
<1>2. /\ Busy' = Busy /\ Busy[t] # Nil /\ Busy[t] = job[t] /\ got[t] = Nil
      /\ got' = [got EXCEPT ![t] = "FALSE"] /\ max' = max
  BY <1>1, FinishIs
<1>3. Messages' = Messages
  BY <1>1 DEF ring, Messages
<1>4. IF job[t].word \in Sends THEN Abstract!Full ELSE Messages = <<>>
  BY <1>1, FullIs, EmptyIs
<1> QED BY <1>1, <1>2, <1>3, <1>4
        DEF Abstract!Fail, Abstract!Holds, Abstract!Answer, Abstract!Tries,
            Abstract!Sends, Tries, Sends, Busy

LEMMA ReturnImplements ==
  ASSUME ChanIInv, NEW t \in Task, Return(t)
  PROVE  Abstract!Return(t)
<1> USE DEF ChanIInv
<1>1. /\ at[t] = "leave" /\ at' = [at EXCEPT ![t] = "out"]
      /\ UNCHANGED <<max, ring, job, got>>
  BY DEF Return, ChanGoto
<1>2. Busy[t] # Nil /\ got[t] # Nil
  BY <1>1, BusyIs DEF CallInv
<1>3. Busy' = [Busy EXCEPT ![t] = Nil]
  BY <1>1 DEF Busy, CallInv
<1>4. Messages' = Messages
  BY <1>1 DEF ring, Messages
<1> QED BY <1>1, <1>2, <1>3, <1>4 DEF Abstract!Return, Busy

\* The other steps are not seen.
LEMMA Unseen ==
  ASSUME ChanIInv, NEW t \in Task,
         WaitFor(t) \/ SignalOther(t) \/ Unlock(t) \/ LockStep(t) \/ CondStep(t)
  PROVE  UNCHANGED Abstract!vars
<1>1. UNCHANGED <<max, ring, job, got>>
  BY DEF WaitFor, SignalOther, Unlock, LockStep, CondStep, callVars
<1>2. Messages' = Messages
  BY <1>1 DEF ring, Messages
<1>3. \A u \in Task : at'[u] = "out" <=> at[u] = "out"
  <2>1. CASE WaitFor(t) \/ LockStep(t) \/ CondStep(t)
    BY <2>1 DEF WaitFor, LockStep, CondStep, callVars
  <2>2. CASE SignalOther(t) \/ Unlock(t)
    BY <2>2 DEF SignalOther, Unlock, ChanGoto, ChanIInv, CallInv
  <2> QED BY <2>1, <2>2
<1>4. Busy' = Busy
  BY <1>1, <1>3 DEF Busy
<1> QED BY <1>1, <1>2, <1>4 DEF Abstract!vars, Busy

(* No message is lost, doubled, made up or overtaken, a bound is kept, and *)
(* a word that gives up has found the channel full or empty, over every    *)
(* growth of the ring and wherever slices end.  A peek shows some message   *)
(* and takes none.                                                         *)
THEOREM ChannelImplementsQueue == ChanSpec => ImplementsQueue
<1>1. ChanInit => Abstract!Init
  <2> SUFFICES ASSUME ChanInit PROVE Abstract!Init
    OBVIOUS
  <2>1. Messages = <<>>
    BY ChanTypeInit, EmptyIs DEF ChanInit, ChanIInv, Empty
  <2> QED BY <2>1 DEF ChanInit, Abstract!Init
<1>2. ChanIInv /\ [ChanNext]_chanVars => [Abstract!Next]_(Abstract!vars)
  <2>1. CASE UNCHANGED chanVars
    BY <2>1 DEF chanVars, ring, callVars, Abstract!vars, Messages
  <2>2. ASSUME ChanIInv, NEW t \in Task, Call(t) \/ Step(t)
        PROVE  [Abstract!Next]_(Abstract!vars)
    <3>1. \/ Call(t) \/ Put(t) \/ Take(t) \/ Look(t) \/ GiveUp(t) \/ Return(t)
          \/ UNCHANGED Abstract!vars
      BY <2>2, Unseen DEF Step
    <3>2. \/ Abstract!Call(t) \/ Abstract!Send(t) \/ Abstract!Receive(t)
          \/ Abstract!Peek(t) \/ Abstract!Fail(t) \/ Abstract!Return(t)
          \/ UNCHANGED Abstract!vars
      BY <2>2, <3>1, CallImplements, PutImplements, TakeImplements, LookImplements,
         GiveUpImplements, ReturnImplements
    <3> QED BY <3>2 DEF Abstract!Next
  <2> QED BY <2>1, <2>2 DEF ChanNext
<1> QED BY <1>1, <1>2, ChanInductive, PTL DEF ChanSpec, ImplementsQueue, Abstract!Spec

-----------------------------------------------------------------------------
(* Who works on the ring owns the lock, and who waits can be found.        *)

(* Where a task is in a channel word, in WAIT-COND and in the lock's words. *)

InLock == {"lock", "test", "locked", "release", "park"}
InUnlock == {"unlock", "give", "leave"}

\* Outside LOCK and the unlocking words, a task that has called LOCK and is not
\* through with the ring has the lock.
Phase(t) ==
  /\ at[t] # "lock" => waitAt[t] = "no"
  /\ at[t] = "out" => pc[t] = "idle"
  /\ at[t] \in {"signal", "unlock"} => pc[t] = "idle" /\ t \in inside
  /\ at[t] = "leave" => pc[t] \in InUnlock \cup {"idle"}
  /\ at[t] = "lock" /\ waitAt[t] \in {"no", "lock"} =>
       pc[t] \in InLock \/ (pc[t] = "idle" /\ t \in inside)
  /\ waitAt[t] = "unlock" => pc[t] \in InUnlock \cup {"idle"}
  /\ waitAt[t] = "park" => pc[t] = "idle"

PhaseInv == \A t \in Task : Phase(t)

\* What the steps of one task change of the others.
LEMMA LockStepTouches ==
  ASSUME TypeOK, NEW t \in Task, CallLock(t) \/ CallUnlock(t) \/ Execute(t)
  PROVE  /\ \A u \in Task \ {t} : pc'[u] = pc[u] /\ (u \in inside' <=> u \in inside)
         /\ CallLock(t) => pc[t] = "idle" /\ pc'[t] = "lock" /\ inside' = inside
         /\ CallUnlock(t) => pc[t] = "idle" /\ pc'[t] = "unlock"
         /\ Execute(t) =>
              \/ pc[t] \in InLock /\ pc'[t] \in InLock
              \/ pc[t] = "locked" /\ pc'[t] = "idle" /\ t \in inside'
              \/ pc[t] \in InUnlock /\ pc'[t] \in InUnlock \cup {"idle"}
<1> USE DEF TypeOK, At, Goto, InLock, InUnlock
<1>1. CASE CallLock(t) \/ CallUnlock(t)
  <2>1. ~ Execute(t)
    BY <1>1 DEF CallLock, CallUnlock, Execute, EnterLock, Acquire, QueueUp, ReleaseToWait,
                Park, LeaveLock, EnterUnlock, Refuse, Free, PassOn, MustPassOn, OnlyWake,
                LeaveUnlock
  <2>2. ~ (CallLock(t) /\ CallUnlock(t))
    BY DEF CallLock, CallUnlock
  <2> QED BY <1>1, <2>1, <2>2 DEF CallLock, CallUnlock
<1>2. CASE Execute(t)
  <2>0. ~ CallLock(t) /\ ~ CallUnlock(t)
    BY <1>2 DEF CallLock, CallUnlock, Execute, EnterLock, Acquire, QueueUp, ReleaseToWait,
                Park, LeaveLock, EnterUnlock, Refuse, Free, PassOn, MustPassOn, OnlyWake,
                LeaveUnlock
  <2>1. CASE EnterLock(t) \/ EnterUnlock(t)
    BY <2>0, <2>1 DEF EnterLock, EnterUnlock, TakeSecondary
  <2>2. CASE LeaveLock(t) \/ LeaveUnlock(t) \/ ReleaseToWait(t)
    BY <2>0, <2>2 DEF LeaveLock, LeaveUnlock, ReleaseToWait, LeaveSecondary
  <2>3. CASE Acquire(t) \/ Refuse(t) \/ Free(t) \/ Park(t) \/ QueueUp(t)
    BY <2>0, <2>3 DEF Acquire, Refuse, Free, Park, QueueUp
  <2>4. CASE PassOn(t) \/ OnlyWake(t)
    BY <2>0, <2>4 DEF PassOn, MustPassOn, OnlyWake, Dequeue
  <2> QED BY <1>2, <2>1, <2>2, <2>3, <2>4 DEF Execute
<1> QED BY <1>1, <1>2

LEMMA PhaseStep ==
  ASSUME ChanIInv, PhaseInv, NEW t \in Task, Call(t) \/ Step(t)
  PROVE  PhaseInv'
<1>1. TypeOK /\ CondType /\ CallInv
  BY DEF ChanIInv
<1>2. ASSUME \A u \in Task \ {t} : /\ pc'[u] = pc[u] /\ (u \in inside' <=> u \in inside)
                                   /\ at'[u] = at[u] /\ waitAt'[u] = waitAt[u],
             Phase(t)'
      PROVE  PhaseInv'
  BY <1>2 DEF PhaseInv, Phase
<1>3. Phase(t)
  BY DEF PhaseInv
<1> USE DEF ChanGoto, WaitGoto, CondType, CallInv, InLock, InUnlock
<1>4. CASE Call(t)
  <2>1. CallLock(t) /\ at' = [at EXCEPT ![t] = "lock"] /\ waitAt' = waitAt /\ at[t] = "out"
    BY <1>4 DEF Call, condVars
  <2>2. /\ \A u \in Task \ {t} : pc'[u] = pc[u] /\ (u \in inside' <=> u \in inside)
        /\ pc'[t] = "lock"
    BY <1>1, <2>1, LockStepTouches
  <2>3. at'[t] = "lock" /\ waitAt'[t] \in {"no", "lock"}
    BY <1>1, <1>3, <2>1 DEF Phase
  <2>4. Phase(t)'
    BY <2>2, <2>3 DEF Phase
  <2> QED BY <1>1, <1>2, <2>1, <2>2, <2>4
<1>5. CASE WaitFor(t)
  <2>1. /\ CallUnlock(t) /\ at' = at /\ waitAt' = [waitAt EXCEPT ![t] = "unlock"]
        /\ at[t] = "lock"
    BY <1>5 DEF WaitFor, QueueOnCond, callVars, HasIt
  <2> QED BY <1>1, <1>2, <1>3, <2>1, LockStepTouches DEF Phase
<1>6. CASE Put(t) \/ Take(t) \/ Look(t) \/ GiveUp(t)
  <2>1. PICK next \in {"signal", "unlock"} :
          /\ UNCHANGED vars /\ at' = [at EXCEPT ![t] = next]
          /\ waitAt' = [waitAt EXCEPT ![t] = "no"]
    BY <1>6 DEF Put, Take, Look, GiveUp, Finish
  <2>2. HasIt(t)
    BY <1>6 DEF Put, Take, Look, GiveUp
  <2>3. pc[t] = "idle" /\ t \in inside
    BY <1>3, <2>2 DEF HasIt, Phase, At
  <2> QED BY <1>1, <1>2, <2>1, <2>3 DEF Phase, vars
<1>7. CASE SignalOther(t)
  BY <1>1, <1>2, <1>3, <1>7 DEF SignalOther, Phase
<1>8. CASE Unlock(t)
  <2>1. /\ CallUnlock(t) /\ at' = [at EXCEPT ![t] = "leave"] /\ waitAt' = waitAt
        /\ at[t] = "unlock"
    BY <1>8 DEF Unlock, condVars
  <2> QED BY <1>1, <1>2, <1>3, <2>1, LockStepTouches DEF Phase
<1>9. CASE Return(t)
  BY <1>1, <1>2, <1>3, <1>9 DEF Return, Phase, vars, condVars, At
<1>10. CASE LockStep(t)
  <2>1. Execute(t) /\ at' = at /\ waitAt' = waitAt
    BY <1>10 DEF LockStep, condVars, callVars
  <2>2. /\ \A u \in Task \ {t} : pc'[u] = pc[u] /\ (u \in inside' <=> u \in inside)
        /\ \/ pc[t] \in InLock /\ pc'[t] \in InLock
           \/ pc[t] = "locked" /\ pc'[t] = "idle" /\ t \in inside'
           \/ pc[t] \in InUnlock /\ pc'[t] \in InUnlock \cup {"idle"}
    BY <1>1, <2>1, LockStepTouches
  <2>3. pc[t] \in InLock => at[t] = "lock" /\ waitAt[t] \in {"no", "lock"}
    BY <1>1, <1>3 DEF Phase
  <2>4. pc[t] \in InUnlock => at[t] = "leave" \/ waitAt[t] = "unlock"
    BY <1>1, <1>3 DEF Phase
  <2>5. Phase(t)'
    BY <1>3, <2>1, <2>2, <2>3, <2>4 DEF Phase
  <2> QED BY <1>1, <1>2, <2>1, <2>2, <2>5
<1>11. CASE ParkOnCond(t) /\ UNCHANGED callVars
  BY <1>1, <1>2, <1>3, <1>11 DEF ParkOnCond, Phase, callVars, At
<1>12. CASE RelockAfterWait(t) /\ UNCHANGED callVars
  <2>1. /\ CallLock(t) /\ at' = at /\ waitAt' = [waitAt EXCEPT ![t] = "lock"]
        /\ waitAt[t] = "park"
    BY <1>12 DEF RelockAfterWait, callVars
  <2>2. /\ \A u \in Task \ {t} : pc'[u] = pc[u] /\ (u \in inside' <=> u \in inside)
        /\ pc'[t] = "lock"
    BY <1>1, <2>1, LockStepTouches
  <2>3. at'[t] = "lock" /\ waitAt'[t] \in {"no", "lock"}
    BY <1>1, <1>3, <2>1 DEF Phase
  <2>4. Phase(t)'
    BY <2>2, <2>3 DEF Phase
  <2> QED BY <1>1, <1>2, <2>1, <2>2, <2>4
<1> QED BY <1>4, <1>5, <1>6, <1>7, <1>8, <1>9, <1>10, <1>11, <1>12 DEF Step, CondStep

\* What a step of a channel word is to the lock.
LEMMA StepOnLock ==
  ASSUME NEW t \in Task, Call(t) \/ Step(t)
  PROVE  \/ CallLock(t) \/ CallUnlock(t) \/ Execute(t)
         \/ UNCHANGED <<pc, call, inside, lock>>
<1>1. CASE Call(t) \/ WaitFor(t) \/ Unlock(t) \/ LockStep(t)
  BY <1>1 DEF Call, WaitFor, QueueOnCond, Unlock, LockStep
<1>2. CASE Put(t) \/ Take(t) \/ Look(t) \/ GiveUp(t) \/ Return(t)
  BY <1>2 DEF Put, Take, Look, GiveUp, Finish, Return, vars, lock
<1>3. CASE SignalOther(t) \/ CondStep(t)
  BY <1>3 DEF SignalOther, CondStep, ParkOnCond, RelockAfterWait
<1> QED BY <1>1, <1>2, <1>3 DEF Step

\* A task at work on the ring, or about to signal or to unlock, owns the lock.
WorksUnderLock ==
  \A t \in Task : HasIt(t) \/ at[t] \in {"signal", "unlock"} => primary = t

UnderLockInv == ChanIInv /\ SecondaryInv /\ PrimaryInv /\ PhaseInv

(* The secondary lock, the primary lock and the phase each task is in obey  *)
(* their laws in every state, whatever the constants.                      *)
THEOREM UnderLockInductive == ChanSpec => []UnderLockInv
<1>1. ChanInit => SecondaryInv /\ PrimaryInv /\ PhaseInv
  <2>1. ChanInit => SecondaryInv /\ PrimaryInv
    BY OwnersInit DEF ChanInit
  <2>2. ChanInit => PhaseInv
    BY DEF ChanInit, Init, CondInit, PhaseInv, Phase
  <2> QED BY <2>1, <2>2
<1>2. /\ ChanIInv /\ SecondaryInv /\ PrimaryInv /\ PhaseInv
      /\ [ChanNext]_chanVars
      => SecondaryInv' /\ PrimaryInv' /\ PhaseInv'
  <2> SUFFICES ASSUME ChanIInv, SecondaryInv, PrimaryInv, PhaseInv, [ChanNext]_chanVars
               PROVE  SecondaryInv' /\ PrimaryInv' /\ PhaseInv'
    OBVIOUS
  <2>1. ASSUME UNCHANGED <<pc, call, inside, lock>>
        PROVE  SecondaryInv' /\ PrimaryInv'
    BY <2>1 DEF lock, SecondaryInv, PrimaryInv
  <2>2. CASE UNCHANGED chanVars
    <3>1. UNCHANGED <<pc, call, inside, lock>> /\ UNCHANGED <<at, waitAt>>
      BY <2>2 DEF chanVars, vars, condVars, callVars
    <3>2. PhaseInv'
      BY <3>1 DEF PhaseInv, Phase
    <3> QED BY <2>1, <3>1, <3>2
  <2>3. ASSUME NEW t \in Task, Call(t) \/ Step(t)
        PROVE  SecondaryInv' /\ PrimaryInv' /\ PhaseInv'
    <3>1. SecondaryInv' /\ PrimaryInv'
      <4>1. TypeOK
        BY DEF ChanIInv
      <4> QED BY <2>1, <2>3, <4>1, StepOnLock, OwnersStep
    <3> QED BY <2>3, <3>1, PhaseStep
  <2> QED BY <2>2, <2>3 DEF ChanNext
<1> QED BY <1>1, <1>2, ChanInductive, PTL DEF ChanSpec, UnderLockInv

(* The exclusion of Lock holds under the channels too, where tasks also    *)
(* sleep in WAIT-COND.                                                     *)
THEOREM ChannelExclusion == ChanSpec => []MutualExclusion
<1>1. UnderLockInv => MutualExclusion
  BY DEF UnderLockInv, ChanIInv, TypeOK, PrimaryInv, MutualExclusion
<1> QED BY <1>1, UnderLockInductive, PTL

(* Every word does its work on the ring, its signal included, as the owner *)
(* of the lock: that it is one step of the model loses nothing.            *)
THEOREM RingUnderLock == ChanSpec => []WorksUnderLock
<1>1. UnderLockInv => WorksUnderLock
  <2> SUFFICES ASSUME UnderLockInv, NEW t \in Task,
                      HasIt(t) \/ at[t] \in {"signal", "unlock"}
               PROVE  primary = t
    BY DEF WorksUnderLock
  <2>1. Phase(t)
    BY DEF UnderLockInv, PhaseInv
  <2>2. t \in inside
    BY <2>1 DEF Phase, HasIt, At, InLock
  <2> QED BY <2>2 DEF UnderLockInv, PrimaryInv
<1> QED BY <1>1, UnderLockInductive, PTL

-----------------------------------------------------------------------------
(* Waiting and signalling, wherever slices end.                            *)

\* What a task waits for is a condition of the channel.
OnInv == \A t \in Task : waitAt[t] \in {"unlock", "park"} => waitOn[t] \in Cond

LEMMA OnStep ==
  ASSUME CondType, OnInv, NEW t \in Task, Call(t) \/ Step(t)
  PROVE  OnInv'
<1> USE ChannelCondAssumption DEF CondType, OnInv, WaitGoto
<1>1. CASE Call(t) \/ Unlock(t) \/ Return(t) \/ LockStep(t)
  BY <1>1 DEF Call, Unlock, Return, LockStep, condVars
<1>2. CASE WaitFor(t)
  BY <1>2 DEF WaitFor, QueueOnCond
<1>3. CASE Put(t) \/ Take(t) \/ Look(t) \/ GiveUp(t)
  BY <1>3 DEF Put, Take, Look, GiveUp, Finish
<1>4. CASE SignalOther(t) \/ CondStep(t)
  BY <1>4 DEF SignalOther, CondStep, ParkOnCond, RelockAfterWait
<1> QED BY <1>1, <1>2, <1>3, <1>4 DEF Step

\* A task in WAIT-COND that expects a signal.
Expects(t) == waitAt[t] = "unlock" \/ (waitAt[t] = "park" /\ t \notin awake)

\* Such a task is in the list of its condition, if that was never grown, or a
\* signal has missed it.
HeardInv ==
  /\ \A c \in Cond : condSize[c] >= CondSize
  /\ \A t \in Task : waitAt[t] = "unlock" => t \in awake
  /\ \A t \in Task :
       Expects(t) /\ condSize[waitOn[t]] = CondSize => Listed(t, waitOn[t]) \/ t \in missed

\* What the head of a list is not, its tail still holds.
LEMMA TailHolds ==
  ASSUME NEW S, NEW list \in Seq(S), list # <<>>, NEW x \in Entries(list), x # Head(list)
  PROVE  x \in Entries(Tail(list))
<1>1. /\ DOMAIN list = 1 .. Len(list) /\ DOMAIN Tail(list) = 1 .. Len(list) - 1
      /\ Len(list) \in Nat \ {0}
  OBVIOUS
<1>2. Head(list) = list[1] /\ \A i \in 1 .. Len(list) - 1 : Tail(list)[i] = list[i + 1]
  BY TailType
<1>3. PICK i \in 1 .. Len(list) : list[i] = x
  BY <1>1 DEF Entries
<1>4. i # 1
  BY <1>2, <1>3
<1>5. i - 1 \in 1 .. Len(list) - 1 /\ i = (i - 1) + 1
  BY <1>1, <1>4
<1>6. Tail(list)[i - 1] = x
  BY <1>2, <1>3, <1>5
<1> QED BY <1>1, <1>5, <1>6 DEF Entries

\* A step that leaves the lists alone, puts nobody in WAIT-COND and lets nobody
\* sleep who was awake there.
LEMMA HeardKept ==
  ASSUME HeardInv, UNCHANGED <<condWaiting, condSize>>, missed \subseteq missed',
         \A u \in Task : /\ waitAt'[u] = "unlock" => waitAt[u] = "unlock" /\ u \in awake'
                         /\ Expects(u)' => Expects(u) /\ waitOn'[u] = waitOn[u]
  PROVE  HeardInv'
<1>1. \A u \in Task, c \in Cond : Listed(u, c)' <=> Listed(u, c)
  BY DEF Listed
<1>2. ASSUME NEW u \in Task, Expects(u)', condSize'[waitOn'[u]] = CondSize
      PROVE  Listed(u, waitOn[u])' \/ u \in missed'
  <2>1. Listed(u, waitOn[u]) \/ u \in missed
    BY <1>2 DEF HeardInv
  <2>2. CASE Listed(u, waitOn[u])
    <3>1. u \in Entries(condWaiting[waitOn[u]]) /\ waitOn'[u] = waitOn[u]
      BY <1>2, <2>2 DEF Listed
    <3>2. u \in Entries(condWaiting'[waitOn'[u]])
      BY <3>1
    <3> QED BY <3>2 DEF Listed
  <2> QED BY <2>1, <2>2
<1> QED BY <1>2 DEF HeardInv

\* No step of the lock's words lets a task sleep that is on its way to WAIT.
LEMMA LockStepHears ==
  ASSUME UnderLockInv, HeardInv, NEW t \in Task,
         CallLock(t) \/ CallUnlock(t) \/ Execute(t), UNCHANGED condVars
  PROVE  HeardInv'
<1>1. /\ TypeOK /\ Phase(t) /\ UNCHANGED <<condWaiting, condSize, waitAt, waitOn>>
  BY DEF UnderLockInv, ChanIInv, PhaseInv, condVars
<1>2. /\ missed \subseteq missed'
      /\ awake \subseteq awake' \/ (pc[t] = "park" /\ awake' = awake \ {t})
  <2> USE DEF At
  <2>1. CASE CallLock(t) \/ CallUnlock(t)
    BY <2>1 DEF CallLock, CallUnlock
  <2>2. CASE EnterLock(t) \/ EnterUnlock(t)
    BY <2>2 DEF EnterLock, EnterUnlock, TakeSecondary
  <2>3. CASE LeaveLock(t) \/ LeaveUnlock(t) \/ ReleaseToWait(t)
    BY <2>3 DEF LeaveLock, LeaveUnlock, ReleaseToWait, LeaveSecondary
  <2>4. CASE Acquire(t) \/ Refuse(t) \/ Free(t) \/ Park(t) \/ QueueUp(t)
    BY <2>4 DEF Acquire, Refuse, Free, Park, QueueUp
  <2>5. CASE PassOn(t) \/ OnlyWake(t)
    BY <2>5 DEF PassOn, OnlyWake, Dequeue, WakeUp
  <2> QED BY <2>1, <2>2, <2>3, <2>4, <2>5 DEF Execute
<1>3. pc[t] = "park" => waitAt[t] \notin {"unlock", "park"}
  BY <1>1 DEF Phase, InUnlock
<1>4. \A u \in Task : /\ waitAt'[u] = "unlock" => waitAt[u] = "unlock" /\ u \in awake'
                      /\ Expects(u)' => Expects(u) /\ waitOn'[u] = waitOn[u]
  BY <1>1, <1>2, <1>3 DEF HeardInv, Expects
<1> QED BY <1>1, <1>2, <1>4, HeardKept

\* A task that queues itself is in the list, or the list has been grown.
LEMMA QueueHears ==
  ASSUME ChanIInv, HeardInv, OnInv, NEW t \in Task, NEW c \in Cond, t \in awake,
         QueueOnCond(t, c)
  PROVE  HeardInv'
<1>0. PICK n \in Nat \ {0} : n = condSize[c]
  BY DEF ChanIInv, CondType
<1>1. /\ condWaiting[c] \in Seq(Task \cup {Junk}) /\ t \in Task \cup {Junk}
      /\ condWaiting \in [Cond -> Seq(Task \cup {Junk})]
      /\ condSize \in [Cond -> Nat \ {0}]
      /\ waitAt \in [Task -> {"no", "unlock", "park", "lock"}]
      /\ waitOn \in [Task -> Cond \cup {Nil}]
      /\ n >= CondSize /\ CondSize \in Nat \ {0}
  BY <1>0, CondSizeAssumption DEF ChanIInv, CondType, HeardInv
<1>2. /\ waitAt' = [waitAt EXCEPT ![t] = "unlock"] /\ waitOn' = [waitOn EXCEPT ![t] = c]
      /\ UNCHANGED <<awake, missed>>
  BY DEF QueueOnCond, WaitGoto, CallUnlock
<1>3. CASE Len(condWaiting[c]) = condSize[c]
  <2>1. /\ condSize' = [condSize EXCEPT ![c] = 2 * n]
        /\ \A d \in Cond : d # c => condWaiting'[d] = condWaiting[d]
    BY <1>0, <1>1, <1>3 DEF QueueOnCond
  <2>2. 2 * n > CondSize
    BY <1>1
  <2>3. /\ \A d \in Cond : condSize'[d] >= CondSize
        /\ \A d \in Cond : condSize'[d] = CondSize => d # c /\ condSize[d] = CondSize
    BY <1>1, <2>1, <2>2 DEF HeardInv
  <2>4. ASSUME NEW u \in Task, Expects(u)', condSize'[waitOn'[u]] = CondSize
        PROVE  Listed(u, waitOn[u])' \/ u \in missed'
    <3>1. u # t
      BY <1>1, <1>2, <2>1, <2>2, <2>4
    <3>2. Expects(u) /\ waitOn'[u] = waitOn[u] /\ waitOn[u] \in Cond
      BY <1>1, <1>2, <2>4, <3>1 DEF Expects, OnInv
    <3>3. waitOn[u] # c /\ condSize[waitOn[u]] = CondSize
      BY <2>3, <2>4, <3>2
    <3>4. u \in Entries(condWaiting[waitOn[u]]) \/ u \in missed
      BY <3>2, <3>3 DEF HeardInv, Listed
    <3>5. condWaiting'[waitOn'[u]] = condWaiting[waitOn[u]]
      BY <2>1, <3>2, <3>3
    <3> QED BY <1>2, <3>4, <3>5 DEF Listed
  <2>5. \A u \in Task : waitAt'[u] = "unlock" => u \in awake'
    BY <1>1, <1>2 DEF HeardInv
  <2> QED BY <2>3, <2>4, <2>5 DEF HeardInv
<1>4. CASE Len(condWaiting[c]) # condSize[c]
  <2>1. /\ condSize' = condSize
        /\ condWaiting' = [condWaiting EXCEPT ![c] = Append(condWaiting[c], t)]
    BY <1>1, <1>4 DEF QueueOnCond
  <2>2. Entries(Append(condWaiting[c], t)) = Entries(condWaiting[c]) \cup {t}
    BY <1>1, EntriesOfAppend
  <2>3. /\ Entries(condWaiting'[c]) = Entries(condWaiting[c]) \cup {t}
        /\ \A d \in Cond : Entries(condWaiting[d]) \subseteq Entries(condWaiting'[d])
    <3>1. condWaiting'[c] = Append(condWaiting[c], t)
      BY <1>1, <2>1
    <3>2. \A d \in Cond : d # c => condWaiting'[d] = condWaiting[d]
      BY <1>1, <2>1
    <3>3. Entries(condWaiting'[c]) = Entries(condWaiting[c]) \cup {t}
      BY <2>2, <3>1
    <3> QED BY <3>2, <3>3
  <2>4. ASSUME NEW u \in Task, Expects(u)', condSize'[waitOn'[u]] = CondSize
        PROVE  Listed(u, waitOn[u])' \/ u \in missed'
    <3>1. CASE u = t
      <4>1. waitOn'[u] = c
        BY <1>1, <1>2, <3>1
      <4>2. u \in Entries(condWaiting'[waitOn'[u]])
        BY <2>3, <3>1, <4>1
      <4> QED BY <4>2 DEF Listed
    <3>2. CASE u # t
      <4>1. Expects(u) /\ waitOn'[u] = waitOn[u] /\ waitOn[u] \in Cond
        BY <1>1, <1>2, <2>4, <3>2 DEF Expects, OnInv
      <4>2. condSize[waitOn[u]] = CondSize
        BY <2>1, <2>4, <4>1
      <4>3. u \in Entries(condWaiting[waitOn[u]]) \/ u \in missed
        BY <4>1, <4>2 DEF HeardInv, Listed
      <4>4. u \in Entries(condWaiting'[waitOn'[u]]) \/ u \in missed'
        BY <1>2, <2>3, <4>1, <4>3
      <4> QED BY <4>4 DEF Listed
    <3> QED BY <3>1, <3>2
  <2>5. \A u \in Task : waitAt'[u] = "unlock" => u \in awake'
    BY <1>1, <1>2 DEF HeardInv
  <2>6. \A d \in Cond : condSize'[d] >= CondSize
    BY <2>1 DEF HeardInv
  <2> QED BY <2>4, <2>5, <2>6 DEF HeardInv
<1> QED BY <1>3, <1>4

\* The task a signal takes off the list is awake from then on, or was too early.
LEMMA SignalHears ==
  ASSUME ChanIInv, HeardInv, OnInv, NEW c \in Cond, Signal(c), UNCHANGED <<waitAt, waitOn>>
  PROVE  HeardInv'
<1>1. CASE condWaiting[c] = <<>>
  <2>1. UNCHANGED <<awake, missed, condWaiting, condSize>>
    BY <1>1 DEF Signal
  <2>2. \A u \in Task : /\ waitAt'[u] = "unlock" => waitAt[u] = "unlock" /\ u \in awake'
                        /\ Expects(u)' => Expects(u) /\ waitOn'[u] = waitOn[u]
    BY <2>1 DEF HeardInv, Expects
  <2> QED BY <2>1, <2>2, HeardKept
<1>2. CASE condWaiting[c] # <<>>
  <2>0. PICK u0 : u0 = Head(condWaiting[c])
    OBVIOUS
  <2>1. /\ awake' = awake \cup ({u0} \cap Task) /\ missed' = missed \cup ({u0} \cap awake)
        /\ condSize' = condSize /\ condWaiting' = [condWaiting EXCEPT ![c] = Tail(condWaiting[c])]
    BY <1>2, <2>0 DEF Signal, WakeUp
  <2>2. /\ condWaiting \in [Cond -> Seq(Task \cup {Junk})]
        /\ condWaiting[c] \in Seq(Task \cup {Junk})
    BY DEF ChanIInv, CondType
  <2>3. /\ condWaiting'[c] = Tail(condWaiting[c])
        /\ \A d \in Cond : d # c => condWaiting'[d] = condWaiting[d]
    BY <2>1, <2>2
  <2>4. ASSUME NEW u \in Task, Expects(u)', condSize'[waitOn'[u]] = CondSize
        PROVE  Listed(u, waitOn[u])' \/ u \in missed'
    <3>1. Expects(u) /\ waitOn'[u] = waitOn[u] /\ waitOn[u] \in Cond
      BY <2>1, <2>4 DEF Expects, OnInv
    <3>2. u \in Entries(condWaiting[waitOn[u]]) \/ u \in missed
      BY <2>1, <2>4, <3>1 DEF HeardInv, Listed
    <3>3. CASE u = u0
      <4>1. u \in awake'
        BY <2>1, <3>3
      <4>2. waitAt[u] = "unlock"
        BY <2>4, <4>1 DEF Expects
      <4> QED BY <2>1, <3>3, <4>2 DEF HeardInv
    <3>4. CASE u # u0 /\ u \in Entries(condWaiting[waitOn[u]])
      <4>1. CASE waitOn[u] = c
        <5>1. u \in Entries(Tail(condWaiting[c]))
          BY <1>2, <2>0, <2>2, <3>4, <4>1, TailHolds
        <5> QED BY <2>3, <3>1, <4>1, <5>1 DEF Listed
      <4>2. CASE waitOn[u] # c
        BY <2>3, <3>1, <3>4, <4>2 DEF Listed
      <4> QED BY <4>1, <4>2
    <3> QED BY <2>1, <3>2, <3>3, <3>4
  <2>5. \A u \in Task : waitAt'[u] = "unlock" => u \in awake'
    BY <2>1 DEF HeardInv
  <2>6. \A d \in Cond : condSize'[d] >= CondSize
    BY <2>1 DEF HeardInv
  <2> QED BY <2>4, <2>5, <2>6 DEF HeardInv
<1> QED BY <1>1, <1>2

LEMMA HeardStep ==
  ASSUME UnderLockInv, HeardInv, OnInv, NEW t \in Task, Call(t) \/ Step(t)
  PROVE  HeardInv'
<1>1. ChanIInv /\ TypeOK /\ CondType
  BY DEF UnderLockInv, ChanIInv
<1>2. CASE Call(t) \/ Unlock(t) \/ LockStep(t)
  <2>1. (CallLock(t) \/ CallUnlock(t) \/ Execute(t)) /\ UNCHANGED condVars
    BY <1>2 DEF Call, Unlock, LockStep
  <2> QED BY <2>1, LockStepHears
<1>3. CASE WaitFor(t)
  <2>1. PICK c \in Cond : QueueOnCond(t, c)
    BY <1>3, ChannelCondAssumption DEF WaitFor
  <2>2. t \in awake
    BY <1>3 DEF WaitFor, HasIt, At
  <2> QED BY <1>1, <2>1, <2>2, QueueHears
<1>4. CASE Put(t) \/ Take(t) \/ Look(t) \/ GiveUp(t)
  <2>1. /\ UNCHANGED <<awake, missed, condWaiting, condSize>>
        /\ waitAt' = [waitAt EXCEPT ![t] = "no"] /\ waitOn' = [waitOn EXCEPT ![t] = Nil]
    BY <1>4 DEF Put, Take, Look, GiveUp, Finish, WaitGoto, vars
  <2>2. \A u \in Task : /\ waitAt'[u] = "unlock" => waitAt[u] = "unlock" /\ u \in awake'
                        /\ Expects(u)' => Expects(u) /\ waitOn'[u] = waitOn[u]
    BY <1>1, <2>1 DEF HeardInv, Expects, CondType
  <2> QED BY <2>1, <2>2, HeardKept
<1>5. CASE SignalOther(t)
  <2>1. (\E c \in Cond : Signal(c)) /\ UNCHANGED <<waitAt, waitOn>>
    BY <1>5, ChannelCondAssumption DEF SignalOther
  <2> QED BY <1>1, <2>1, SignalHears
<1>6. CASE Return(t)
  <2>1. UNCHANGED <<awake, missed, condWaiting, condSize, waitAt, waitOn>>
    BY <1>6 DEF Return, vars, condVars
  <2> QED BY <2>1, HeardKept DEF HeardInv, Expects
<1>7. CASE ParkOnCond(t)
  <2>1. /\ waitAt[t] = "unlock" /\ awake' = awake \ {t}
        /\ waitAt' = [waitAt EXCEPT ![t] = "park"]
        /\ UNCHANGED <<missed, condWaiting, condSize, waitOn>>
    BY <1>7 DEF ParkOnCond, WaitGoto
  <2>2. \A u \in Task : /\ waitAt'[u] = "unlock" => waitAt[u] = "unlock" /\ u \in awake'
                        /\ Expects(u)' => Expects(u) /\ waitOn'[u] = waitOn[u]
    BY <1>1, <2>1 DEF HeardInv, Expects, CondType
  <2> QED BY <2>1, <2>2, HeardKept
<1>8. CASE RelockAfterWait(t)
  <2>1. /\ waitAt' = [waitAt EXCEPT ![t] = "lock"] /\ CallLock(t)
        /\ UNCHANGED <<awake, missed, condWaiting, condSize, waitOn>>
    BY <1>8 DEF RelockAfterWait, WaitGoto, CallLock
  <2>2. \A u \in Task : /\ waitAt'[u] = "unlock" => waitAt[u] = "unlock" /\ u \in awake'
                        /\ Expects(u)' => Expects(u) /\ waitOn'[u] = waitOn[u]
    BY <1>1, <2>1 DEF HeardInv, Expects, CondType
  <2> QED BY <2>1, <2>2, HeardKept
<1> QED BY <1>2, <1>3, <1>4, <1>5, <1>6, <1>7, <1>8 DEF Step, CondStep

(* Wherever slices end, and until the list of its condition has been       *)
(* grown, a task that sleeps in WAIT-COND is in that list unless a signal  *)
(* reached it between its queueing and its WAIT.                           *)
THEOREM SignalsAreHeard == ChanSpec => []SignalsHeard
<1>1. ChanInit => HeardInv /\ OnInv
  <2> SUFFICES ASSUME ChanInit PROVE HeardInv /\ OnInv
    OBVIOUS
  <2>1. /\ \A t \in Task : waitAt[t] = "no"
        /\ \A c \in Cond : condSize[c] = CondSize
    BY DEF ChanInit, CondInit
  <2>2. CondSize >= CondSize
    BY CondSizeAssumption
  <2> QED BY <2>1, <2>2 DEF HeardInv, OnInv, Expects
<1>2. UnderLockInv /\ HeardInv /\ OnInv /\ [ChanNext]_chanVars => HeardInv' /\ OnInv'
  <2> SUFFICES ASSUME UnderLockInv, HeardInv, OnInv, [ChanNext]_chanVars
               PROVE  HeardInv' /\ OnInv'
    OBVIOUS
  <2>1. CASE UNCHANGED chanVars
    <3>1. UNCHANGED <<awake, missed, condWaiting, condSize, waitAt, waitOn>>
      BY <2>1 DEF chanVars, vars, condVars
    <3>2. HeardInv'
      BY <3>1, HeardKept DEF HeardInv, Expects
    <3> QED BY <3>1, <3>2 DEF OnInv
  <2>2. ASSUME NEW t \in Task, Call(t) \/ Step(t)
        PROVE  HeardInv' /\ OnInv'
    BY <2>2, HeardStep, OnStep DEF UnderLockInv, ChanIInv
  <2> QED BY <2>1, <2>2 DEF ChanNext
<1>3. HeardInv => SignalsHeard
  BY DEF HeardInv, SignalsHeard, Expects
<1> QED BY <1>1, <1>2, <1>3, UnderLockInductive, PTL DEF ChanSpec

===============================================================================
