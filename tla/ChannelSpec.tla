------------------------------ MODULE ChannelSpec ------------------------------
(***************************************************************************)
(* What a channel promises (src/doc/chan.md, src/doc/bchan.md): one queue, *)
(* from which every word takes effect at once and in which a message stays *)
(* where it is until it is its turn.  Module Channel implements it.        *)
(***************************************************************************)
EXTENDS Naturals, Sequences

CONSTANTS Task, Message, Unbounded, None,
          Shown    \* what a peek may show

VARIABLES
  limit,   \* the most messages it holds, or Unbounded
  queue,   \* the messages in it, the oldest first
  busy,    \* the word each task is in and its message, None outside
  answer   \* what the task's last word returned, None before it has

vars == <<limit, queue, busy, answer>>

Sends == {"SEND", "TRY-SEND"}
Receives == {"RECV", "TRY-RECV"}
Peeks == {"PEEK", "TRY-PEEK"}
Tries == {"TRY-SEND", "TRY-RECV", "TRY-PEEK"}

Init ==
  /\ queue = <<>> /\ busy = [t \in Task |-> None]
  /\ answer = [t \in Task |-> None]

Holds(t, words) ==
  /\ busy[t] # None /\ busy[t].word \in words
  /\ answer[t] = None

Full == limit # Unbounded /\ Len(queue) >= limit

Answer(t, value) ==
  /\ answer' = [answer EXCEPT ![t] = value] /\ UNCHANGED <<limit, busy>>

Call(t) ==
  /\ busy[t] = None
  /\ \E word \in Sends \cup Receives \cup Peeks, x \in Message \cup {None} :
       busy' = [busy EXCEPT ![t] = [word |-> word, x |-> x]]
  /\ answer' = [answer EXCEPT ![t] = None]
  /\ UNCHANGED <<limit, queue>>

Send(t) ==
  /\ Holds(t, Sends) /\ ~ Full
  /\ queue' = Append(queue, busy[t].x) /\ Answer(t, "TRUE")

Receive(t) ==
  /\ Holds(t, Receives) /\ queue # <<>>
  /\ queue' = Tail(queue) /\ Answer(t, Head(queue))

\* a peek takes nothing
Peek(t) ==
  /\ Holds(t, Peeks) /\ queue # <<>>
  /\ (\E value \in Shown : Answer(t, value)) /\ queue' = queue

\* a TRY- word answers at once
Fail(t) ==
  /\ Holds(t, Tries)
  /\ IF busy[t].word \in Sends THEN Full ELSE queue = <<>>
  /\ Answer(t, "FALSE") /\ queue' = queue

Return(t) ==
  /\ busy[t] # None /\ answer[t] # None
  /\ busy' = [busy EXCEPT ![t] = None]
  /\ UNCHANGED <<limit, queue, answer>>

Next == \E t \in Task : Call(t) \/ Send(t) \/ Receive(t) \/ Peek(t) \/ Fail(t)
                          \/ Return(t)

Spec == Init /\ [][Next]_vars

=============================================================================
