---------------------------- MODULE MessageChannel ----------------------------
(***************************************************************************)
(* What a message queue promises: it keeps messages in order, an urgent    *)
(* one in front; a message that was handed to a receiver is what this      *)
(* receiver's call returns, cut to its buffer only if it asked for that;   *)
(* and a call that succeeds without a message was let through by somebody. *)
(***************************************************************************)
EXTENDS Naturals, Sequences, SequencesExt

CONSTANTS
  Threads, Queues, Messages,
  Size,       \* of every message
  Buffers,    \* the sizes of the buffers that threads bring
  NULL

VARIABLES
  chan,     \* the messages kept, per queue
  asking,   \* what each thread in a Receive asks for: [queue, max, noError]
  inbox,    \* the message handed to a thread that is in a Receive
  passed,   \* why a thread's wait is over without a message, or "none"
  result    \* what the thread's last Receive returned: [code, msg, len]

vars == <<chan, asking, inbox, passed, result>>

NoResult == [code |-> "PENDING", msg |-> NULL, len |-> 0]
Reasons == {"flush", "delete", "signal", "toobig"}

Init ==
  /\ chan   = [q \in Queues |-> << >>]
  /\ asking = [t \in Threads |-> NULL]
  /\ inbox  = [t \in Threads |-> NULL]
  /\ passed = [t \in Threads |-> "none"]
  /\ result = [t \in Threads |-> [code |-> "NONE", msg |-> NULL, len |-> 0]]

\* The message m fits what t asks for, or may be cut.
Fits(t, m) == Size[m] <= asking[t].max \/ asking[t].noError
CutLen(t, m) == IF Size[m] < asking[t].max THEN Size[m] ELSE asking[t].max

Ask(t, q, n, noError) ==
  /\ asking[t] = NULL
  /\ asking' = [asking EXCEPT ![t] = [queue |-> q, max |-> n, noError |-> noError]]
  /\ result' = [result EXCEPT ![t] = NoResult]
  /\ UNCHANGED <<chan, inbox, passed>>

\* The call is over.
Answer(t, code, m, n) ==
  /\ asking' = [asking EXCEPT ![t] = NULL]
  /\ inbox'  = [inbox EXCEPT ![t] = NULL]
  /\ passed' = [passed EXCEPT ![t] = "none"]
  /\ result' = [result EXCEPT ![t] = [code |-> code, msg |-> m, len |-> n]]

\* Keep a message; only when nobody waits, so the channel need not say who waits.
Put(q, m) ==
  /\ chan' = [chan EXCEPT ![q] = Append(@, m)]
  /\ UNCHANGED <<asking, inbox, passed, result>>

PutUrgent(q, m) ==
  /\ chan' = [chan EXCEPT ![q] = Cons(m, @)]
  /\ UNCHANGED <<asking, inbox, passed, result>>

\* The oldest message leaves with the receiver ...
Take(t) ==
  /\ asking[t] # NULL /\ inbox[t] = NULL /\ passed[t] = "none"
  /\ LET q == asking[t].queue
         m == Head(chan[q]) IN
     /\ chan[q] # << >>
     /\ Fits(t, m)
     /\ Answer(t, "NONE", m, CutLen(t, m))
     /\ chan' = [chan EXCEPT ![q] = Tail(@)]

\* ... and one that arrives at an empty channel may go to it directly; then the
\* call returns this message and no other result.
Hand(t, m) ==
  /\ asking[t] # NULL /\ inbox[t] = NULL /\ passed[t] = "none"
  /\ chan[asking[t].queue] = << >>
  /\ Fits(t, m)
  /\ inbox' = [inbox EXCEPT ![t] = m]
  /\ UNCHANGED <<chan, asking, passed, result>>

Collect(t) ==
  /\ asking[t] # NULL /\ inbox[t] # NULL
  /\ Answer(t, "NONE", inbox[t], CutLen(t, inbox[t]))
  /\ UNCHANGED chan

\* The wait ends without a message.
LetThrough(t, why) ==
  /\ asking[t] # NULL /\ inbox[t] = NULL
  /\ why = "toobig" => \E m \in Messages : ~Fits(t, m)
  /\ passed' = [passed EXCEPT ![t] = why]
  /\ UNCHANGED <<chan, asking, inbox, result>>

\* A call that a signal broke starts over.
AskAgain(t) ==
  /\ passed[t] = "signal"
  /\ passed' = [passed EXCEPT ![t] = "none"]
  /\ UNCHANGED <<chan, asking, inbox, result>>

\* It fails, or succeeds empty-handed after a flush (or the delete or signal that
\* came just as the wait timed out).  Only a message that does not fit is too big.
Leave(t, code) ==
  /\ asking[t] # NULL /\ inbox[t] = NULL
  /\ code = "NONE" => passed[t] \in {"flush", "delete", "signal"}
  /\ code = "E2BIG" => \/ passed[t] = "toobig"
                       \/ /\ chan[asking[t].queue] # << >>
                          /\ ~Fits(t, Head(chan[asking[t].queue]))
  /\ code = "WAS_DELETED" => passed[t] = "delete"
  /\ code = "EINTR" => passed[t] = "signal"
  /\ passed[t] = "toobig" => code = "E2BIG"
  /\ Answer(t, code, NULL, 0)
  /\ UNCHANGED chan

\* TryReceive by anybody, Clear.
Drop(q) ==
  /\ chan[q] # << >>
  /\ \E rest \in {Tail(chan[q]), << >>} : chan' = [chan EXCEPT ![q] = rest]
  /\ UNCHANGED <<asking, inbox, passed, result>>

Codes == {"NONE", "WAIT_TIMEOUT", "WAS_DELETED", "EINTR", "TYPE", "E2BIG"}

Next ==
  \/ \E t \in Threads :
       \/ \E q \in Queues, n \in Buffers, noError \in BOOLEAN : Ask(t, q, n, noError)
       \/ Take(t) \/ Collect(t) \/ AskAgain(t)
       \/ \E m \in Messages : Hand(t, m)
       \/ \E why \in Reasons : LetThrough(t, why)
       \/ \E code \in Codes : Leave(t, code)
  \/ \E q \in Queues :
       \/ \E m \in Messages : Put(q, m) \/ PutUrgent(q, m)
       \/ Drop(q)

Spec == Init /\ [][Next]_vars
=============================================================================
