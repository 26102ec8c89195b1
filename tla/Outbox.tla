-------------------------------- MODULE Outbox --------------------------------
(***************************************************************************)
(* What the output of a connection promises: messages go out whole and in  *)
(* the order of the calls of send().  The buffer at the head is the one    *)
(* that is being sent, it stays where it is until that has completed, and  *)
(* what could not be sent blocks what is behind it: the peer gets a prefix *)
(* of what was queued, without gaps.                                       *)
(***************************************************************************)
EXTENDS Integers, Sequences

CONSTANT Messages

VARIABLES
  queue,   \* the buffers, each a part of a message; oldest first
  phase    \* "idle", "sending", or "broken": nothing will be sent any more

vars == <<queue, phase>>

Init == queue = <<>> /\ phase = "idle"

\* A message of n parts.
Parts(m, n) == [k \in 1 .. n |-> [message |-> m, part |-> k]]

\* A message is queued in one or more parts, in their order and with nothing between
\* them, behind all that is queued.
Accept ==
  /\ Len(queue') > Len(queue)
  /\ \E m \in Messages : queue' = queue \o Parts(m, Len(queue') - Len(queue))
  /\ UNCHANGED phase

Start ==
  /\ phase = "idle" /\ queue # <<>>
  /\ phase' = "sending"
  /\ UNCHANGED queue

Complete ==
  /\ phase = "sending" /\ queue # <<>>
  /\ phase' = "idle"
  /\ queue' = Tail(queue)

\* A buffer could not be sent, or its completion came for a client that was freed.
Break ==
  /\ phase # "broken" /\ queue # <<>>
  /\ phase' = "broken"
  /\ UNCHANGED queue

Next == Accept \/ Start \/ Complete \/ Break

Spec == Init /\ [][Next]_vars
=============================================================================
