---------------------------- MODULE BlockingQueue ----------------------------
(***************************************************************************)
(* What a ThreadSafeQueue promises: items come out once and in the order   *)
(* they went in, and as long as an item and a caller of pop() are there,   *)
(* some caller gets an item.  TCPServer uses its queues in this form.      *)
(***************************************************************************)
EXTENDS Sequences, Integers

CONSTANTS
  Consumers,   \* threads that call pop()
  Items,       \* what is pushed
  MaxLength    \* bound on the items in the queue

VARIABLES
  queue,       \* the items, oldest first
  asking,      \* consumers inside pop()
  got          \* what each consumer was last given

vars == <<queue, asking, got>>

Init ==
  /\ queue = <<>>
  /\ asking = {}
  /\ got \in [Consumers -> Items]

Put(x) ==
  /\ Len(queue) < MaxLength
  /\ queue' = Append(queue, x)
  /\ UNCHANGED <<asking, got>>

Ask(c) ==
  /\ c \notin asking
  /\ asking' = asking \cup {c}
  /\ UNCHANGED <<queue, got>>

Take(c) ==
  /\ c \in asking /\ queue # <<>>
  /\ got' = [got EXCEPT ![c] = Head(queue)]
  /\ queue' = Tail(queue)
  /\ asking' = asking \ {c}

Next ==
  \/ \E x \in Items : Put(x)
  \/ \E c \in Consumers : Ask(c) \/ Take(c)

Spec == Init /\ [][Next]_vars

Fairness == WF_vars(\E c \in Consumers : Take(c))

FairSpec == Spec /\ Fairness
=============================================================================
