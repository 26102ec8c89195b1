--------------------------- MODULE ThreadSafeQueue ---------------------------
(***************************************************************************)
(* The queue that carries ids to the assembler workers and requests to the *)
(* application.  push() stores the item under the mutex and notifies after *)
(* it has released it; pop() waits on the condition variable until the     *)
(* queue is not empty.                                                     *)
(*                                                                         *)
(* No thread blocks while it holds the mutex, except in wait(), which      *)
(* releases it: a critical section is one step.  The notification is a     *)
(* step of its own, and a thread that was woken has yet to get the mutex   *)
(* back ("locking") before it looks at the queue again.                    *)
(***************************************************************************)
EXTENDS Sequences, Integers, FiniteSets

CONSTANTS
  Producers,   \* threads that call push()
  Consumers,   \* threads that call pop()
  Items,       \* what is pushed
  MaxLength    \* bound on the items in the queue

Threads == Producers \cup Consumers

ASSUME ThreadsAssumption ==
  /\ IsFiniteSet(Producers) /\ IsFiniteSet(Consumers)
  /\ Producers \cap Consumers = {}
ASSUME LengthAssumption == MaxLength \in Nat

VARIABLES
  m_queue,     \* m_queue, oldest item first
  pc,          \* where a thread is: outside, or in push() or pop()
  got          \* the item a consumer's last pop() returned

vars == <<m_queue, pc, got>>

At(label) == {t \in Threads : pc[t] = label}

Init ==
  /\ m_queue = <<>>
  /\ pc = [t \in Threads |-> "idle"]
  /\ got \in [Consumers -> Items]

-----------------------------------------------------------------------------
(* push() *)

PushQuietly(p, x) ==
  /\ pc[p] = "idle" /\ Len(m_queue) < MaxLength
  /\ m_queue' = Append(m_queue, x)
  /\ pc' = [pc EXCEPT ![p] = IF m_queue = <<>> THEN "notifying" ELSE "idle"]
  /\ UNCHANGED got

\* The critical section of push().
Push(p, x) ==
  /\ pc[p] = "idle" /\ Len(m_queue) < MaxLength
  /\ m_queue' = Append(m_queue, x)
  /\ pc' = [pc EXCEPT ![p] = "notifying"]
  /\ UNCHANGED got

NotifyOrWait(p) ==
  /\ pc[p] = "notifying"
  /\ \/ /\ At("waiting") = {}
        /\ pc' = [pc EXCEPT ![p] = "waiting"]
     \/ \E c \in At("waiting") :
          pc' = [pc EXCEPT ![p] = "idle", ![c] = "locking"]
  /\ UNCHANGED <<m_queue, got>>

\* notify_one: any waiter, or nobody if none waits.
Notify(p) ==
  /\ pc[p] = "notifying"
  /\ \/ /\ At("waiting") = {}
        /\ pc' = [pc EXCEPT ![p] = "idle"]
     \/ \E c \in At("waiting") :
          pc' = [pc EXCEPT ![p] = "idle", ![c] = "locking"]
  /\ UNCHANGED <<m_queue, got>>

-----------------------------------------------------------------------------
(* pop() *)

\* A consumer calls pop().
CallPop(c) ==
  /\ pc[c] = "idle"
  /\ pc' = [pc EXCEPT ![c] = "locking"]
  /\ UNCHANGED <<m_queue, got>>

AllButNewest(q) == SubSeq(q, 1, Len(q) - 1)

\* m_queue.pop()
WithoutFront(q) == Tail(q)

\* It has the mutex and there is an item.
Pop(c) ==
  /\ pc[c] = "locking" /\ m_queue # <<>>
  /\ got' = [got EXCEPT ![c] = Head(m_queue)]
  /\ m_queue' = WithoutFront(m_queue)
  /\ pc' = [pc EXCEPT ![c] = "idle"]

\* It has the mutex and there is none: wait() releases the mutex and sleeps.
Wait(c) ==
  /\ pc[c] = "locking" /\ m_queue = <<>>
  /\ pc' = [pc EXCEPT ![c] = "waiting"]
  /\ UNCHANGED <<m_queue, got>>

SpuriousWakeup(c) ==
  /\ pc[c] = "waiting"
  /\ pc' = [pc EXCEPT ![c] = "locking"]
  /\ UNCHANGED <<m_queue, got>>

ConsumerNext(c) == CallPop(c) \/ Pop(c) \/ Wait(c) \/ SpuriousWakeup(c)

Next ==
  \/ \E p \in Producers : (\E x \in Items : Push(p, x)) \/ Notify(p)
  \/ \E c \in Consumers : ConsumerNext(c)

Spec == Init /\ [][Next]_vars

\* A thread inside a call goes on; nobody has to call, or to wake for no reason.
Fairness ==
  /\ \A p \in Producers : WF_vars(Notify(p))
  /\ \A c \in Consumers : WF_vars(Pop(c) \/ Wait(c))

FairSpec == Spec /\ Fairness

-----------------------------------------------------------------------------
(* Every variable keeps to its type; producers are only in push(),         *)
(* consumers only in pop().                                                *)
TypeOK ==
  /\ m_queue \in Seq(Items)
  /\ Len(m_queue) <= MaxLength
  /\ pc \in [Threads -> {"idle", "notifying", "locking", "waiting"}]
  /\ \A p \in Producers : pc[p] \in {"idle", "notifying"}
  /\ \A c \in Consumers : pc[c] \in {"idle", "locking", "waiting"}
  /\ got \in [Consumers -> Items]

(* While a consumer sleeps, every item in the queue has a thread that will *)
(* act for it: a producer that is about to notify or a consumer that is    *)
(* about to look.  push() notifies outside the mutex, so this is what      *)
(* keeps a wakeup from being lost between the two.                         *)
NoLostWakeup ==
  At("waiting") # {} =>
    Len(m_queue) <= Cardinality(At("notifying")) + Cardinality(At("locking"))

(* The monitor is a blocking queue: pop() returns the items of push(), each *)
(* once and in order, and some caller is always served while there are      *)
(* items.                                                                   *)
Queue == INSTANCE BlockingQueue WITH
  queue <- m_queue, asking <- At("locking") \cup At("waiting")

IsABlockingQueue == Queue!FairSpec
=============================================================================
