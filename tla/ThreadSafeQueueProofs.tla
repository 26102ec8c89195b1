------------------------ MODULE ThreadSafeQueueProofs ------------------------
(***************************************************************************)
(* For any numbers of producers and consumers: the types, that no wakeup   *)
(* is lost, and that every step of the monitor is a step of a blocking     *)
(* queue or none.                                                          *)
(***************************************************************************)
EXTENDS ThreadSafeQueue, FiniteSetTheorems, SequenceTheorems, TLAPS

Labels == {"idle", "notifying", "locking", "waiting"}

-----------------------------------------------------------------------------
(* Types. *)

LEMMA InitType == Init => TypeOK
<1> SUFFICES ASSUME Init PROVE TypeOK
  OBVIOUS
<1>1. m_queue \in Seq(Items) /\ Len(m_queue) = 0
  BY EmptySeq DEF Init
<1>2. Len(m_queue) <= MaxLength
  BY <1>1, LengthAssumption
<1> QED
  BY <1>1, <1>2 DEF Init, TypeOK, Threads

LEMMA NextType == TypeOK /\ [Next]_vars => TypeOK'
<1> SUFFICES ASSUME TypeOK, [Next]_vars PROVE TypeOK'
  OBVIOUS
<1> USE ThreadsAssumption, LengthAssumption DEF TypeOK
<1>1. ASSUME NEW p \in Producers, NEW x \in Items, Push(p, x) PROVE TypeOK'
  <2>1. m_queue' \in Seq(Items) /\ Len(m_queue') = Len(m_queue) + 1
    BY <1>1, AppendProperties DEF Push
  <2>2. Len(m_queue) \in Nat /\ Len(m_queue) < MaxLength
    BY <1>1, LenProperties DEF Push
  <2> QED
    BY <1>1, <2>1, <2>2 DEF Push, Threads
<1>2. ASSUME NEW p \in Producers, Notify(p) PROVE TypeOK'
  <2>1. CASE pc' = [pc EXCEPT ![p] = "idle"] /\ At("waiting") = {}
    BY <1>2, <2>1 DEF Notify, Threads
  <2>2. ASSUME NEW c \in At("waiting"), pc' = [pc EXCEPT ![p] = "idle", ![c] = "locking"]
        PROVE  TypeOK'
    <3>1. c \in Threads /\ pc[c] = "waiting"
      BY <2>2 DEF At
    <3>2. c \in Consumers /\ c \notin Producers
      BY <3>1 DEF Threads
    <3> QED
      BY <1>2, <2>2, <3>2 DEF Notify, Threads
  <2> QED
    BY <1>2, <2>1, <2>2 DEF Notify
<1>3. ASSUME NEW c \in Consumers, CallPop(c) PROVE TypeOK'
  BY <1>3 DEF CallPop, Threads
<1>4. ASSUME NEW c \in Consumers, Pop(c) PROVE TypeOK'
  <2>1. /\ Head(m_queue) \in Items
        /\ m_queue' \in Seq(Items) /\ Len(m_queue') = Len(m_queue) - 1
    BY <1>4, HeadTailProperties DEF Pop, WithoutFront
  <2>2. Len(m_queue) \in Nat
    BY LenProperties
  <2> QED
    BY <1>4, <2>1, <2>2 DEF Pop, Threads
<1>5. ASSUME NEW c \in Consumers, Wait(c) PROVE TypeOK'
  BY <1>5 DEF Wait, Threads
<1>6. ASSUME NEW c \in Consumers, SpuriousWakeup(c) PROVE TypeOK'
  BY <1>6 DEF SpuriousWakeup, Threads
<1>7. CASE UNCHANGED vars
  BY <1>7 DEF vars
<1> QED
  BY <1>1, <1>2, <1>3, <1>4, <1>5, <1>6, <1>7 DEF Next, ConsumerNext

(* Every variable keeps to its type (see TypeOK) in every reachable state. *)
THEOREM TypeCorrect == Spec => []TypeOK
<1> QED
  BY InitType, NextType, PTL DEF Spec

-----------------------------------------------------------------------------
(* Wakeups. *)

LEMMA FiniteAt == ASSUME NEW l PROVE IsFiniteSet(At(l)) /\ IsFiniteSet(At(l)')
<1>1. IsFiniteSet(Threads)
  BY ThreadsAssumption, FS_Union DEF Threads
<1>2. At(l) \in SUBSET Threads /\ At(l)' \in SUBSET Threads
  BY DEF At
<1> QED
  BY <1>1, <1>2, FS_Subset

(* What moving one thread from a label to another does to the numbers of   *)
(* threads there.                                                          *)
LEMMA Moved ==
  ASSUME TypeOK, NEW t \in Threads, NEW from \in Labels, NEW to \in Labels,
         from # to, pc[t] = from, pc' = [pc EXCEPT ![t] = to]
  PROVE  /\ Cardinality(At(to)') = Cardinality(At(to)) + 1
         /\ Cardinality(At(from)') = Cardinality(At(from)) - 1
         /\ \A l \in Labels \ {from, to} : At(l)' = At(l)
<1>1. At(to)' = At(to) \cup {t} /\ t \notin At(to)
  BY DEF At, TypeOK
<1>2. At(from)' = At(from) \ {t} /\ t \in At(from)
  BY DEF At, TypeOK
<1>3. \A l \in Labels \ {from, to} : At(l)' = At(l)
  BY DEF At, TypeOK
<1>4. IsFiniteSet(At(to)) /\ IsFiniteSet(At(from))
  BY FiniteAt
<1>5. Cardinality(At(to)') = Cardinality(At(to)) + 1
  BY <1>1, <1>4, FS_AddElement
<1>6. Cardinality(At(from)') = Cardinality(At(from)) - 1
  BY <1>2, <1>4, FS_RemoveElement
<1> QED
  BY <1>3, <1>5, <1>6

LEMMA InitWakeup == Init => NoLostWakeup
<1> SUFFICES ASSUME Init PROVE At("waiting") = {}
  BY DEF NoLostWakeup
<1> QED
  BY DEF Init, At

LEMMA NextWakeup == TypeOK /\ NoLostWakeup /\ [Next]_vars => NoLostWakeup'
<1> SUFFICES ASSUME TypeOK, NoLostWakeup, [Next]_vars, At("waiting")' # {}
             PROVE  Len(m_queue') <= Cardinality(At("notifying")') + Cardinality(At("locking")')
  BY DEF NoLostWakeup
<1> DEFINE N == Cardinality(At("notifying"))
           L == Cardinality(At("locking"))
<1>a. N \in Nat /\ L \in Nat /\ Len(m_queue) \in Nat
  BY FiniteAt, FS_CardinalityType, LenProperties DEF TypeOK
<1>b. At("waiting") # {} => Len(m_queue) <= N + L
  BY DEF NoLostWakeup
<1>1. ASSUME NEW p \in Producers, NEW x \in Items, Push(p, x)
      PROVE  Len(m_queue') <= Cardinality(At("notifying")') + Cardinality(At("locking")')
  <2>1. Len(m_queue') = Len(m_queue) + 1
    BY <1>1, AppendProperties DEF Push, TypeOK
  <2>2. p \in Threads /\ pc[p] = "idle" /\ pc' = [pc EXCEPT ![p] = "notifying"]
    BY <1>1 DEF Push, Threads
  <2>3. /\ Cardinality(At("notifying")') = N + 1
        /\ At("locking")' = At("locking") /\ At("waiting")' = At("waiting")
    BY <2>2, Moved DEF Labels
  <2> QED
    BY <2>1, <2>3, <1>a, <1>b
<1>2. ASSUME NEW p \in Producers, Notify(p)
      PROVE  Len(m_queue') <= Cardinality(At("notifying")') + Cardinality(At("locking")')
  <2>1. p \in Threads /\ pc[p] = "notifying" /\ m_queue' = m_queue
    BY <1>2 DEF Notify, Threads
  <2>2. ASSUME At("waiting") = {}, pc' = [pc EXCEPT ![p] = "idle"] PROVE FALSE
    <3>1. At("waiting")' = At("waiting")
      BY <2>1, <2>2, Moved DEF Labels
    <3> QED
      BY <2>2, <3>1
  <2>3. PICK c \in At("waiting") : pc' = [pc EXCEPT ![p] = "idle", ![c] = "locking"]
    BY <1>2, <2>2 DEF Notify
  <2>4. c \in Threads /\ pc[c] = "waiting" /\ c # p
    BY <2>1, <2>3 DEF At
  <2>5. /\ At("notifying")' = At("notifying") \ {p} /\ p \in At("notifying")
        /\ At("locking")' = At("locking") \cup {c} /\ c \notin At("locking")
    BY <2>1, <2>3, <2>4 DEF At, TypeOK
  <2>6. Cardinality(At("notifying")') = N - 1 /\ Cardinality(At("locking")') = L + 1
    BY <2>5, FiniteAt, FS_AddElement, FS_RemoveElement
  <2> QED
    BY <2>1, <2>3, <2>6, <1>a, <1>b
<1>3. ASSUME NEW c \in Consumers, CallPop(c) \/ SpuriousWakeup(c)
      PROVE  Len(m_queue') <= Cardinality(At("notifying")') + Cardinality(At("locking")')
  <2>1. /\ c \in Threads /\ pc[c] \in {"idle", "waiting"} /\ m_queue' = m_queue
        /\ pc' = [pc EXCEPT ![c] = "locking"]
    BY <1>3 DEF CallPop, SpuriousWakeup, Threads
  <2>2. Cardinality(At("locking")') = L + 1 /\ At("notifying")' = At("notifying")
    BY <2>1, Moved DEF Labels
  <2>3. At("waiting") # {}
    BY <2>1 DEF At, TypeOK
  <2> QED
    BY <2>1, <2>2, <2>3, <1>a, <1>b
<1>4. ASSUME NEW c \in Consumers, Pop(c)
      PROVE  Len(m_queue') <= Cardinality(At("notifying")') + Cardinality(At("locking")')
  <2>1. Len(m_queue') = Len(m_queue) - 1
    BY <1>4, HeadTailProperties DEF Pop, WithoutFront, TypeOK
  <2>2. c \in Threads /\ pc[c] = "locking" /\ pc' = [pc EXCEPT ![c] = "idle"]
    BY <1>4 DEF Pop, Threads
  <2>3. /\ Cardinality(At("locking")') = L - 1
        /\ At("notifying")' = At("notifying") /\ At("waiting")' = At("waiting")
    BY <2>2, Moved DEF Labels
  <2> QED
    BY <2>1, <2>3, <1>a, <1>b
<1>5. ASSUME NEW c \in Consumers, Wait(c)
      PROVE  Len(m_queue') <= Cardinality(At("notifying")') + Cardinality(At("locking")')
  <2>1. Len(m_queue') = 0
    BY <1>5, EmptySeq DEF Wait
  <2>2. Cardinality(At("notifying")') \in Nat /\ Cardinality(At("locking")') \in Nat
    BY FiniteAt, FS_CardinalityType
  <2> QED
    BY <2>1, <2>2
<1>6. CASE UNCHANGED vars
  <2>1. m_queue' = m_queue /\ \A k : At(k)' = At(k)
    BY <1>6 DEF vars, At
  <2> QED
    BY <2>1, <1>b
<1> QED
  BY <1>1, <1>2, <1>3, <1>4, <1>5, <1>6 DEF Next, ConsumerNext

(* No wakeup is lost: while a consumer sleeps there are as many threads    *)
(* about to notify or about to look as there are items in the queue.       *)
THEOREM WakeupsKept == Spec => []NoLostWakeup
<1> QED
  BY InitType, NextType, InitWakeup, NextWakeup, PTL DEF Spec

-----------------------------------------------------------------------------
(* Refinement. *)

LEMMA InitRefines == Init => Queue!Init
<1> QED
  BY DEF Init, Queue!Init, At

LEMMA NextRefines == TypeOK /\ [Next]_vars => [Queue!Next]_(Queue!vars)
<1> DEFINE asking == At("locking") \cup At("waiting")
<1> SUFFICES ASSUME TypeOK, [Next]_vars PROVE [Queue!Next]_(Queue!vars)
  OBVIOUS
<1>1. ASSUME NEW p \in Producers, NEW x \in Items, Push(p, x) PROVE Queue!Put(x)
  <2>1. asking' = asking
    BY <1>1, ThreadsAssumption DEF Push, At, TypeOK
  <2> QED
    BY <1>1, <2>1 DEF Push, Queue!Put
<1>2. ASSUME NEW p \in Producers, Notify(p) PROVE UNCHANGED Queue!vars
  <2>1. asking' = asking
    BY <1>2 DEF Notify, At, TypeOK
  <2> QED
    BY <1>2, <2>1 DEF Notify, Queue!vars
<1>3. ASSUME NEW c \in Consumers, CallPop(c) PROVE Queue!Ask(c)
  <2>1. c \notin asking /\ asking' = asking \cup {c}
    BY <1>3 DEF CallPop, At, TypeOK, Threads
  <2> QED
    BY <1>3, <2>1 DEF CallPop, Queue!Ask
<1>4. ASSUME NEW c \in Consumers, Pop(c) PROVE Queue!Take(c)
  <2>1. c \in asking /\ asking' = asking \ {c}
    BY <1>4 DEF Pop, At, TypeOK, Threads
  <2> QED
    BY <1>4, <2>1 DEF Pop, Queue!Take, WithoutFront
<1>5. ASSUME NEW c \in Consumers, Wait(c) \/ SpuriousWakeup(c) PROVE UNCHANGED Queue!vars
  <2>1. asking' = asking
    BY <1>5 DEF Wait, SpuriousWakeup, At, TypeOK
  <2> QED
    BY <1>5, <2>1 DEF Wait, SpuriousWakeup, Queue!vars
<1>6. CASE UNCHANGED vars
  BY <1>6 DEF vars, Queue!vars, At
<1> QED
  BY <1>1, <1>2, <1>3, <1>4, <1>5, <1>6 DEF Next, ConsumerNext, Queue!Next

(* The safety half of IsABlockingQueue: pop() returns the items of push(), *)
(* each once and in order.                                                 *)
THEOREM RefinesBlockingQueue == Spec => Queue!Spec
<1> QED
  BY InitType, NextType, InitRefines, NextRefines, PTL DEF Spec, Queue!Spec
=============================================================================
