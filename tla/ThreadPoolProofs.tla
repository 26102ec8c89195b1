-------------------------- MODULE ThreadPoolProofs --------------------------
(***************************************************************************)
(* Theorems about ThreadPool, for any number of workers and of runs.       *)
(***************************************************************************)
EXTENDS ThreadPool, TLAPS

Labels == {"none", "starting", "looping", "calling", "leaving", "exited"}
Live(w) == pc[w] \notin {"none", "exited"}

\* The thread that the last run() created, or will create, for id k.
Current(k) == <<runs, k>>

\* Worker <<r, k>> has id k, and only workers of the last run() are alive.
WorkersOK ==
  \A r \in 1 .. MaxRuns, k \in Ids :
    /\ pc[<<r, k>>] # "none" => id[<<r, k>>] = k
    /\ r < runs => pc[<<r, k>>] \in {"none", "exited"}
    /\ r > runs => pc[<<r, k>>] = "none"
    /\ r = runs /\ m_running => pc[<<r, k>>] \notin {"leaving", "exited"}

\* What the owner has done tells which threads exist and which have ended.
OwnerOK ==
  /\ owner = "idle" => slots = 0 /\ \A w \in Workers : ~Live(w)
  /\ owner = "spawning" =>
       /\ m_running /\ runs > 0 /\ slots = i /\ i < m_workers
       /\ \A k \in Ids : k >= i => pc[Current(k)] = "none"
  /\ owner = "appending" =>
       /\ m_running /\ runs > 0 /\ slots = i /\ i < m_workers
       /\ \A k \in Ids : k > i => pc[Current(k)] = "none"
  /\ owner = "running" => m_running /\ runs > 0 /\ slots = m_workers
  /\ owner = "joining" =>
       /\ ~m_running /\ i <= slots
       /\ \/ slots = m_workers /\ runs > 0
          \/ slots = 0 /\ \A w \in Workers : ~Live(w)
       /\ \A k \in Ids : k < i => ~Live(Current(k))

IInv == TypeOK /\ WorkersOK /\ OwnerOK

LEMMA InitInv == Init => IInv
<1> SUFFICES ASSUME Init PROVE IInv
  OBVIOUS
<1> USE WorkersAssumption, RunsAssumption
<1>1. \A w \in Workers : pc[w] = "none"  BY DEF Init
<1>2. \A r \in 1 .. MaxRuns, k \in Ids : <<r, k>> \in Workers  BY DEF Workers
<1>3. 0 \in Ids  BY DEF Ids
<1>4. TypeOK
  <2>1. 0 \in 0 .. m_workers /\ 0 \in 0 .. MaxRuns  OBVIOUS
  <2> QED  BY <1>3, <2>1 DEF Init, TypeOK
<1>5. WorkersOK  BY <1>1, <1>2 DEF Init, WorkersOK
<1>6. OwnerOK  BY <1>1 DEF Init, OwnerOK, Live
<1> QED  BY <1>4, <1>5, <1>6 DEF IInv

LEMMA OwnerInv == IInv /\ OwnerNext => IInv'
<1> SUFFICES ASSUME IInv, OwnerNext  PROVE IInv'
  OBVIOUS
<1> USE WorkersAssumption, RunsAssumption
<1>1. CASE run
  BY <1>1 DEF run, IInv, TypeOK, WorkersOK, OwnerOK, Workers, Ids, Live, Current
<1>2. CASE Spawn
  BY <1>2 DEF Spawn, IInv, TypeOK, WorkersOK, OwnerOK, Workers, Ids, Live, Current
<1>3. CASE Append
  BY <1>3 DEF Append, MoreToSpawn, IInv, TypeOK, WorkersOK, OwnerOK, Workers, Ids, Live, Current
<1>4. CASE stop
  <2>1. TypeOK'
    <3>1. 0 \in 0 .. m_workers  OBVIOUS
    <3> QED  BY <1>4, <3>1 DEF stop, IInv, TypeOK
  <2>2. WorkersOK'  BY <1>4 DEF stop, IInv, WorkersOK
  <2>3. OwnerOK'  BY <1>4 DEF stop, IInv, TypeOK, OwnerOK, Ids, Live, Current
  <2> QED  BY <2>1, <2>2, <2>3 DEF IInv
<1>5. CASE Join
  <2>1. TypeOK'  BY <1>5 DEF Join, IInv, TypeOK, OwnerOK
  <2>2. WorkersOK'  BY <1>5 DEF Join, IInv, WorkersOK
  <2>3. OwnerOK'  BY <1>5 DEF Join, IInv, TypeOK, OwnerOK, Ids, Live, Current
  <2> QED  BY <2>1, <2>2, <2>3 DEF IInv
<1>6. CASE Clear
  BY <1>6 DEF Clear, JoinedAll, IInv, TypeOK, WorkersOK, OwnerOK, Workers, Ids, Live, Current
<1> QED  BY <1>1, <1>2, <1>3, <1>4, <1>5, <1>6 DEF OwnerNext

\* The labels a worker may have next.
Moves(from, to) ==
  \/ from = "starting" /\ to = "looping"
  \/ from = "looping" /\ to = "calling" /\ m_running
  \/ from = "calling" /\ to = "looping"
  \/ from = "looping" /\ to = "leaving" /\ ~m_running
  \/ from = "leaving" /\ to = "exited"

LEMMA WorkerInv == IInv /\ (\E w \in Workers : WorkerNext(w)) => IInv'
<1> SUFFICES ASSUME IInv, NEW w \in Workers, WorkerNext(w)  PROVE IInv'
  OBVIOUS
<1> USE WorkersAssumption, RunsAssumption
<1>1. /\ UNCHANGED <<m_running, slots, owner, i, runs, id>>
      /\ \E to \in Labels : Moves(pc[w], to) /\ pc' = [pc EXCEPT ![w] = to]
  BY DEF WorkerNext, Enter, Call, CallbackReturns, Leave, Exit, Moves, Labels
<1>2. status' \in [Ids -> {"IDLE", "RUNNING"}]
  BY DEF WorkerNext, Enter, Call, CallbackReturns, Leave, Exit, SetStatus, IInv, TypeOK
<1>3. PICK to \in Labels : Moves(pc[w], to) /\ pc' = [pc EXCEPT ![w] = to]
  BY <1>1
<1>4. TypeOK'
  BY <1>1, <1>2, <1>3 DEF IInv, TypeOK, Labels
<1>5. WorkersOK'
  BY <1>1, <1>3 DEF IInv, TypeOK, WorkersOK, Moves, Workers
<1>6. OwnerOK'
  BY <1>1, <1>3 DEF IInv, TypeOK, OwnerOK, Moves, Live, Current, Workers, Ids
<1> QED  BY <1>4, <1>5, <1>6 DEF IInv

LEMMA StepInv == IInv /\ [Next]_vars => IInv'
<1>1. IInv /\ UNCHANGED vars => IInv'
  BY DEF vars, IInv, TypeOK, WorkersOK, OwnerOK, Live, Current
<1> QED  BY <1>1, OwnerInv, WorkerInv DEF Next

(* The types hold in every reachable state. *)
THEOREM TypeCorrect == Spec => []TypeOK
<1>1. IInv => TypeOK  BY DEF IInv
<1> QED  BY <1>1, InitInv, StepInv, PTL DEF Spec

(* No two live threads have the same id (ThreadPool.cpp:31), so that only  *)
(* one worker pops from each of m_assembling_queues.                       *)
THEOREM IdsDistinct == Spec => []OneThreadPerId
<1>1. IInv => OneThreadPerId
  BY WorkersAssumption, RunsAssumption
     DEF IInv, TypeOK, WorkersOK, OneThreadPerId, Workers, Ids
<1> QED  BY <1>1, InitInv, StepInv, PTL DEF Spec

(* stop() waits for every worker, and m_threads keeps the slot of a worker *)
(* until its last write to it (ThreadPool.cpp:36-48).                      *)
THEOREM StopWaits == Spec => []StopWaitsForAll
<1>1. IInv => StopWaitsForAll
  BY WorkersAssumption, RunsAssumption
     DEF IInv, TypeOK, WorkersOK, OwnerOK, StopWaitsForAll, Workers, Ids, Live, Current
<1> QED  BY <1>1, InitInv, StepInv, PTL DEF Spec
=============================================================================
