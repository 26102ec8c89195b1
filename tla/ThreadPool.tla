----------------------------- MODULE ThreadPool -----------------------------
(***************************************************************************)
(* A pool of workers that call m_callback(id) until stop() is called.      *)
(* TCPServer gives worker id the queue m_assembling_queues[id], and main() *)
(* runs the application in a second pool.                                  *)
(*                                                                         *)
(* run() and stop() are called by one thread, the owner, which calls run() *)
(* when the pool is stopped, as the program does (run() does not look);    *)
(* the destructor is stop().  A worker thread is <<r, i>>: the one that    *)
(* the r-th run() created for id i.  The callback is not modelled: it      *)
(* returns when it likes.                                                  *)
(*                                                                         *)
(* run() creates the thread before its ThreadContext is in m_threads, and  *)
(* push_back may move the vector, while the thread writes                  *)
(* m_threads[id].status.  That is a data race: the write is lost if the    *)
(* slot is not there yet and may be lost while push_back runs.             *)
(***************************************************************************)
EXTENDS Integers

CONSTANTS
  m_workers,   \* number of workers of a run
  MaxRuns      \* bound: calls of run()

ASSUME WorkersAssumption == m_workers \in Nat \ {0}   \* the constructor throws otherwise
ASSUME RunsAssumption == MaxRuns \in Nat

Ids == 0 .. m_workers - 1
Workers == (1 .. MaxRuns) \X Ids

VARIABLES
  m_running,
  slots,       \* m_threads.size()
  status,      \* m_threads[id].status, for id < slots
  owner,       \* where the owner is
  i,           \* the loop variable of run(), or the next slot stop() joins
  runs,        \* calls of run() so far
  pc,          \* where each worker thread is
  id           \* the id a worker thread captured

vars == <<m_running, slots, status, owner, i, runs, pc, id>>

Init ==
  /\ m_running = FALSE
  /\ slots = 0
  /\ status = [k \in Ids |-> "IDLE"]
  /\ owner = "idle" /\ i = 0 /\ runs = 0
  /\ pc = [w \in Workers |-> "none"]
  /\ id = [w \in Workers |-> 0]

-----------------------------------------------------------------------------
(* run() *)

\* Mutant: the pool starts without m_running.
RunStopped ==
  /\ owner = "idle" /\ runs < MaxRuns
  /\ owner' = "spawning" /\ i' = 0 /\ runs' = runs + 1
  /\ UNCHANGED <<m_running, slots, status, pc, id>>

run ==
  /\ owner = "idle" /\ runs < MaxRuns
  /\ m_running' = TRUE
  /\ owner' = "spawning" /\ i' = 0 /\ runs' = runs + 1
  /\ UNCHANGED <<slots, status, pc, id>>

\* ctx.thread = std::thread(...): the thread may start at once.
Spawn ==
  /\ owner = "spawning"
  /\ pc' = [pc EXCEPT ![<<runs, i>>] = "starting"]
  /\ id' = [id EXCEPT ![<<runs, i>>] = i]
  /\ owner' = "appending"
  /\ UNCHANGED <<m_running, slots, status, i, runs>>

MoreThanAllToSpawn(n) == n <= m_workers
MoreToSpawn(n) == n < m_workers

\* m_threads.push_back
Append ==
  /\ owner = "appending"
  /\ slots' = slots + 1
  /\ status' = [status EXCEPT ![i] = "IDLE"]
  /\ i' = i + 1
  /\ owner' = IF MoreToSpawn(i + 1) THEN "spawning" ELSE "running"
  /\ UNCHANGED <<m_running, runs, pc, id>>

-----------------------------------------------------------------------------
(* stop() *)

StopKeepsRunning ==
  /\ owner \in {"running", "idle"}
  /\ owner' = "joining" /\ i' = 0
  /\ UNCHANGED <<m_running, slots, status, runs, pc, id>>

\* Also the stop() of the destructor, of a pool that runs or not.
stop ==
  /\ owner \in {"running", "idle"}
  /\ m_running' = FALSE
  /\ owner' = "joining" /\ i' = 0
  /\ UNCHANGED <<slots, status, runs, pc, id>>

Join ==
  /\ owner = "joining" /\ i < slots
  /\ pc[<<runs, i>>] = "exited"
  /\ i' = i + 1
  /\ UNCHANGED <<m_running, slots, status, owner, runs, pc, id>>

JoinedAllButOne == i + 1 >= slots
JoinedAll == i = slots

\* m_threads.clear()
Clear ==
  /\ owner = "joining" /\ JoinedAll
  /\ slots' = 0
  /\ owner' = "idle"
  /\ UNCHANGED <<m_running, status, i, runs, pc, id>>

-----------------------------------------------------------------------------
(* worker(id) *)

\* m_threads[id].status = value
SetStatus(w, value) ==
  \/ /\ id[w] < slots
     /\ status' = [status EXCEPT ![id[w]] = value]
  \/ /\ id[w] >= slots \/ owner = "appending"
     /\ UNCHANGED status

Enter(w) ==
  /\ pc[w] = "starting"
  /\ SetStatus(w, "RUNNING")
  /\ pc' = [pc EXCEPT ![w] = "looping"]
  /\ UNCHANGED <<m_running, slots, owner, i, runs, id>>

\* while (m_running)
Call(w) ==
  /\ pc[w] = "looping" /\ m_running
  /\ pc' = [pc EXCEPT ![w] = "calling"]
  /\ UNCHANGED <<m_running, slots, status, owner, i, runs, id>>

CallbackReturns(w) ==
  /\ pc[w] = "calling"
  /\ pc' = [pc EXCEPT ![w] = "looping"]
  /\ UNCHANGED <<m_running, slots, status, owner, i, runs, id>>

Leave(w) ==
  /\ pc[w] = "looping" /\ ~m_running
  /\ pc' = [pc EXCEPT ![w] = "leaving"]
  /\ UNCHANGED <<m_running, slots, status, owner, i, runs, id>>

Exit(w) ==
  /\ pc[w] = "leaving"
  /\ SetStatus(w, "IDLE")
  /\ pc' = [pc EXCEPT ![w] = "exited"]
  /\ UNCHANGED <<m_running, slots, owner, i, runs, id>>

-----------------------------------------------------------------------------
OwnerNext == run \/ Spawn \/ Append \/ stop \/ Join \/ Clear

WorkerNext(w) == Enter(w) \/ Call(w) \/ CallbackReturns(w) \/ Leave(w) \/ Exit(w)

Next == OwnerNext \/ \E w \in Workers : WorkerNext(w)

Spec == Init /\ [][Next]_vars

\* Threads run; nobody has to call run() or stop(), and no callback has to return.
FairSpec ==
  /\ Spec
  /\ WF_vars(Spawn \/ Append \/ Join \/ Clear)
  /\ \A w \in Workers : WF_vars(Enter(w) \/ Call(w) \/ Leave(w) \/ Exit(w))

-----------------------------------------------------------------------------
(* Every variable keeps to its type. *)
TypeOK ==
  /\ m_running \in BOOLEAN
  /\ slots \in 0 .. m_workers
  /\ status \in [Ids -> {"IDLE", "RUNNING"}]
  /\ owner \in {"idle", "spawning", "appending", "running", "joining"}
  /\ i \in 0 .. m_workers
  /\ runs \in 0 .. MaxRuns
  /\ pc \in [Workers -> {"none", "starting", "looping", "calling", "leaving", "exited"}]
  /\ id \in [Workers -> Ids]

(* Each id is held by one live thread at a time, over any sequence of      *)
(* run() and stop(): assemblerWorker(id) takes it that nobody else pops    *)
(* from m_assembling_queues[id].                                           *)
OneThreadPerId ==
  \A v, w \in Workers :
    /\ pc[v] \notin {"none", "exited"} /\ pc[w] \notin {"none", "exited"}
    /\ id[v] = id[w]
    => v = w

(* stop() returns only when every worker has ended, and the last write of  *)
(* a worker to m_threads[id] finds its slot.                               *)
StopWaitsForAll ==
  \A w \in Workers :
    /\ owner = "idle" => pc[w] \in {"none", "exited"}
    /\ pc[w] = "leaving" => id[w] < slots

(* stop() returns, provided that every call of the callback returns.  With *)
(* next() as callback that takes one more request for each worker.         *)
CallbacksReturn == \A w \in Workers : []<>(pc[w] # "calling")
StopReturns == CallbacksReturn => (owner = "joining" ~> owner = "idle")
=============================================================================
