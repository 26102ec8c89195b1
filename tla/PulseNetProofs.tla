---------------------------- MODULE PulseNetProofs ----------------------------
(***************************************************************************)
(* Theorems about PulseNet, for any number of workers, connections and     *)
(* requests, and whatever lines the configuration file has.                *)
(***************************************************************************)
EXTENDS PulseNet, FiniteSetTheorems, SequenceTheorems, TLAPS

PoolProofs == INSTANCE ThreadPoolProofs WITH m_workers <- NumApps, MaxRuns <- 1

-----------------------------------------------------------------------------
(* The inductive invariant. *)

\* The worker of the pool's only run() that has id k.
Worker(k) == <<1, k>>
Ids == 0 .. NumApps - 1

BeforePool == {"logger", "config", "read", "socket", "listen", "first accept", "listener",
               "assemblers"}

\* What main() has done tells what its pool is doing.
PoolPhase ==
  /\ main \in BeforePool \cup {"failed"} => runs = 0
  /\ main \in BeforePool \cup {"failed", "pool"} => late = 0
  /\ main = "pool" =>
       \/ owner = "idle" /\ runs = 0
       \/ owner \in {"spawning", "appending"}
  /\ main = "console" => owner = "running"
  /\ main = "leaving" => owner \in {"running", "joining"}
  /\ main = "destroying server" =>
       owner = "idle" /\ \A k \in Ids : pc[Worker(k)] = "exited"

\* The threads that run() has created exist, and joining covers them all.
Spawned ==
  /\ runs = 0 => owner = "idle"
  /\ owner \in {"spawning", "appending"} => \A k \in Ids : k < i => pc[Worker(k)] # "none"
  /\ owner = "appending" => pc[Worker(i)] # "none"
  /\ owner \in {"running", "joining"} =>
       slots = NumApps /\ \A k \in Ids : pc[Worker(k)] # "none"

PoolInv == PoolProofs!IInv /\ PoolPhase /\ Spawned

\* Where the one AcceptContext of the listener is.
NotPosted == accepting = {} /\ accepted = {}
Posted ==
  /\ accepting \cup accepted = {m_accept_ctx} /\ accepting \cap accepted = {}
  /\ m_accept_ctx \in Addresses
NoAccept == NotPosted /\ m_pending_accepts = 0
OneAccept == Posted /\ m_pending_accepts = 1

BeforeAccept == {"logger", "config", "read", "socket", "listen", "first accept"}
WithPool == {"pool", "console", "leaving", "destroying server"}
WithListener == {"assemblers"} \cup WithPool

\* Before there is a listener, by what main() has done; then by where the listener is.
StartInv ==
  /\ main \in BeforeAccept => listener = "none" /\ NoAccept /\ ~acceptFailed
  /\ main = "listener" => listener = "none" /\ OneAccept /\ ~acceptFailed
  /\ main \in WithListener => listener # "none"
  /\ main = "terminated" /\ listener = "none" => NoAccept
  /\ main = "failed" /\ listener = "none" =>
       IF acceptFailed THEN NotPosted /\ m_pending_accepts = 1 ELSE NoAccept \/ OneAccept
ListenerInv ==
  /\ listener = "rearming" => NoAccept /\ (~Terminated => ~acceptFailed)
  /\ listener = "counting" => Posted /\ m_pending_accepts = 0 /\ ~acceptFailed
  /\ listener = "waiting" => IF acceptFailed THEN NoAccept ELSE OneAccept
AcceptInv ==
  /\ StartInv /\ ListenerInv
  /\ main \in BeforeAccept \cup {"listener", "failed", "terminated"} \cup WithListener
  /\ listener \in {"none", "waiting", "rearming", "counting"}
  /\ accepted # {} => connections < MaxConnections

\* Since the pool was told to stop, each worker has taken its last request or will.
Calling == {k \in Ids : pc[Worker(k)] = "calling"}
LateInv ==
  /\ late + Cardinality(Calling) <= NumApps
  /\ m_running => late = 0

Afterwards == {"socket", "listen", "first accept", "listener", "assemblers", "pool", "console"}
ConfigInv ==
  /\ main \in {"logger", "config"} => file \in Files \cup {NoFile}
  /\ main \in {"read"} \cup Afterwards => file \in Files \cup {DefaultFile}
  /\ main \in Afterwards => m_config = read(file)

\* m_assembler_thread_pool.run() is not done before main() goes on.
AssemblersInv == main \in BeforePool => assemblers < NumAssemblers

IInv == TypeOK /\ PoolInv /\ AcceptInv /\ LateInv /\ ConfigInv /\ AssemblersInv

-----------------------------------------------------------------------------
(* The pool of the program is a ThreadPool.  The operators of the instance *)
(* in PulseNet and of the one here are the same.                           *)

LEMMA SamePool ==
  /\ Pool!Init <=> PoolProofs!Init
  /\ Pool!Next <=> PoolProofs!Next
  /\ Pool!TypeOK <=> PoolProofs!TypeOK
  /\ Pool!TypeOK' <=> PoolProofs!TypeOK'
  BY DEF Pool!Init, PoolProofs!Init, Pool!TypeOK, PoolProofs!TypeOK, Pool!Next, PoolProofs!Next,
         Pool!OwnerNext, PoolProofs!OwnerNext, Pool!WorkerNext, PoolProofs!WorkerNext,
         Pool!Workers, PoolProofs!Workers, Pool!Ids, PoolProofs!Ids,
         Pool!run, PoolProofs!run, Pool!Spawn, PoolProofs!Spawn, Pool!Append, PoolProofs!Append,
         Pool!MoreToSpawn, PoolProofs!MoreToSpawn, Pool!stop, PoolProofs!stop,
         Pool!Join, PoolProofs!Join, Pool!JoinedAll, PoolProofs!JoinedAll,
         Pool!Clear, PoolProofs!Clear, Pool!SetStatus, PoolProofs!SetStatus,
         Pool!Enter, PoolProofs!Enter, Pool!Call, PoolProofs!Call,
         Pool!CallbackReturns, PoolProofs!CallbackReturns,
         Pool!Leave, PoolProofs!Leave, Pool!Exit, PoolProofs!Exit

\* What a worker of the pool does in the program.
LEMMA AppSteps ==
  ASSUME NEW w \in Pool!Workers, AppNext(w)
  PROVE  /\ Pool!WorkerNext(w) /\ UNCHANGED <<main, config, printed, server>>
         /\ \/ Answer(w)
            \/ ~Pool!CallbackReturns(w) /\ UNCHANGED requests
  BY DEF AppNext, Answer, Pool!WorkerNext, Pool!Enter, Pool!Call, Pool!CallbackReturns,
         Pool!Leave, Pool!Exit

\* Steps in which nothing happens to the pool.
Elsewhere ==
  \/ OpenLogs \/ OpenConfig \/ ReadConfig
  \/ setupSocket \/ listen \/ FirstAccept
  \/ StartListener \/ StartAssembler \/ SpawnFails
  \/ \E command \in Commands \cup {NoCommand} : EnterLine(command)
  \/ EndOfInput
  \/ AcceptExCompletes \/ AcceptConnection \/ Rearm \/ CountAccept
  \/ WarningEndsProcess \/ RequestArrives

LEMMA Steps ==
  Next => Elsewhere \/ RunPool \/ DestroyPool \/ \E w \in Pool!Workers : AppNext(w)
  BY DEF Next, MainNext, Elsewhere

LEMMA ElsewhereSteps == Elsewhere => UNCHANGED pool
  BY DEF Elsewhere, OpenLogs, OpenConfig, ReadConfig, setupSocket, listen, FirstAccept,
         StartListener, StartAssembler, SpawnFails, EnterLine, EndOfInput, AcceptExCompletes,
         AcceptConnection, Rearm, CountAccept, WarningEndsProcess, RequestArrives

LEMMA PoolSteps == [Next]_vars => [PoolProofs!Next]_pool
<1>1. CASE RunPool \/ DestroyPool
  BY <1>1, SamePool DEF RunPool, DestroyPool, Pool!Next, Pool!OwnerNext
<1>2. ASSUME NEW w \in Pool!Workers, AppNext(w) PROVE PoolProofs!Next
  BY <1>2, AppSteps, SamePool DEF Pool!Next
<1>3. CASE Elsewhere
  BY <1>3, ElsewhereSteps
<1> QED BY <1>1, <1>2, <1>3, Steps DEF vars

LEMMA PoolInvStep == PoolProofs!IInv /\ [Next]_vars => PoolProofs!IInv'
<1>1. [PoolProofs!Next]_pool <=> [PoolProofs!Next]_PoolProofs!vars
  BY DEF pool, PoolProofs!vars
<1> QED BY <1>1, PoolSteps, PoolProofs!StepInv, AppsAssumption

-----------------------------------------------------------------------------
(* main() and its pool.                                                    *)

LEMMA PoolWorkers ==
  /\ Pool!Workers = {Worker(k) : k \in Ids}
  /\ \A w \in Pool!Workers : w = Worker(w[2]) /\ w[2] \in Ids
  /\ Ids \subseteq Nat /\ IsFiniteSet(Ids) /\ Cardinality(Ids) = NumApps
<1>1. IsFiniteSet(Ids) /\ Cardinality(Ids) = NumApps
  BY FS_Interval, AppsAssumption DEF Ids
<1>2. Pool!Workers = {1} \X Ids
  BY DEF Pool!Workers, Pool!Ids, Ids
<1>3. Pool!Workers = {Worker(k) : k \in Ids}
  BY <1>2 DEF Worker
<1>4. \A w \in Pool!Workers : w = Worker(w[2]) /\ w[2] \in Ids
  BY <1>2 DEF Worker
<1>5. Ids \subseteq Nat
  BY AppsAssumption DEF Ids
<1> QED BY <1>1, <1>3, <1>4, <1>5

\* The types of the pool, in the terms used here.
LEMMA PoolTypes ==
  ASSUME PoolProofs!IInv
  PROVE  /\ m_running \in BOOLEAN /\ slots \in 0 .. NumApps /\ i \in 0 .. NumApps
         /\ runs \in 0 .. 1
         /\ pc \in [Pool!Workers -> PoolProofs!Labels]
         /\ owner \in {"idle", "spawning", "appending", "running", "joining"}
         /\ owner \in {"spawning", "appending"} => slots = i /\ i < NumApps /\ runs = 1 /\ m_running
         /\ owner = "running" => m_running /\ runs = 1
         /\ owner = "joining" => ~m_running /\ \A k \in Ids : k < i => pc[Worker(k)] \in {"none", "exited"}
         /\ runs = 0 => \A k \in Ids : pc[Worker(k)] = "none"
         /\ owner = "idle" => \A k \in Ids : pc[Worker(k)] \in {"none", "exited"}
<1>1. PoolProofs!TypeOK /\ PoolProofs!OwnerOK /\ PoolProofs!WorkersOK
  BY DEF PoolProofs!IInv
<1>2. /\ m_running \in BOOLEAN /\ slots \in 0 .. NumApps /\ i \in 0 .. NumApps
      /\ runs \in 0 .. 1
      /\ pc \in [Pool!Workers -> PoolProofs!Labels]
      /\ owner \in {"idle", "spawning", "appending", "running", "joining"}
  BY <1>1 DEF PoolProofs!TypeOK, PoolProofs!Labels, PoolProofs!Workers, Pool!Workers,
              PoolProofs!Ids, Pool!Ids
<1>3. /\ owner \in {"spawning", "appending"} => slots = i /\ i < NumApps /\ runs = 1 /\ m_running
      /\ owner = "running" => m_running /\ runs = 1
  BY <1>1, <1>2 DEF PoolProofs!OwnerOK
<1>4. runs = 0 => \A k \in Ids : pc[Worker(k)] = "none"
  <2>1. \A k \in Ids : 1 > runs => pc[Worker(k)] = "none"
    BY <1>1 DEF PoolProofs!WorkersOK, PoolProofs!Ids, Ids, Worker
  <2> QED BY <2>1
<1>5. owner = "idle" => \A k \in Ids : pc[Worker(k)] \in {"none", "exited"}
  BY <1>1, PoolWorkers DEF PoolProofs!OwnerOK, PoolProofs!Live, PoolProofs!Workers, Pool!Workers,
              PoolProofs!Ids, Pool!Ids
<1>6. owner = "joining" => ~m_running /\ \A k \in Ids : k < i => pc[Worker(k)] \in {"none", "exited"}
  BY <1>1, <1>2, <1>4 DEF PoolProofs!OwnerOK, PoolProofs!Live, PoolProofs!Current,
     PoolProofs!Ids, Ids, Worker
<1> QED BY <1>2, <1>3, <1>4, <1>5, <1>6

LEMMA ElsewherePool ==
  ASSUME PoolPhase, Spawned, Elsewhere
  PROVE  PoolPhase' /\ Spawned'
<1>1. UNCHANGED <<runs, late, owner, pc, slots, i>>
  BY DEF Elsewhere, OpenLogs, OpenConfig, ReadConfig, setupSocket, listen, FirstAccept,
         StartListener, StartAssembler, SpawnFails, EnterLine, EndOfInput, AcceptExCompletes,
         AcceptConnection, Rearm, CountAccept, WarningEndsProcess, RequestArrives, requests, pool
<1>2. Spawned'
  BY <1>1 DEF Spawned
<1>3. \/ main' = main \/ main' = "terminated"
      \/ main \in BeforePool /\ main' \in BeforePool \cup {"failed"}
      \/ main \in BeforePool /\ main' = "pool"
      \/ main = "console" /\ main' = "leaving"
  BY DEF Elsewhere, OpenLogs, OpenConfig, ReadConfig, setupSocket, listen, FirstAccept,
         StartListener, StartAssembler, SpawnFails, EnterLine, EndOfInput, AcceptExCompletes,
         AcceptConnection, Rearm, CountAccept, WarningEndsProcess, RequestArrives, BeforePool
<1>4. PoolPhase'
  BY <1>1, <1>2, <1>3 DEF PoolPhase, Spawned, BeforePool
<1> QED BY <1>2, <1>4

LEMMA RunPoolPool ==
  ASSUME PoolInv, RunPool
  PROVE  PoolPhase' /\ Spawned'
<1> USE AppsAssumption
<1>0. /\ PoolPhase /\ Spawned /\ PoolProofs!IInv
      /\ main = "pool" /\ main' = IF owner' = "running" THEN "console" ELSE main
      /\ late' = late
  BY DEF PoolInv, RunPool, requests
<1>1. CASE Pool!run
  BY <1>0, <1>1, PoolTypes DEF Pool!run, PoolPhase, Spawned, Ids, BeforePool
<1>2. CASE Pool!Spawn
  <2>1. pc' = [pc EXCEPT ![Worker(i)] = "starting"] /\ Worker(i) \in Pool!Workers
    BY <1>0, <1>2, PoolTypes, PoolWorkers DEF Pool!Spawn, Worker, Ids
  <2>2. \A k \in Ids : pc'[Worker(k)] = IF k = i THEN "starting" ELSE pc[Worker(k)]
    BY <1>0, <2>1, PoolTypes, PoolWorkers DEF Worker
  <2>3. owner = "spawning" /\ owner' = "appending" /\ UNCHANGED <<slots, i, runs>>
    BY <1>2 DEF Pool!Spawn
  <2>4. Worker(i)' = Worker(i) /\ i \in Ids
    BY <1>0, <2>3, PoolTypes DEF Worker, Ids
  <2>5. Spawned'
    BY <1>0, <2>2, <2>3, <2>4, PoolTypes DEF Spawned, Ids
  <2>6. PoolPhase'
    BY <1>0, <2>3, PoolTypes DEF PoolPhase, BeforePool
  <2> QED BY <2>5, <2>6
<1>3. CASE Pool!Append
  <2>1. /\ owner = "appending" /\ owner' = IF i + 1 < NumApps THEN "spawning" ELSE "running"
        /\ i' = i + 1 /\ slots' = slots + 1 /\ UNCHANGED <<runs, pc>>
    BY <1>3 DEF Pool!Append, Pool!MoreToSpawn
  <2>2. \A k \in Ids : k <= i => pc'[Worker(k)] # "none"
    BY <1>0, <2>1, PoolTypes DEF Spawned, Ids
  <2>4. runs = 1 /\ slots = i /\ i \in Nat /\ i < NumApps
    BY <1>0, <2>1, PoolTypes
  <2>5. \A k \in Ids : k < i + 1 => k <= i
    BY <2>4 DEF Ids
  <2>6. i + 1 >= NumApps => slots' = NumApps /\ \A k \in Ids : k <= i
    BY <2>1, <2>4 DEF Ids
  <2>7. Spawned'
    BY <2>1, <2>2, <2>4, <2>5, <2>6 DEF Spawned
  <2>3. PoolPhase'
    BY <1>0, <2>1, PoolTypes DEF PoolPhase, BeforePool
  <2> QED BY <2>3, <2>7
<1> QED BY <1>1, <1>2, <1>3 DEF RunPool

LEMMA DestroyPoolPool ==
  ASSUME PoolInv, DestroyPool
  PROVE  PoolPhase' /\ Spawned'
<1>0. /\ PoolPhase /\ Spawned /\ PoolProofs!IInv
      /\ main = "leaving" /\ main' = IF owner' = "idle" THEN "destroying server" ELSE main
      /\ late' = late
  BY DEF PoolInv, DestroyPool, requests
<1>1. UNCHANGED <<runs, pc>> /\ owner \in {"running", "joining"}
  BY <1>0 DEF DestroyPool, Pool!stop, Pool!Join, Pool!Clear, PoolPhase
<1>2. CASE Pool!stop \/ Pool!Join
  <2>1. owner' = "joining" /\ slots' = slots
    BY <1>2 DEF Pool!stop, Pool!Join
  <2> QED BY <1>0, <1>1, <2>1, PoolTypes DEF PoolPhase, Spawned, BeforePool
<1>3. CASE Pool!Clear
  <2>1. owner = "joining" /\ i = slots /\ owner' = "idle"
    BY <1>3 DEF Pool!Clear, Pool!JoinedAll
  <2>2. i = NumApps /\ \A k \in Ids : pc[Worker(k)] # "none"
    BY <1>0, <2>1 DEF Spawned
  <2>4. \A k \in Ids : k < i
    BY <2>2, AppsAssumption DEF Ids
  <2>3. \A k \in Ids : pc[Worker(k)] = "exited"
    BY <1>0, <2>1, <2>2, <2>4, PoolTypes
  <2> QED BY <1>0, <1>1, <2>1, <2>3 DEF PoolPhase, Spawned, BeforePool
<1> QED BY <1>2, <1>3 DEF DestroyPool

\* A worker that has begun goes on, and none begins or goes on where all have ended.
LEMMA WorkerMoves ==
  ASSUME PoolProofs!IInv, NEW w \in Pool!Workers, Pool!WorkerNext(w)
  PROVE  /\ UNCHANGED <<m_running, slots, owner, i, runs>>
         /\ pc[w] \notin {"none", "exited"}
         /\ \E to \in PoolProofs!Labels \ {"none"} : pc' = [pc EXCEPT ![w] = to]
  BY DEF Pool!WorkerNext, Pool!Enter, Pool!Call, Pool!CallbackReturns, Pool!Leave, Pool!Exit,
         PoolProofs!Labels

LEMMA AppNextPool ==
  ASSUME PoolInv, NEW w \in Pool!Workers, AppNext(w)
  PROVE  PoolPhase' /\ Spawned'
<1>0. PoolPhase /\ Spawned /\ PoolProofs!IInv /\ Pool!WorkerNext(w)
  BY AppSteps DEF PoolInv
<1>1. /\ UNCHANGED <<slots, owner, i, runs, main>> /\ pc[w] \notin {"none", "exited"}
      /\ \E to \in PoolProofs!Labels \ {"none"} : pc' = [pc EXCEPT ![w] = to]
  BY <1>0, WorkerMoves, AppSteps
<1>2. w = Worker(w[2]) /\ w[2] \in Ids
  BY PoolWorkers
<1>3. \A k \in Ids : pc'[Worker(k)] = "none" => pc[Worker(k)] = "none"
  BY <1>0, <1>1, PoolTypes, PoolWorkers
<1>4. runs # 0 /\ main # "destroying server"
  BY <1>0, <1>1, <1>2, PoolTypes DEF PoolPhase
<1>5. late' = late \/ owner = "joining"
  BY AppSteps DEF Answer, requests
<1>6. Spawned'
  <2>1. Worker(i)' = Worker(i)
    BY <1>1 DEF Worker
  <2>2. owner = "appending" => i \in Ids
    BY <1>0, PoolTypes, AppsAssumption DEF Ids
  <2> QED BY <1>0, <1>1, <1>3, <2>1, <2>2 DEF Spawned
<1>7. PoolPhase'
  BY <1>0, <1>1, <1>4, <1>5 DEF PoolPhase, BeforePool
<1> QED BY <1>6, <1>7

LEMMA PoolStep == PoolInv /\ [Next]_vars => PoolInv'
<1> SUFFICES ASSUME PoolInv, [Next]_vars PROVE PoolPhase' /\ Spawned'
  BY PoolInvStep DEF PoolInv
<1>1. CASE Elsewhere
  BY <1>1, ElsewherePool DEF PoolInv
<1>2. CASE UNCHANGED vars
  BY <1>2 DEF vars, pool, requests, PoolInv, PoolPhase, Spawned
<1> QED BY <1>1, <1>2, Steps, RunPoolPool, DestroyPoolPool, AppNextPool

-----------------------------------------------------------------------------
(* The AcceptEx calls.                                                     *)

LEMMA AcceptQuietly ==
  ASSUME AcceptInv, UNCHANGED <<accept, listener, connections>>,
         \/ main' = main
         \/ main \in BeforeAccept /\ main' \in BeforeAccept \cup {"failed", "terminated"}
         \/ main \in WithListener /\ main' \in WithListener \cup {"failed", "terminated"}
  PROVE  AcceptInv'
<1>1. UNCHANGED <<m_pending_accepts, m_accept_ctx, accepting, accepted, acceptFailed, listener, connections>>
  BY DEF accept
<1>2. /\ (NoAccept' <=> NoAccept) /\ (OneAccept' <=> OneAccept)
      /\ (Posted' <=> Posted) /\ (NotPosted' <=> NotPosted)
  BY <1>1 DEF NoAccept, OneAccept, Posted, NotPosted
<1>3. main \in WithListener => main # "terminated"
  BY DEF WithListener, WithPool
<1>4. StartInv'
  BY <1>1, <1>2 DEF AcceptInv, StartInv, BeforeAccept, WithListener, WithPool
<1>5. ListenerInv'
  <2>1. listener = "rearming" /\ main \in BeforeAccept => FALSE
    BY DEF AcceptInv, StartInv
  <2> QED BY <1>1, <1>2, <1>3, <2>1 DEF AcceptInv, ListenerInv, Terminated
<1> QED BY <1>1, <1>4, <1>5 DEF AcceptInv

LEMMA AcceptElsewhere ==
  ASSUME AcceptInv,
         \/ OpenLogs \/ OpenConfig \/ ReadConfig \/ setupSocket \/ listen \/ StartAssembler
         \/ RunPool \/ SpawnFails \/ DestroyPool \/ EndOfInput \/ RequestArrives
         \/ \E command \in Commands \cup {NoCommand} : EnterLine(command)
         \/ \E w \in Pool!Workers : AppNext(w)
  PROVE  AcceptInv'
<1>1. UNCHANGED <<accept, listener, connections>>
  BY DEF OpenLogs, OpenConfig, ReadConfig, setupSocket, listen, StartAssembler, RunPool,
         SpawnFails, DestroyPool, EndOfInput, RequestArrives, EnterLine, AppNext, server
<1>2. \/ main' = main
      \/ main \in BeforeAccept /\ main' \in BeforeAccept \cup {"failed", "terminated"}
      \/ main \in WithListener /\ main' \in WithListener \cup {"failed", "terminated"}
  BY DEF OpenLogs, OpenConfig, ReadConfig, setupSocket, listen, StartAssembler, RunPool,
         SpawnFails, DestroyPool, EndOfInput, RequestArrives, EnterLine, AppNext, BeforeAccept,
         WithPool, WithListener
<1> QED BY <1>1, <1>2, AcceptQuietly

\* What is enough for AcceptInv while the listener runs.
LEMMA WhileListening ==
  ASSUME AcceptInv, listener' \in {"waiting", "rearming", "counting"}, ListenerInv',
         main' = main, listener # "none", accepted' # {} => connections' < MaxConnections
  PROVE  AcceptInv'
  BY DEF AcceptInv, StartInv, BeforeAccept, WithListener, WithPool

LEMMA FirstAcceptAccepts ==
  ASSUME AcceptInv, FirstAccept
  PROVE  AcceptInv'
<1>1. /\ main = "first accept" /\ m_accept_ctx' \in Addresses
      /\ UNCHANGED <<accepted, listener, connections>>
  BY DEF FirstAccept
<1>2. NotPosted /\ m_pending_accepts = 0 /\ ~acceptFailed /\ listener = "none"
  BY <1>1 DEF AcceptInv, StartInv, BeforeAccept, NoAccept
<1>3. m_pending_accepts' = 1
  <2>1. m_pending_accepts' = m_pending_accepts + 1
    BY DEF FirstAccept
  <2> QED BY <1>2, <2>1
<1>4. CASE main' = "listener" /\ AcceptExSucceeds(m_accept_ctx')
  <2>1. OneAccept' /\ accepted' = {}
    BY <1>1, <1>2, <1>3, <1>4 DEF AcceptExSucceeds, NotPosted, OneAccept, Posted
  <2>2. ~acceptFailed'
    BY <1>2, <1>4 DEF AcceptExSucceeds
  <2> QED BY <1>1, <1>2, <1>4, <2>1, <2>2
          DEF AcceptInv, StartInv, ListenerInv, BeforeAccept, WithListener, WithPool
<1>5. CASE main' = "failed" /\ AcceptExFails
  <2>1. NotPosted' /\ acceptFailed' /\ accepted' = {}
    BY <1>1, <1>2, <1>5 DEF AcceptExFails, NotPosted
  <2> QED BY <1>1, <1>2, <1>3, <1>5, <2>1
          DEF AcceptInv, StartInv, ListenerInv, BeforeAccept, WithListener, WithPool
<1> QED BY <1>4, <1>5 DEF FirstAccept

LEMMA StartListenerAccepts ==
  ASSUME AcceptInv, StartListener
  PROVE  AcceptInv'
<1>1. /\ main = "listener"
      /\ UNCHANGED <<m_pending_accepts, m_accept_ctx, accepting, accepted, acceptFailed, connections>>
      /\ \/ main' = "assemblers" /\ listener' = "waiting"
         \/ main' = "failed" /\ listener' = listener
  BY DEF StartListener, accept
<1>2. OneAccept' <=> OneAccept
  BY <1>1 DEF OneAccept, Posted
<1>3. OneAccept /\ ~acceptFailed /\ listener = "none"
  BY <1>1 DEF AcceptInv, StartInv
<1> QED BY <1>1, <1>2, <1>3 DEF AcceptInv, StartInv, ListenerInv, BeforeAccept, WithListener, WithPool

LEMMA AcceptExCompletesAccepts ==
  ASSUME AcceptInv, AcceptExCompletes
  PROVE  AcceptInv'
<1>1. PICK ctx \in accepting : accepting' = accepting \ {ctx} /\ accepted' = accepted \cup {ctx}
  BY DEF AcceptExCompletes
<1>2. /\ UNCHANGED <<main, m_pending_accepts, m_accept_ctx, acceptFailed, listener, connections>>
      /\ connections < MaxConnections /\ ~Terminated
  BY DEF AcceptExCompletes
<1>3. ~NotPosted /\ ~NoAccept
  BY <1>1 DEF NotPosted, NoAccept
<1>4. Posted => Posted'
  BY <1>1, <1>2 DEF Posted
<1>5. OneAccept => OneAccept'
  BY <1>2, <1>4 DEF OneAccept
<1>6. StartInv'
  BY <1>2, <1>3, <1>5 DEF AcceptInv, StartInv, Terminated
<1>7. ListenerInv'
  BY <1>2, <1>3, <1>4, <1>5 DEF AcceptInv, ListenerInv, Terminated
<1> QED BY <1>2, <1>6, <1>7 DEF AcceptInv

LEMMA AcceptConnectionAccepts ==
  ASSUME AcceptInv, AcceptConnection
  PROVE  AcceptInv'
<1>1. /\ listener = "waiting" /\ m_accept_ctx \in accepted /\ accepted' = accepted \ {m_accept_ctx}
      /\ m_pending_accepts' = m_pending_accepts - 1 /\ listener' = "rearming"
      /\ UNCHANGED <<main, m_accept_ctx, accepting, acceptFailed>>
  BY DEF AcceptConnection
<1>2. OneAccept /\ ~acceptFailed
  BY <1>1 DEF AcceptInv, ListenerInv, NoAccept, NotPosted
<1>3. NoAccept'
  BY <1>1, <1>2 DEF OneAccept, Posted, NoAccept, NotPosted
<1>4. ListenerInv' /\ accepted' = {}
  BY <1>1, <1>2, <1>3 DEF ListenerInv, NoAccept, NotPosted
<1> QED BY <1>1, <1>4, WhileListening

LEMMA RearmAccepts ==
  ASSUME AcceptInv, Rearm
  PROVE  AcceptInv'
<1>1. PICK ctx \in Addresses :
        /\ m_accept_ctx' = ctx
        /\ \/ AcceptExSucceeds(ctx) /\ listener' = "counting"
           \/ AcceptExFails /\ listener' = "waiting"
  BY DEF Rearm, NewContext, AfterPost
<1>2. listener = "rearming" /\ UNCHANGED <<main, m_pending_accepts, accepted, connections>> /\ ~Terminated
  BY DEF Rearm
<1>3. NotPosted /\ m_pending_accepts = 0 /\ ~acceptFailed
  BY <1>2 DEF AcceptInv, ListenerInv, NoAccept
<1>4. CASE AcceptExSucceeds(ctx) /\ listener' = "counting"
  <2>1. Posted' /\ ~acceptFailed' /\ accepted' = {}
    BY <1>1, <1>2, <1>3, <1>4 DEF AcceptExSucceeds, NotPosted, Posted
  <2> QED BY <1>2, <1>3, <1>4, <2>1, WhileListening DEF ListenerInv
<1>5. CASE AcceptExFails /\ listener' = "waiting"
  <2>1. NoAccept' /\ acceptFailed' /\ accepted' = {}
    BY <1>1, <1>2, <1>3, <1>5 DEF AcceptExFails, NotPosted, NoAccept
  <2> QED BY <1>2, <1>5, <2>1, WhileListening DEF ListenerInv
<1> QED BY <1>1, <1>4, <1>5

LEMMA CountAccepts ==
  ASSUME AcceptInv, CountAccept
  PROVE  AcceptInv'
<1>1. /\ listener = "counting" /\ listener' = "waiting"
      /\ UNCHANGED <<main, m_accept_ctx, accepting, accepted, acceptFailed, connections>>
  BY DEF CountAccept
<1>2. Posted /\ m_pending_accepts = 0 /\ ~acceptFailed
  BY <1>1 DEF AcceptInv, ListenerInv
<1>3. m_pending_accepts' = 1
  <2>1. m_pending_accepts' = m_pending_accepts + 1
    BY DEF CountAccept
  <2> QED BY <1>2, <2>1
<1>4. OneAccept' /\ ~acceptFailed'
  BY <1>1, <1>2, <1>3 DEF Posted, OneAccept
<1> QED BY <1>1, <1>4, WhileListening DEF ListenerInv, AcceptInv

LEMMA WarningAccepts ==
  ASSUME AcceptInv, WarningEndsProcess
  PROVE  AcceptInv'
<1>1. /\ main' = "terminated"
      /\ main = "first accept" \/ listener = "rearming"
      /\ UNCHANGED <<m_pending_accepts, m_accept_ctx, accepting, accepted, listener, connections>>
  BY DEF WarningEndsProcess
<1>2. NoAccept' <=> NoAccept
  BY <1>1 DEF NoAccept, NotPosted
<1>3. NoAccept /\ (listener = "none" \/ listener = "rearming")
  BY <1>1 DEF AcceptInv, StartInv, ListenerInv, BeforeAccept
<1> QED BY <1>1, <1>2, <1>3
       DEF AcceptInv, StartInv, ListenerInv, BeforeAccept, WithListener, WithPool, Terminated

LEMMA AcceptStep ==
  ASSUME AcceptInv, [Next]_vars
  PROVE  AcceptInv'
<1>1. CASE UNCHANGED vars
  BY <1>1, AcceptQuietly DEF vars, server
<1> QED BY <1>1, AcceptElsewhere, FirstAcceptAccepts, StartListenerAccepts, AcceptExCompletesAccepts,
           AcceptConnectionAccepts, RearmAccepts, CountAccepts, WarningAccepts DEF Next, MainNext

-----------------------------------------------------------------------------
(* The requests taken while the pool stops.                                *)

LEMMA CallingFinite ==
  /\ IsFiniteSet(Calling) /\ Cardinality(Calling) \in Nat /\ Cardinality(Calling) <= NumApps
<1>1. Calling \in SUBSET Ids
  BY DEF Calling
<1> QED BY <1>1, PoolWorkers, FS_Subset, FS_CardinalityType

\* Nobody new calls: what is left to take does not grow.
LEMMA FewerCalling ==
  ASSUME Calling' \subseteq Calling
  PROVE  Cardinality(Calling') <= Cardinality(Calling) /\ Cardinality(Calling') \in Nat
  BY CallingFinite, FS_Subset, FS_CardinalityType

LEMMA CallingFiniteNext == IsFiniteSet(Calling') /\ Cardinality(Calling') \in Nat /\ Cardinality(Calling') <= NumApps
<1>1. Calling' \in SUBSET Ids
  BY DEF Calling
<1> QED BY <1>1, PoolWorkers, FS_Subset, FS_CardinalityType

LEMMA LateQuietly ==
  ASSUME LateInv, late \in Nat, late' = late,
         late # 0 => Calling' \subseteq Calling,
         m_running' => m_running \/ late = 0
  PROVE  LateInv'
<1> USE AppsAssumption
<1>1. CASE late = 0
  BY <1>1, CallingFiniteNext DEF LateInv
<1>2. CASE late # 0
  BY <1>2, FewerCalling, CallingFinite DEF LateInv
<1> QED BY <1>1, <1>2

LEMMA LateStep ==
  ASSUME PoolInv, LateInv, late \in Nat, [Next]_vars
  PROVE  LateInv'
<1> USE AppsAssumption
<1>0. PoolProofs!IInv /\ PoolPhase
  BY DEF PoolInv
<1>1. CASE Elsewhere
  <2>1. late' = late /\ pc' = pc /\ m_running' = m_running
    BY <1>1 DEF Elsewhere, OpenLogs, OpenConfig, ReadConfig, setupSocket, listen, FirstAccept,
         StartListener, StartAssembler, SpawnFails, EnterLine, EndOfInput, AcceptExCompletes,
         AcceptConnection, Rearm, CountAccept, WarningEndsProcess, RequestArrives, requests, pool
  <2> QED BY <2>1, LateQuietly DEF Calling
<1>2. CASE RunPool
  <2>1. late' = late /\ late = 0
    BY <1>0, <1>2 DEF RunPool, requests, PoolPhase
  <2> QED BY <2>1, LateQuietly
<1>3. CASE DestroyPool
  <2>1. late' = late
    BY <1>3 DEF DestroyPool, requests
  <2>2. pc' = pc /\ (m_running' = m_running \/ m_running' = FALSE)
    BY <1>3 DEF DestroyPool, Pool!stop, Pool!Join, Pool!Clear
  <2> QED BY <2>1, <2>2, LateQuietly DEF Calling
<1>4. ASSUME NEW w \in Pool!Workers, AppNext(w) PROVE LateInv'
  <2>0. /\ w = Worker(w[2]) /\ w[2] \in Ids
        /\ pc \in [Pool!Workers -> PoolProofs!Labels]
        /\ \A k \in Ids : Worker(k) \in Pool!Workers /\ (Worker(k) = w <=> k = w[2])
    BY <1>0, PoolTypes, PoolWorkers DEF Worker
  <2>1. CASE Answer(w)
    <3>1. pc[w] = "calling" /\ pc' = [pc EXCEPT ![w] = "looping"] /\ m_running' = m_running
      BY <2>1 DEF Answer, Pool!CallbackReturns
    <3>2. w[2] \in Calling /\ Calling' = Calling \ {w[2]}
      BY <2>0, <3>1 DEF Calling
    <3>3. Cardinality(Calling') = Cardinality(Calling) - 1
      BY <3>2, CallingFinite, FS_RemoveElement
    <3>4. late' \in {late, late + 1} /\ (late' = late + 1 => owner = "joining")
      BY <2>1 DEF Answer
    <3>5. owner = "joining" => ~m_running
      BY <1>0, PoolTypes
    <3> QED BY <3>1, <3>3, <3>4, <3>5, CallingFinite DEF LateInv
  <2>2. CASE ~Pool!CallbackReturns(w)
    <3>1. late' = late /\ m_running' = m_running
      BY <1>0, <1>4, <2>2, AppSteps, WorkerMoves DEF Answer, requests
    <3>2. \/ pc'[w] # "calling" /\ \A v \in Pool!Workers \ {w} : pc'[v] = pc[v]
          \/ m_running
      BY <1>4, <2>0, <2>2, AppSteps
         DEF Pool!WorkerNext, Pool!Enter, Pool!Call, Pool!Leave, Pool!Exit
    <3>3. late # 0 => Calling' \subseteq Calling
      BY <2>0, <3>2 DEF LateInv, Calling
    <3> QED BY <3>1, <3>3, LateQuietly
  <2> QED BY <1>4, <2>1, <2>2, AppSteps DEF Answer
<1>5. CASE UNCHANGED vars
  BY <1>5, LateQuietly DEF vars, requests, pool, Calling
<1> QED BY <1>1, <1>2, <1>3, <1>4, <1>5, Steps

-----------------------------------------------------------------------------
(* The types.                                                              *)

\* TypeOK in three parts: the pool, the calls of AcceptEx, and the rest.
CallTypes ==
  /\ m_pending_accepts \in 0 .. 1
  /\ m_accept_ctx \in Addresses \cup {Null}
  /\ accepting \subseteq Addresses /\ accepted \subseteq Addresses
  /\ acceptFailed \in BOOLEAN
  /\ connections \in 0 .. MaxConnections
RequestTypes ==
  arrived \in 0 .. MaxRequests /\ m_requests_queue \in 0 .. arrived /\ late \in Nat
MainTypes ==
  /\ main \in BeforePool \cup WithPool \cup {"failed", "terminated"}
  /\ m_server_socket \in {"NULL", "INVALID", "open", "closed"}
  /\ m_listening \in BOOLEAN
  /\ listener \in {"none", "waiting", "rearming", "counting"}
  /\ assemblers \in 0 .. NumAssemblers

LEMMA TypeParts ==
  /\ TypeOK <=> CallTypes /\ RequestTypes /\ MainTypes /\ Pool!TypeOK
  /\ TypeOK' <=> CallTypes' /\ RequestTypes' /\ MainTypes' /\ Pool!TypeOK'
  BY DEF TypeOK, CallTypes, RequestTypes, MainTypes, BeforePool, WithPool

LEMMA CallTypesStep ==
  ASSUME CallTypes, AcceptInv, [Next]_vars
  PROVE  CallTypes'
<1> USE BoundsAssumption
<1>1. CASE UNCHANGED <<accept, connections>>
  BY <1>1 DEF accept, CallTypes
<1>2. CASE FirstAccept
  <2>1. /\ main = "first accept" /\ m_accept_ctx' \in Addresses
        /\ UNCHANGED <<accepted, connections>>
    BY <1>2 DEF FirstAccept
  <2>2. m_pending_accepts' = m_pending_accepts + 1
    BY <1>2 DEF FirstAccept
  <2>3. m_pending_accepts = 0
    BY <2>1 DEF AcceptInv, StartInv, BeforeAccept, NoAccept
  <2>4. m_pending_accepts' \in 0 .. 1
    BY <2>2, <2>3
  <2>5. \/ accepting' = accepting \cup {m_accept_ctx'} /\ acceptFailed' = acceptFailed
        \/ accepting' = accepting /\ acceptFailed' = TRUE
    BY <1>2 DEF FirstAccept, AcceptExSucceeds, AcceptExFails
  <2>6. accepting' \subseteq Addresses /\ acceptFailed' \in BOOLEAN
    BY <2>1, <2>5 DEF CallTypes
  <2> QED BY <2>1, <2>4, <2>6 DEF CallTypes
<1>3. CASE AcceptExCompletes
  BY <1>3 DEF AcceptExCompletes, CallTypes
<1>4. CASE AcceptConnection
  <2>1. /\ m_accept_ctx \in accepted /\ accepted' = accepted \ {m_accept_ctx}
        /\ UNCHANGED <<m_accept_ctx, accepting, acceptFailed>> /\ listener = "waiting"
    BY <1>4 DEF AcceptConnection
  <2>2. m_pending_accepts' = m_pending_accepts - 1 /\ connections' = connections + 1
    BY <1>4 DEF AcceptConnection
  <2>3. m_pending_accepts = 1 /\ connections < MaxConnections
    BY <2>1 DEF AcceptInv, ListenerInv, NoAccept, NotPosted, OneAccept
  <2> QED BY <2>1, <2>2, <2>3 DEF CallTypes
<1>5. CASE Rearm
  <2>1. PICK ctx \in Addresses :
          m_accept_ctx' = ctx /\ (AcceptExSucceeds(ctx) \/ AcceptExFails)
    BY <1>5 DEF Rearm, NewContext
  <2>2. UNCHANGED <<m_pending_accepts, accepted, connections>>
    BY <1>5 DEF Rearm
  <2>3. accepting' \subseteq Addresses /\ acceptFailed' \in BOOLEAN
    BY <2>1 DEF CallTypes, AcceptExSucceeds, AcceptExFails
  <2> QED BY <2>1, <2>2, <2>3 DEF CallTypes
<1>9. CASE CountAccept
  <2>1. /\ listener = "counting" /\ m_pending_accepts' = m_pending_accepts + 1
        /\ UNCHANGED <<m_accept_ctx, accepting, accepted, acceptFailed, connections>>
    BY <1>9 DEF CountAccept
  <2>2. m_pending_accepts = 0
    BY <2>1 DEF AcceptInv, ListenerInv
  <2> QED BY <2>1, <2>2 DEF CallTypes
<1>6. CASE WarningEndsProcess
  BY <1>6 DEF WarningEndsProcess, CallTypes
<1>7. CASE \/ OpenLogs \/ OpenConfig \/ ReadConfig \/ setupSocket \/ listen
           \/ StartListener \/ StartAssembler \/ SpawnFails \/ RunPool \/ DestroyPool \/ EndOfInput \/ RequestArrives
           \/ \E command \in Commands \cup {NoCommand} : EnterLine(command)
           \/ \E w \in Pool!Workers : AppNext(w)
  <2>1. UNCHANGED <<accept, connections>>
    BY <1>7 DEF OpenLogs, OpenConfig, ReadConfig, setupSocket, listen, StartListener,
       StartAssembler, SpawnFails, RunPool, DestroyPool, EndOfInput, RequestArrives, EnterLine, AppNext, server
  <2> QED BY <1>1, <2>1
<1>8. CASE UNCHANGED vars
  BY <1>1, <1>8 DEF vars, server
<1> QED BY <1>2, <1>3, <1>4, <1>5, <1>6, <1>7, <1>8, <1>9 DEF Next, MainNext

LEMMA RequestTypesStep ==
  ASSUME RequestTypes, [Next]_vars
  PROVE  RequestTypes'
<1> USE BoundsAssumption DEF RequestTypes
<1>1. CASE UNCHANGED requests
  BY <1>1 DEF requests
<1>2. CASE RequestArrives
  <2>1. arrived' = arrived + 1 /\ m_requests_queue' = m_requests_queue + 1
    BY <1>2 DEF RequestArrives
  <2>2. arrived < MaxRequests /\ late' = late
    BY <1>2 DEF RequestArrives
  <2> QED BY <2>1, <2>2
<1>3. ASSUME NEW w \in Pool!Workers, Answer(w) PROVE RequestTypes'
  BY <1>3 DEF Answer
<1>4. CASE RunPool \/ DestroyPool
  BY <1>1, <1>4 DEF RunPool, DestroyPool
<1>5. CASE Elsewhere
  <2>1. RequestArrives \/ UNCHANGED requests
    BY <1>5 DEF Elsewhere, OpenLogs, OpenConfig, ReadConfig, setupSocket, listen, FirstAccept,
         StartListener, StartAssembler, SpawnFails, EnterLine, EndOfInput, AcceptExCompletes, AcceptConnection, Rearm, CountAccept,
         WarningEndsProcess
  <2> QED BY <1>1, <1>2, <2>1
<1>6. ASSUME NEW w \in Pool!Workers, AppNext(w) PROVE RequestTypes'
  BY <1>1, <1>3, <1>6, AppSteps
<1>7. CASE UNCHANGED vars
  BY <1>1, <1>7 DEF vars
<1> QED BY <1>4, <1>5, <1>6, <1>7, Steps

LEMMA MainTypesStep ==
  ASSUME MainTypes, AssemblersInv, [Next]_vars
  PROVE  MainTypes' /\ AssemblersInv'
<1> USE AppsAssumption DEF MainTypes, BeforePool, WithPool
<1>1. CASE Elsewhere
  <2>1. main' \in BeforePool \cup WithPool \cup {"failed", "terminated"}
    BY <1>1 DEF Elsewhere, OpenLogs, OpenConfig, ReadConfig, setupSocket, listen, FirstAccept,
         StartListener, StartAssembler, SpawnFails, EnterLine, EndOfInput, AcceptExCompletes,
         AcceptConnection, Rearm, CountAccept, WarningEndsProcess, RequestArrives
  <2>2. m_server_socket' \in {m_server_socket, "NULL", "INVALID", "open", "closed"}
    BY <1>1 DEF Elsewhere, OpenLogs, OpenConfig, ReadConfig, setupSocket, listen, FirstAccept,
         StartListener, StartAssembler, SpawnFails, EnterLine, EndOfInput, AcceptExCompletes,
         AcceptConnection, Rearm, CountAccept, WarningEndsProcess, RequestArrives, server
  <2>3. m_listening' = m_listening \/ m_listening' = TRUE
    BY <1>1 DEF Elsewhere, OpenLogs, OpenConfig, ReadConfig, setupSocket, listen, FirstAccept,
         StartListener, StartAssembler, SpawnFails, EnterLine, EndOfInput, AcceptExCompletes,
         AcceptConnection, Rearm, CountAccept, WarningEndsProcess, RequestArrives, server
  <2>4. listener' \in {listener, "waiting", "rearming", "counting"}
    BY <1>1 DEF Elsewhere, OpenLogs, OpenConfig, ReadConfig, setupSocket, listen, FirstAccept,
         StartListener, StartAssembler, SpawnFails, EnterLine, EndOfInput, AcceptExCompletes,
         AcceptConnection, Rearm, CountAccept, WarningEndsProcess, AfterPost, RequestArrives, server
  <2>5. assemblers' \in 0 .. NumAssemblers /\ AssemblersInv'
    <3>1. CASE StartAssembler
      <4>1. \/ /\ assemblers' = assemblers + 1
               /\ main' = IF assemblers' = NumAssemblers THEN "pool" ELSE main
            \/ assemblers' = assemblers /\ main' = "failed"
        BY <3>1, Zenon DEF StartAssembler
      <4>2. main = "assemblers" /\ assemblers < NumAssemblers
        BY <3>1 DEF StartAssembler, AssemblersInv
      <4>3. CASE assemblers' = assemblers + 1 /\ main' = IF assemblers' = NumAssemblers THEN "pool" ELSE main
        BY <4>2, <4>3 DEF AssemblersInv
      <4> QED BY <4>1, <4>2, <4>3 DEF AssemblersInv
    <3>2. ASSUME UNCHANGED assemblers, main \in BeforePool \/ main' \notin BeforePool
          PROVE  assemblers' \in 0 .. NumAssemblers /\ AssemblersInv'
      BY <3>2 DEF AssemblersInv
    <3> QED BY <1>1, <3>1, <3>2
       DEF Elsewhere, OpenLogs, OpenConfig, ReadConfig, setupSocket, listen, FirstAccept,
         StartListener, SpawnFails, EnterLine, EndOfInput, AcceptExCompletes, AcceptConnection,
         Rearm, CountAccept, WarningEndsProcess, RequestArrives, server
  <2> QED BY <2>1, <2>2, <2>3, <2>4, <2>5
<1>2. CASE RunPool \/ DestroyPool
  BY <1>2 DEF RunPool, DestroyPool, AssemblersInv, server
<1>3. ASSUME NEW w \in Pool!Workers, AppNext(w) PROVE MainTypes' /\ AssemblersInv'
  BY <1>3, AppSteps DEF AssemblersInv, server
<1>4. CASE UNCHANGED vars
  BY <1>4 DEF vars, AssemblersInv, server
<1> QED BY <1>1, <1>2, <1>3, <1>4, Steps

-----------------------------------------------------------------------------
(* The configuration.                                                      *)

LEMMA ConfigStep ==
  ASSUME ConfigInv, [Next]_vars
  PROVE  ConfigInv'
<1> USE DEF ConfigInv, Afterwards
<1>1. CASE OpenLogs \/ OpenConfig \/ ReadConfig
  <2>1. CASE OpenConfig
    BY <2>1 DEF OpenConfig, createConfigFileIfNotExists
  <2> QED BY <1>1, <2>1 DEF OpenLogs, ReadConfig, config
<1>2. CASE UNCHANGED config /\ (main' = main \/ main' \notin Afterwards \cup {"logger", "config", "read"}
                                \/ (main \in Afterwards /\ main' \in Afterwards))
  BY <1>2 DEF config
<1>3. CASE \/ setupSocket \/ listen \/ FirstAccept \/ StartListener \/ StartAssembler
           \/ RunPool \/ SpawnFails
  BY <1>2, <1>3 DEF setupSocket, listen, FirstAccept, StartListener, StartAssembler, RunPool, SpawnFails
<1>4. CASE DestroyPool \/ EndOfInput \/ \E command \in Commands \cup {NoCommand} : EnterLine(command)
  BY <1>2, <1>4 DEF DestroyPool, EndOfInput, EnterLine
<1>5. CASE \/ AcceptExCompletes \/ AcceptConnection \/ Rearm \/ CountAccept
           \/ WarningEndsProcess \/ RequestArrives \/ \E w \in Pool!Workers : AppNext(w)
  BY <1>2, <1>5 DEF AcceptExCompletes, AcceptConnection, Rearm, CountAccept,
     WarningEndsProcess, RequestArrives, AppNext
<1>6. CASE UNCHANGED vars
  BY <1>2, <1>6 DEF vars
<1> QED BY <1>1, <1>3, <1>4, <1>5, <1>6 DEF Next, MainNext

-----------------------------------------------------------------------------
LEMMA InitInv == Init => IInv
<1> SUFFICES ASSUME Init PROVE IInv
  OBVIOUS
<1> USE AppsAssumption, BoundsAssumption
<1>1. PoolProofs!IInv
  BY SamePool, PoolProofs!InitInv DEF Init
<1>2. PoolPhase /\ Spawned
  BY DEF Init, Pool!Init, PoolPhase, Spawned, BeforePool
<1>3. AcceptInv
  BY DEF Init, AcceptInv, StartInv, ListenerInv, NoAccept, NotPosted, BeforeAccept, WithListener,
         WithPool
<1>4. late = 0 /\ m_running = FALSE
  BY DEF Init, Pool!Init
<1>5. LateInv
  BY <1>4, CallingFinite DEF LateInv
<1>6. ConfigInv
  BY DEF Init, ConfigInv, Afterwards
<1>9. AssemblersInv
  BY DEF Init, AssemblersInv
<1>7. CallTypes /\ RequestTypes /\ MainTypes
  <2>1. CallTypes
    <3>1. /\ m_pending_accepts = 0 /\ connections = 0 /\ m_accept_ctx = Null
          /\ accepting = {} /\ accepted = {} /\ acceptFailed = FALSE
      BY DEF Init
    <3>2. m_pending_accepts \in 0 .. 1 /\ connections \in 0 .. MaxConnections
      BY <3>1
    <3> QED BY <3>1, <3>2 DEF CallTypes
  <2>2. RequestTypes
    BY DEF Init, RequestTypes
  <2>3. MainTypes
    <3>1. assemblers = 0 /\ 0 \in 0 .. NumAssemblers
      BY DEF Init
    <3> QED BY <3>1 DEF Init, MainTypes, BeforePool
  <2> QED BY <2>1, <2>2, <2>3
<1>8. Pool!TypeOK
  BY <1>1, SamePool DEF PoolProofs!IInv
<1> QED BY <1>1, <1>2, <1>3, <1>5, <1>6, <1>7, <1>8, <1>9, TypeParts DEF IInv, PoolInv

LEMMA StepInv == IInv /\ [Next]_vars => IInv'
<1> SUFFICES ASSUME IInv, [Next]_vars PROVE IInv'
  OBVIOUS
<1>1. /\ PoolInv /\ AcceptInv /\ LateInv /\ ConfigInv /\ AssemblersInv
      /\ CallTypes /\ RequestTypes /\ MainTypes
  BY TypeParts DEF IInv
<1>2. late \in Nat
  BY <1>1 DEF RequestTypes
<1>3. PoolInv' /\ AcceptInv' /\ LateInv' /\ ConfigInv'
  BY <1>1, <1>2, PoolStep, AcceptStep, LateStep, ConfigStep
<1>4. CallTypes' /\ RequestTypes' /\ MainTypes' /\ AssemblersInv'
  BY <1>1, CallTypesStep, RequestTypesStep, MainTypesStep
<1>5. Pool!TypeOK'
  BY <1>3, SamePool DEF PoolInv, PoolProofs!IInv
<1>6. TypeOK'
  BY <1>4, <1>5, TypeParts
<1> QED BY <1>3, <1>4, <1>6 DEF IInv

LEMMA Always == Spec => []IInv
  BY InitInv, StepInv, PTL DEF Spec

-----------------------------------------------------------------------------
(* What read makes of a file.  The induction over its lines looks at the   *)
(* first line for which a claim fails.                                     *)

\* A nonempty set of numbers has a least one: the library's theorem on sets without one
\* operator parameter, which is about the inclusion of finite sets.
LEMMA Smallest ==
  ASSUME NEW S \in SUBSET Nat, S # {}
  PROVE  \E m \in S : \A k \in S : m <= k
<1> DEFINE Below == {0 .. k : k \in S}
<1>1. Below \subseteq FiniteSubsetsOf(Nat)
  <2>1. ASSUME NEW k \in S PROVE 0 .. k \in FiniteSubsetsOf(Nat)
    <3>1. k \in Int /\ 0 \in Int /\ 0 .. k \in SUBSET Nat
      OBVIOUS
    <3>2. IsFiniteSet(0 .. k)
      BY <3>1, FS_Interval
    <3> QED BY <3>1, <3>2 DEF FiniteSubsetsOf
  <2> QED BY <2>1
<1>2. PICK b \in Below : \A a \in Below : ~ (<<a, b>> \in StrictSubsetOrdering(Nat))
  <2>1. IsWellFoundedOn(StrictSubsetOrdering(Nat), FiniteSubsetsOf(Nat))
    BY FS_StrictSubsetOrderingWellFounded
  <2>2. Below # {}
    OBVIOUS
  <2> HIDE DEF Below
  <2> QED BY <1>1, <2>1, <2>2, WFMin
<1>3. PICK m \in S : b = 0 .. m
  OBVIOUS
<1>4. ASSUME NEW k \in S PROVE m <= k
  <2>1. ~ (<<0 .. k, 0 .. m>> \in StrictSubsetOrdering(Nat))
    BY <1>2, <1>3
  <2>2. SUFFICES ASSUME k < m PROVE FALSE
    OBVIOUS
  <2>3. 0 .. k \subseteq 0 .. m /\ m \in 0 .. m /\ m \notin 0 .. k
    BY <2>2
  <2>4. 0 .. k \in SUBSET Nat /\ 0 .. m \in SUBSET Nat
    OBVIOUS
  <2> QED BY <2>1, <2>3, <2>4 DEF StrictSubsetOrdering
<1> QED BY <1>4

\* What a line does to the configuration, and the loop over all of them.
After(line, c) == IF Counts(line) THEN Set(c, Key(line), Value(line)) ELSE c
IsLoop(lines, f, last) ==
  f = [n \in 0 .. last |-> IF n = 0 THEN NoConfig ELSE After(lines[n], f[n - 1])]

LEMMA LoopExists ==
  ASSUME NEW lines, NEW last \in Nat
  PROVE  \E f : IsLoop(lines, f, last)
<1> DEFINE Bad == {n \in Nat : ~ \E f : IsLoop(lines, f, n)}
<1>1. SUFFICES ASSUME Bad # {} PROVE FALSE
  OBVIOUS
<1>2. PICK m \in Bad : \A k \in Bad : m <= k
  <2> HIDE DEF Bad
  <2>1. Bad \in SUBSET Nat
    BY DEF Bad
  <2> QED BY <1>1, <2>1, Smallest
<1>3. m # 0
  <2>1. IsLoop(lines, [n \in 0 .. 0 |-> NoConfig], 0)
    BY DEF IsLoop
  <2> QED BY <2>1
<1>4. PICK f : IsLoop(lines, f, m - 1)
  <2>1. m - 1 \in Nat /\ m - 1 \notin Bad
    BY <1>2, <1>3
  <2> QED BY <2>1
<1> DEFINE g == [n \in 0 .. m |-> IF n = m THEN After(lines[m], f[m - 1]) ELSE f[n]]
<1>5. \A n \in 0 .. m - 1 : f[n] = IF n = 0 THEN NoConfig ELSE After(lines[n], f[n - 1])
  BY <1>4 DEF IsLoop
<1>6. \A n \in 0 .. m : n # m => n \in 0 .. m - 1 /\ g[n] = f[n]
  OBVIOUS
<1>7. m - 1 \in 0 .. m - 1 /\ g[m - 1] = f[m - 1] /\ g[m] = After(lines[m], g[m - 1])
  BY <1>3
<1>8. \A n \in 0 .. m : g[n] = IF n = 0 THEN NoConfig ELSE After(lines[n], g[n - 1])
  <2> SUFFICES ASSUME NEW n \in 0 .. m
               PROVE  g[n] = IF n = 0 THEN NoConfig ELSE After(lines[n], g[n - 1])
    OBVIOUS
  <2>1. CASE n = m
    BY <1>3, <1>7, <2>1
  <2>2. CASE n # m
    <3>1. n # 0 => n - 1 \in 0 .. m /\ n - 1 # m
      BY <2>2
    <3> HIDE DEF g
    <3> QED BY <1>5, <1>6, <2>2, <3>1
  <2> QED BY <2>1, <2>2
<1>9. IsLoop(lines, g, m)
  <2>1. g = [n \in 0 .. m |-> g[n]]
    OBVIOUS
  <2> HIDE DEF g
  <2> QED BY <1>8, <2>1 DEF IsLoop
<1> QED BY <1>9

LEMMA ReadIsLoop ==
  ASSUME NEW lines, Len(lines) \in Nat
  PROVE  \E f : IsLoop(lines, f, Len(lines)) /\ read(lines) = f[Len(lines)]
<1> DEFINE f == CHOOSE c : IsLoop(lines, c, Len(lines))
<1>1. IsLoop(lines, f, Len(lines))
  BY LoopExists
<1>2. read(lines) = f[Len(lines)]
  BY DEF read, IsLoop, After
<1> QED BY <1>1, <1>2

\* A symbol is found where it is first, and npos says that it is nowhere.
LEMMA FindFirst ==
  ASSUME NEW S, NEW line \in Seq(S), NEW symbol
  PROVE  \/ /\ find(line, symbol) \in 0 .. Len(line) - 1
            /\ line[find(line, symbol) + 1] = symbol
            /\ \A j \in 1 .. find(line, symbol) : line[j] # symbol
         \/ find(line, symbol) = npos /\ \A k \in DOMAIN line : line[k] # symbol
<1>0. Len(line) \in Nat /\ DOMAIN line = 1 .. Len(line)
  BY LenProperties
<1>1. CASE \E k \in DOMAIN line : line[k] = symbol
  <2> DEFINE P(k) == line[k + 1] = symbol /\ \A j \in 1 .. k : line[j] # symbol
             Places == {k \in DOMAIN line : line[k] = symbol}
  <2>1. PICK m \in Places : \A k \in Places : m <= k
    <3>1. Places \in SUBSET Nat /\ Places # {}
      BY <1>0, <1>1
    <3> HIDE DEF Places
    <3> QED BY <3>1, Smallest
  <2>2. m - 1 \in 0 .. Len(line) - 1 /\ P(m - 1)
    <3>1. ASSUME NEW j \in 1 .. m - 1 PROVE line[j] # symbol
      <4>1. j \in DOMAIN line /\ ~ (m <= j)
        BY <1>0
      <4> QED BY <2>1, <4>1
    <3>2. m - 1 + 1 = m /\ m - 1 \in 0 .. Len(line) - 1
      BY <1>0
    <3> QED BY <3>1, <3>2
  <2>3. \E k \in 0 .. Len(line) - 1 : P(k)
    <3> HIDE DEF P
    <3> QED BY <2>2
  <2>4. find(line, symbol) = CHOOSE k \in 0 .. Len(line) - 1 : P(k)
    BY <1>1 DEF find
  <2>5. find(line, symbol) \in 0 .. Len(line) - 1 /\ P(find(line, symbol))
    <3> HIDE DEF P
    <3> QED BY <2>3, <2>4
  <2> QED BY <2>5
<1>2. CASE ~ \E k \in DOMAIN line : line[k] = symbol
  BY <1>2 DEF find
<1> QED BY <1>1, <1>2

\* STRING, where the provers do not look for a literal.
Symbols == STRING \cup {COMMENT_CHAR, CONFIG_KEY_SEPARATOR, "SP", "HOST", "localhost", "PORT", "5432",
                        "PASSWORD", "root"}

\* The key of a line is what is before its first separator, or the whole line.
LEMMA KeyOfLine ==
  ASSUME NEW line \in Seq(Symbols), Len(line) < npos
  PROVE  \/ /\ Separator(line) \in 0 .. Len(line) - 1
            /\ line[Separator(line) + 1] = CONFIG_KEY_SEPARATOR
            /\ \A j \in 1 .. Separator(line) : line[j] # CONFIG_KEY_SEPARATOR
            /\ Key(line) = SubSeq(line, 1, Separator(line))
         \/ Key(line) = line /\ \A k \in DOMAIN line : line[k] # CONFIG_KEY_SEPARATOR
<1>0. Len(line) \in Nat
  OBVIOUS
<1>1. CASE /\ Separator(line) \in 0 .. Len(line) - 1
           /\ line[Separator(line) + 1] = CONFIG_KEY_SEPARATOR
           /\ \A j \in 1 .. Separator(line) : line[j] # CONFIG_KEY_SEPARATOR
  <2>1. Key(line) = SubSeq(line, 1, Separator(line))
    BY <1>0, <1>1 DEF Key, substr
  <2> QED BY <1>1, <2>1
<1>2. CASE Separator(line) = npos /\ \A k \in DOMAIN line : line[k] # CONFIG_KEY_SEPARATOR
  <2>1. Key(line) = SubSeq(line, 1, Len(line))
    BY <1>0, <1>2, SizeAssumption DEF Key, substr, npos
  <2> QED BY <1>2, <2>1, SubSeqFull
<1> QED BY <1>1, <1>2, FindFirst DEF Separator

\* A line key=value is parsed as it is meant, whatever the value.
LEMMA ParameterParsed ==
  ASSUME NEW line \in Seq(Symbols), Len(line) < npos,
         NEW k \in 1 .. Len(line), line[k] = CONFIG_KEY_SEPARATOR,
         \A j \in 1 .. k - 1 : line[j] # CONFIG_KEY_SEPARATOR
  PROVE  Key(line) = SubSeq(line, 1, k - 1) /\ Value(line) = SubSeq(line, k + 1, Len(line))
<1>0. Len(line) \in Nat /\ DOMAIN line = 1 .. Len(line)
  BY LenProperties
<1>1. /\ Separator(line) \in 0 .. Len(line) - 1
      /\ line[Separator(line) + 1] = CONFIG_KEY_SEPARATOR
      /\ \A j \in 1 .. Separator(line) : line[j] # CONFIG_KEY_SEPARATOR
      /\ Key(line) = SubSeq(line, 1, Separator(line))
  BY <1>0, KeyOfLine
<1>2. Separator(line) = k - 1
  <2>1. ~ (Separator(line) < k - 1)
    <3> SUFFICES ASSUME Separator(line) < k - 1 PROVE FALSE
      OBVIOUS
    <3>1. Separator(line) + 1 \in 1 .. k - 1
      BY <1>0, <1>1
    <3> QED BY <1>1, <3>1
  <2>2. ~ (Separator(line) > k - 1)
    <3> SUFFICES ASSUME Separator(line) > k - 1 PROVE FALSE
      OBVIOUS
    <3>1. k \in 1 .. Separator(line)
      BY <1>0, <1>1
    <3> QED BY <1>1, <3>1
  <2> QED BY <1>0, <1>1, <2>1, <2>2
<1>3. k % SizeRange = k
  BY <1>0, SizeAssumption DEF npos
<1>4. Value(line) = substr(line, k, Len(line) - 1)
  <2>1. k - 1 + 1 = k
    OBVIOUS
  <2> QED BY <1>2, <1>3, <2>1 DEF Value
<1>5. ~ (Len(line) - 1 < Len(line) - k)
  BY <1>0
<1> QED BY <1>1, <1>2, <1>4, <1>5 DEF substr

LEMMA SameSequence ==
  ASSUME NEW S, NEW T, S \subseteq T
  PROVE  Seq(S) \subseteq Seq(T)
OBVIOUS

LEMMA SymbolLines ==
  ASSUME NEW S, NEW x \in S, NEW y \in S, NEW z \in S
  PROVE  /\ <<x>> \in Seq(S) /\ Len(<<x>>) = 1
         /\ <<x, y, z>> \in Seq(S) /\ Len(<<x, y, z>>) = 3
OBVIOUS

LEMMA TenLines ==
  ASSUME NEW S, NEW a \in S, NEW b \in S, NEW c \in S, NEW d \in S, NEW e \in S,
         NEW f \in S, NEW g \in S, NEW h \in S, NEW k \in S, NEW j \in S
  PROVE  <<a, b, c, d, e, f, g, h, k, j>> \in Seq(S)
OBVIOUS

FileOK(lines) == lines \in Seq(Seq(Symbols)) /\ \A n \in DOMAIN lines : Len(lines[n]) < npos

LEMMA FilesOK == \A lines \in Files \cup {DefaultFile} : FileOK(lines)
<1> DEFINE L == {line \in Seq(Symbols) : Len(line) <= 3}
<1>1. DefaultFile \in Seq(L)
  <2>1. <<>> \in L
    BY EmptySeq, LenProperties
  <2>2. <<"*">> \in L /\ <<"SP">> \in L
    BY SymbolLines DEF Symbols, COMMENT_CHAR
  <2>3. <<"*", "SP", "*">> \in L
    BY SymbolLines DEF Symbols, COMMENT_CHAR
  <2>4. <<"HOST", "=", "localhost">> \in L
    BY SymbolLines DEF Symbols, CONFIG_KEY_SEPARATOR
  <2>5. <<"PORT", "=", "5432">> \in L
    BY SymbolLines DEF Symbols, CONFIG_KEY_SEPARATOR
  <2>6. <<"PASSWORD", "=", "root">> \in L
    BY SymbolLines DEF Symbols, CONFIG_KEY_SEPARATOR
  <2> HIDE DEF L
  <2> QED BY <2>1, <2>2, <2>3, <2>4, <2>5, <2>6, TenLines DEF DefaultFile
<1>2. FileOK(DefaultFile)
  <2>1. DefaultFile \in Seq(Seq(Symbols))
    BY <1>1, SameSequence
  <2>2. ASSUME NEW n \in DOMAIN DefaultFile PROVE Len(DefaultFile[n]) < npos
    <3>1. DefaultFile[n] \in L
      <4> HIDE DEF L
      <4> QED BY <1>1, LenProperties
    <3>2. Len(DefaultFile[n]) \in Nat /\ Len(DefaultFile[n]) <= 3
      BY <3>1
    <3> QED BY <3>2, SizeAssumption DEF npos
  <2> QED BY <2>1, <2>2 DEF FileOK
<1>3. ASSUME NEW lines \in Files PROVE FileOK(lines)
  <2>1. lines \in Seq(Seq(STRING)) /\ \A n \in DOMAIN lines : Len(lines[n]) < npos
    BY FilesAssumption
  <2>2. Seq(STRING) \subseteq Seq(Symbols)
    BY SameSequence DEF Symbols
  <2>3. Seq(Seq(STRING)) \subseteq Seq(Seq(Symbols))
    BY <2>2, SameSequence
  <2> QED BY <2>1, <2>3 DEF FileOK
<1> QED BY <1>2, <1>3

\* A line with a key has the name of that key.
LEMMA KeyNames ==
  ASSUME NEW line \in Seq(Symbols), Len(line) < npos
  PROVE  Names(line, Key(line))
<1>0. Len(line) \in Nat
  OBVIOUS
<1>1. CASE Key(line) = line
  BY <1>1 DEF Names
<1>2. CASE /\ Separator(line) \in 0 .. Len(line) - 1
           /\ line[Separator(line) + 1] = CONFIG_KEY_SEPARATOR
           /\ Key(line) = SubSeq(line, 1, Separator(line))
  <2> DEFINE n == Separator(line) + 1
  <2>1. n \in 1 .. Len(line) /\ n - 1 = Separator(line)
    BY <1>0, <1>2
  <2>2. SubSeq(line, 1, n) = Key(line) \o <<CONFIG_KEY_SEPARATOR>>
    <3>1. 1 \in 1 .. Len(line)
      BY <2>1
    <3> HIDE DEF n
    <3>2. SubSeq(line, 1, n) = SubSeq(line, 1, n - 1) \o <<line[n]>>
      BY <2>1, <3>1, SubSeqRecursiveSecond
    <3> USE DEF n
    <3> QED BY <1>2, <2>1, <3>2
  <2>3. Key(line) \in Seq(Symbols)
    <3>1. \A k \in 1 .. Separator(line) : line[k] \in Symbols
      BY <1>0, <1>2, LenProperties
    <3> QED BY <1>2, <3>1, SubSeqProperties
  <2>4. Key(line) \o <<CONFIG_KEY_SEPARATOR>> = Append(Key(line), CONFIG_KEY_SEPARATOR)
    BY <2>3, AppendIsConcat DEF CONFIG_KEY_SEPARATOR
  <2> QED BY <2>1, <2>2, <2>4 DEF Names
<1> QED BY <1>1, <1>2, KeyOfLine

\* Where the separator of a parameter is.
LEMMA ParameterSeparator ==
  ASSUME NEW line \in Seq(Symbols), NEW k \in DOMAIN line,
         IsParameter(line, SubSeq(line, 1, k - 1), SubSeq(line, k + 1, Len(line)))
  PROVE  line[k] = CONFIG_KEY_SEPARATOR /\ \A j \in 1 .. k - 1 : line[j] # CONFIG_KEY_SEPARATOR
<1> DEFINE key == SubSeq(line, 1, k - 1)
           value == SubSeq(line, k + 1, Len(line))
           sep == <<CONFIG_KEY_SEPARATOR>>
<1>0. Len(line) \in Nat /\ DOMAIN line = 1 .. Len(line) /\ k \in 1 .. Len(line)
      /\ \A j \in 1 .. Len(line) : line[j] \in Symbols
  BY LenProperties
<1>1. key \in Seq(Symbols) /\ Len(key) = k - 1 /\ \A j \in 1 .. k - 1 : key[j] = line[j]
  <2>1. k - 1 \in Int /\ 1 \in Int /\ \A j \in 1 .. k - 1 : line[j] \in Symbols
    BY <1>0
  <2>2. /\ SubSeq(line, 1, k - 1) \in Seq(Symbols)
        /\ Len(SubSeq(line, 1, k - 1)) = IF 1 <= k - 1 THEN k - 1 - 1 + 1 ELSE 0
        /\ \A j \in 1 .. k - 1 - 1 + 1 : SubSeq(line, 1, k - 1)[j] = line[1 + j - 1]
    BY <2>1, SubSeqProperties
  <2> QED BY <1>0, <2>2
<1>2. value \in Seq(Symbols)
  <2>1. Len(line) \in Int /\ k + 1 \in Int /\ \A j \in k + 1 .. Len(line) : line[j] \in Symbols
    BY <1>0
  <2> QED BY <2>1, SubSeqProperties
<1>3. sep \in Seq(Symbols) /\ Len(sep) = 1 /\ sep[1] = CONFIG_KEY_SEPARATOR
  <2>1. CONFIG_KEY_SEPARATOR \in Symbols
    BY DEF Symbols
  <2>2. sep \in Seq(Symbols)
    BY <2>1, SymbolLines
  <2> QED BY <2>2
<1>4. line = (key \o sep) \o value /\ \A j \in DOMAIN key : key[j] # CONFIG_KEY_SEPARATOR
  BY DEF IsParameter
<1> HIDE DEF key, value, sep
<1>5. /\ key \o sep \in Seq(Symbols) /\ Len(key \o sep) = k
      /\ (key \o sep)[k] = CONFIG_KEY_SEPARATOR
  <2>1. /\ key \o sep \in Seq(Symbols) /\ Len(key \o sep) = Len(key) + Len(sep)
        /\ \A j \in 1 .. Len(key) + Len(sep) :
             (key \o sep)[j] = IF j <= Len(key) THEN key[j] ELSE sep[j - Len(key)]
    BY <1>1, <1>3, ConcatProperties
  <2>2. k \in Int /\ 1 <= k /\ Len(key) = k - 1 /\ Len(sep) = 1
    BY <1>0, <1>1, <1>3
  <2>3. k - 1 + 1 = k /\ k \in 1 .. k /\ ~ (k <= k - 1) /\ k - (k - 1) = 1
    BY <2>2
  <2> QED BY <1>3, <2>1, <2>2, <2>3
<1>6. ((key \o sep) \o value)[k] = (key \o sep)[k]
  <2>1. Len(value) \in Nat
    BY <1>2
  <2>2. k \in 1 .. Len(key \o sep) + Len(value) /\ k <= Len(key \o sep)
    BY <1>0, <1>5, <2>1
  <2> QED BY <1>2, <1>5, <2>2, ConcatProperties
<1>7. DOMAIN key = 1 .. k - 1
  BY <1>1, LenProperties
<1> QED BY <1>1, <1>4, <1>5, <1>6, <1>7

\* No line after a parameter that lacks its name changes it.
Kept(lines, configuration) ==
  \A n \in DOMAIN lines : \A k \in DOMAIN lines[n] :
    LET key == SubSeq(lines[n], 1, k - 1)
        value == SubSeq(lines[n], k + 1, Len(lines[n]))
    IN  /\ IsParameter(lines[n], key, value)
        /\ \A later \in n + 1 .. Len(lines) : ~Names(lines[later], key)
        => key \in DOMAIN configuration /\ configuration[key] = value

LEMMA ParameterRead ==
  ASSUME NEW lines, FileOK(lines)
  PROVE  Kept(lines, read(lines))
<1> SUFFICES ASSUME NEW n \in DOMAIN lines, NEW k \in DOMAIN lines[n],
                    NEW key, key = SubSeq(lines[n], 1, k - 1),
                    NEW value, value = SubSeq(lines[n], k + 1, Len(lines[n])),
                    IsParameter(lines[n], key, value),
                    \A later \in n + 1 .. Len(lines) : ~Names(lines[later], key)
             PROVE  key \in DOMAIN read(lines) /\ read(lines)[key] = value
  BY DEF Kept
<1>0. /\ Len(lines) \in Nat /\ n \in 1 .. Len(lines)
      /\ \A m \in 1 .. Len(lines) : lines[m] \in Seq(Symbols) /\ Len(lines[m]) < npos
  BY LenProperties DEF FileOK
<1>1. PICK f : IsLoop(lines, f, Len(lines)) /\ read(lines) = f[Len(lines)]
  BY <1>0, ReadIsLoop
<1>2. \A m \in 1 .. Len(lines) : f[m] = After(lines[m], f[m - 1])
  <2> SUFFICES ASSUME NEW m \in 1 .. Len(lines) PROVE f[m] = After(lines[m], f[m - 1])
    OBVIOUS
  <2>1. m \in 0 .. Len(lines) /\ m # 0
    BY <1>0
  <2> QED BY <1>1, <2>1 DEF IsLoop
<1>3. Key(lines[n]) = key /\ Value(lines[n]) = value /\ Counts(lines[n])
  <2>1. /\ lines[n][k] = CONFIG_KEY_SEPARATOR
        /\ \A j \in 1 .. k - 1 : lines[n][j] # CONFIG_KEY_SEPARATOR
    BY <1>0, ParameterSeparator
  <2>2. k \in 1 .. Len(lines[n])
    BY <1>0, LenProperties
  <2>3. Key(lines[n]) = key /\ Value(lines[n]) = value
    BY <1>0, <2>1, <2>2, ParameterParsed
  <2>4. Counts(lines[n])
    BY <1>0, <2>2, EmptySeq DEF Counts, IsParameter
  <2> QED BY <2>3, <2>4
<1> DEFINE Lost == {m \in n .. Len(lines) : ~ (key \in DOMAIN f[m] /\ f[m][key] = value)}
<1>4. Lost = {}
  <2> SUFFICES ASSUME Lost # {} PROVE FALSE
    OBVIOUS
  <2>1. PICK m \in Lost : \A l \in Lost : m <= l
    <3>1. Lost \in SUBSET Nat
      BY <1>0
    <3> HIDE DEF Lost
    <3> QED BY <3>1, Smallest
  <2>2. m # n
    BY <1>0, <1>2, <1>3 DEF After, Set
  <2>3. m - 1 \in n .. Len(lines) /\ m \in n + 1 .. Len(lines) /\ ~ (m <= m - 1)
    <3>1. m \in n .. Len(lines) /\ n \in Int /\ Len(lines) \in Int
      BY <1>0, <2>1
    <3> HIDE DEF Lost
    <3> QED BY <2>2, <3>1
  <2>4. key \in DOMAIN f[m - 1] /\ f[m - 1][key] = value
    BY <2>1, <2>3
  <2>5. lines[m] \in Seq(Symbols) /\ Len(lines[m]) < npos /\ f[m] = After(lines[m], f[m - 1])
    BY <1>0, <1>2, <2>3
  <2>6. Key(lines[m]) # key
    BY <2>3, <2>5, KeyNames
  <2>7. key \in DOMAIN f[m] /\ f[m][key] = value
    BY <2>4, <2>5, <2>6 DEF After, Set
  <2> QED BY <2>1, <2>7
<1>5. Len(lines) \in n .. Len(lines) /\ Len(lines) \notin Lost
  <2>1. Len(lines) \in n .. Len(lines)
    BY <1>0
  <2> QED BY <1>4, <2>1
<1> QED BY <1>1, <1>5

-----------------------------------------------------------------------------
(* Every variable of the program keeps to its type. *)
THEOREM TypeCorrect == Spec => []TypeOK
<1>1. IInv => TypeOK
  BY DEF IInv
<1> QED BY <1>1, Always, PTL

(* m_pending_accepts counts the AcceptEx calls that have not completed     *)
(* (TCPServer.h:409-410), whichever of them fail: a failed first one stays *)
(* counted, any other is not, and the one just posted is counted late.     *)
THEOREM AcceptsCounted == Spec => []PendingAcceptsExact
<1>1. IInv => PendingAcceptsExact
  <2> DEFINE held == Cardinality(accepting) + Cardinality(accepted)
             uncounted == IF listener = "counting" THEN 1 ELSE 0
             firstFailed == IF main = "failed" /\ acceptFailed /\ listener = "none" THEN 1 ELSE 0
  <2> SUFFICES ASSUME AcceptInv PROVE m_pending_accepts + uncounted = held + firstFailed
    BY DEF IInv, PendingAcceptsExact
  <2>1. NotPosted => held = 0
    BY FS_EmptySet DEF NotPosted
  <2>2. Posted => held = 1
    <3> SUFFICES ASSUME Posted PROVE held = 1
      OBVIOUS
    <3>1. \/ accepting = {m_accept_ctx} /\ accepted = {}
          \/ accepting = {} /\ accepted = {m_accept_ctx}
      BY DEF Posted
    <3>2. Cardinality({m_accept_ctx}) = 1 /\ Cardinality({}) = 0
      BY FS_EmptySet, FS_Singleton
    <3> QED BY <3>1, <3>2
  <2> HIDE DEF held
  <2>3. CASE listener = "none"
    <3>1. \/ (NoAccept \/ OneAccept) /\ firstFailed = 0
          \/ NotPosted /\ m_pending_accepts = 1 /\ firstFailed = 1
      BY <2>3 DEF AcceptInv, StartInv, BeforeAccept
    <3> QED BY <2>1, <2>2, <2>3, <3>1 DEF NoAccept, OneAccept
  <2>4. CASE listener # "none"
    <3>1. \/ listener # "counting" /\ (NoAccept \/ OneAccept)
          \/ listener = "counting" /\ Posted /\ m_pending_accepts = 0
      BY <2>4 DEF AcceptInv, ListenerInv
    <3> QED BY <2>1, <2>2, <2>4, <3>1 DEF NoAccept, OneAccept
  <2> QED BY <2>3, <2>4
<1> QED BY <1>1, Always, PTL

(* At most one AcceptEx is outstanding, in the context that the listener   *)
(* knows and none that it has deleted, and only a failed call leaves the   *)
(* listener without one (TCPServer.h:220-229).                             *)
THEOREM AcceptingKept == Spec => []KeepsAccepting
<1>1. IInv => KeepsAccepting
  <2> SUFFICES ASSUME AcceptInv PROVE KeepsAccepting
    BY DEF IInv
  <2>1. NotPosted \/ Posted
    BY DEF AcceptInv, StartInv, ListenerInv, NoAccept, OneAccept, BeforeAccept
  <2>2. accepting \cup accepted \subseteq {m_accept_ctx}
    BY <2>1 DEF NotPosted, Posted
  <2>3. Posted => accepting \cup accepted # {}
    BY DEF Posted
  <2>4. NotPosted => accepting \cup accepted = {}
    BY DEF NotPosted
  <2> QED BY <2>2, <2>3, <2>4 DEF AcceptInv, ListenerInv, NoAccept, OneAccept, KeepsAccepting
<1> QED BY <1>1, Always, PTL

(* The workers of the application, which use the server, have all ended    *)
(* when its destructor begins (PulseNet.cpp:71-74).                        *)
THEOREM ServerDestroyedLast == Spec => []ServerOutlivesPool
<1>1. IInv => ServerOutlivesPool
  BY PoolWorkers DEF IInv, PoolInv, PoolPhase, ServerOutlivesPool
<1> QED BY <1>1, Always, PTL

(* A worker takes at most one request after the pool was told to stop. *)
THEOREM LastRequests == Spec => []OneMoreEach
<1>1. IInv => OneMoreEach
  BY CallingFinite, AppsAssumption, TypeParts DEF IInv, LateInv, OneMoreEach, RequestTypes
<1> QED BY <1>1, Always, PTL

(* A parameter of the configuration file is in the configuration with its  *)
(* value, unless a later line has its name.                                *)
THEOREM ParametersRead == Spec => []ParametersKept
<1>1. IInv => ParametersKept
  <2> SUFFICES ASSUME IInv, main = "console" PROVE Kept(file, m_config)
    BY DEF ParametersKept, Kept
  <2>1. file \in Files \cup {DefaultFile} /\ m_config = read(file)
    BY DEF IInv, ConfigInv, Afterwards
  <2>2. Kept(file, read(file))
    BY <2>1, FilesOK, ParameterRead
  <2> QED BY <2>1, <2>2
<1> QED BY <1>1, Always, PTL
=============================================================================
