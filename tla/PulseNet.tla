------------------------------ MODULE PulseNet ------------------------------
(***************************************************************************)
(* The program: main() from its first statement to its last, the start of  *)
(* the server with every call in it that may fail, the listener as far as  *)
(* it accepts connections, and the application's pool at work on the       *)
(* requests, until the console has read everything.                        *)
(*                                                                         *)
(* The pool is a ThreadPool whose callback waits in next() for a request.  *)
(* What the server does between a connection and its requests is the       *)
(* subject of TCPServer; here requests just come, while there is a         *)
(* connection.                                                             *)
(*                                                                         *)
(* Destructors run in the order of the code: the pool's, which joins its   *)
(* workers, and then the server's.  There the model ends, at "destroying   *)
(* server" or, when the start fails, at "failed": nothing ever clears      *)
(* m_listening, so that the threads of the server still run while its      *)
(* members are destroyed, and the join of a worker never returns.          *)
(***************************************************************************)
EXTENDS Integers, FiniteSets, ConfigParser

CONSTANTS
  Files,            \* what config.conf may hold
  NoFile,           \* there is no config.conf
  Commands,         \* what a line of the console may begin with
  NoCommand,        \* a blank line
  NumAssemblers,    \* workers of m_assembler_thread_pool
  NumApps,          \* workers of the application's pool
  MaxConnections,   \* bound: connections
  MaxRequests       \* bound: requests

ASSUME FilesAssumption ==
  \A lines \in Files :
    /\ lines \in Seq(Seq(STRING))
    /\ \A n \in DOMAIN lines : Len(lines[n]) < npos   \* std::string::max_size()
ASSUME AppsAssumption ==   \* the constructor of ThreadPool throws otherwise
  NumApps \in Nat \ {0} /\ NumAssemblers \in Nat \ {0}
ASSUME BoundsAssumption == MaxConnections \in Nat /\ MaxRequests \in Nat

VARIABLES
  main,        \* where main() is, or how it ended
  file,        \* config.conf
  m_config,    \* parser.m_config
  printed,     \* what the console printed last
  m_server_socket, m_listening, m_pending_accepts,
  m_accept_ctx,   \* the address of the AcceptContext
  accepting,   \* addresses that the kernel has AcceptEx calls for
  accepted,    \* addresses in completion packets of AcceptEx
  acceptFailed,   \* history: an AcceptEx failed
  listener,    \* where the listener thread is
  assemblers,  \* workers of m_assembler_thread_pool that exist
  connections, \* connections accepted so far
  arrived,     \* requests so far
  m_requests_queue,   \* how many of them are in the queue
  late,        \* history: requests taken since the pool was told to stop
  m_running, slots, status, owner, i, runs, pc, id    \* of the pool

config == <<file, m_config>>
accept == <<m_pending_accepts, m_accept_ctx, accepting, accepted, acceptFailed>>
server == <<m_server_socket, m_listening, accept, listener, assemblers, connections>>
requests == <<arrived, m_requests_queue, late>>
pool == <<m_running, slots, status, owner, i, runs, pc, id>>
vars == <<main, config, printed, server, requests, pool>>

Pool == INSTANCE ThreadPool WITH m_workers <- NumApps, MaxRuns <- 1

\* AcceptContexts are deleted and allocated one at a time.
Addresses == {1, 2}
Null == 0

Init ==
  /\ main = "logger"
  /\ file \in Files \cup {NoFile} /\ m_config = NoConfig
  /\ printed = "nothing"
  /\ m_server_socket = "NULL" /\ m_listening = FALSE
  /\ m_pending_accepts = 0 /\ m_accept_ctx = Null
  /\ accepting = {} /\ accepted = {} /\ acceptFailed = FALSE
  /\ listener = "none" /\ assemblers = 0 /\ connections = 0
  /\ arrived = 0 /\ m_requests_queue = 0 /\ late = 0
  /\ Pool!Init

\* An exception that nothing catches, or a crash.
Terminated == main = "terminated"

-----------------------------------------------------------------------------
(* Start-up.  Outside the try block an exception ends the process.         *)

\* Logger::getInstance creates its directory.
OpenLogs ==
  /\ main = "logger"
  /\ main' \in {"config", "terminated"}
  /\ UNCHANGED <<config, printed, server, requests, pool>>

\* ConfigParser::ConfigParser; creating or opening the file may fail.
createConfigFileIfNotExists == IF file = NoFile THEN DefaultFile ELSE file
OpenConfig ==
  /\ main = "config"
  /\ \/ /\ main' = "terminated"
        /\ file' \in {file, createConfigFileIfNotExists}
     \/ /\ main' = "read"
        /\ file' = createConfigFileIfNotExists
  /\ UNCHANGED <<m_config, printed, server, requests, pool>>

ReadConfig ==
  /\ main = "read"
  /\ m_config' = read(file)
  /\ main' = "socket"
  /\ UNCHANGED <<file, printed, server, requests, pool>>

\* WSAStartup, WSASocketW or bind may fail.
setupSocket ==
  /\ main = "socket"
  /\ \/ /\ m_server_socket' \in {"NULL", "INVALID", "closed"}
        /\ main' = "failed"
     \/ /\ m_server_socket' = "open"
        /\ main' = "listen"
  /\ UNCHANGED <<config, printed, m_listening, accept, listener, assemblers, connections, requests, pool>>

\* WSAIoctl, listen, and CreateIoCompletionPort twice: a failure leaves the socket open.
listen ==
  /\ main = "listen"
  /\ main' \in {"first accept", "failed"}
  /\ UNCHANGED <<config, printed, server, requests, pool>>

AcceptExFails ==
  /\ acceptFailed' = TRUE
  /\ UNCHANGED accepting

AcceptExSucceeds(ctx) ==
  /\ accepting' = accepting \cup {ctx}
  /\ UNCHANGED acceptFailed

\* The first AcceptEx is counted whether it fails or not.
FirstAccept ==
  /\ main = "first accept"
  /\ m_accept_ctx' \in Addresses
  /\ \/ /\ AcceptExSucceeds(m_accept_ctx')
        /\ main' = "listener"
        /\ UNCHANGED m_server_socket
     \/ /\ AcceptExFails
        /\ m_server_socket' = "closed"
        /\ main' = "failed"
  /\ m_listening' = TRUE
  /\ m_pending_accepts' = m_pending_accepts + 1
  /\ UNCHANGED <<config, printed, accepted, listener, assemblers, connections, requests, pool>>

\* m_listener_thread = std::thread(...)
StartListener ==
  /\ main = "listener"
  /\ \/ main' = "assemblers" /\ listener' = "waiting"
     \/ main' = "failed" /\ UNCHANGED listener
  /\ UNCHANGED <<config, printed, m_server_socket, m_listening, accept, assemblers, connections,
                 requests, pool>>

\* A thread of m_assembler_thread_pool.run().
StartAssembler ==
  /\ main = "assemblers"
  /\ \/ /\ assemblers' = assemblers + 1
        /\ main' = IF assemblers' = NumAssemblers THEN "pool" ELSE main
     \/ main' = "failed" /\ UNCHANGED assemblers
  /\ UNCHANGED <<config, printed, m_server_socket, m_listening, accept, listener, connections,
                 requests, pool>>

\* test.run()
RunPool ==
  /\ main = "pool"
  /\ Pool!run \/ Pool!Spawn \/ Pool!Append
  /\ main' = IF owner' = "running" THEN "console" ELSE main
  /\ UNCHANGED <<config, printed, server, requests>>

\* std::thread throws in test.run(), which is outside the try block.
SpawnFails ==
  /\ main = "pool" /\ owner = "spawning"
  /\ main' = "terminated"
  /\ UNCHANGED <<config, printed, server, requests, pool>>

-----------------------------------------------------------------------------
(* The console, and what comes after it. *)

registered == {"connections"}

\* Console::run on one line; showClients only reads.
EnterLine(command) ==
  /\ main = "console"
  /\ printed' = CASE command = NoCommand -> printed
                  [] command \in registered -> "clients"
                  [] OTHER -> "unknown command"
  /\ UNCHANGED <<main, config, server, requests, pool>>

EndOfInput ==
  /\ main = "console"
  /\ main' = "leaving"
  /\ UNCHANGED <<config, printed, server, requests, pool>>

\* Mutant: server declared after the pool.
ServerFirst ==
  /\ main = "leaving"
  /\ main' = "destroying server"
  /\ UNCHANGED <<config, printed, server, requests, pool>>

\* ~ThreadPool of test; then ~TCPServer begins.
DestroyPool ==
  /\ main = "leaving"
  /\ Pool!stop \/ Pool!Join \/ Pool!Clear
  /\ main' = IF owner' = "idle" THEN "destroying server" ELSE main
  /\ UNCHANGED <<config, printed, server, requests>>

MainNext ==
  \/ OpenLogs \/ OpenConfig \/ ReadConfig
  \/ setupSocket \/ listen \/ FirstAccept
  \/ StartListener \/ StartAssembler \/ RunPool \/ SpawnFails
  \/ DestroyPool

-----------------------------------------------------------------------------
(* The listener, and the network. *)

AcceptExCompletes ==
  /\ ~Terminated /\ connections < MaxConnections
  /\ \E ctx \in accepting :
       /\ accepting' = accepting \ {ctx}
       /\ accepted' = accepted \cup {ctx}
  /\ UNCHANGED <<main, config, printed, m_server_socket, m_listening, m_pending_accepts,
                 m_accept_ctx, acceptFailed, listener, assemblers, connections, requests, pool>>

AcceptConnection ==
  /\ ~Terminated /\ listener = "waiting" /\ m_listening
  /\ m_accept_ctx \in accepted
  /\ accepted' = accepted \ {m_accept_ctx}
  /\ m_pending_accepts' = m_pending_accepts - 1
  /\ connections' = connections + 1
  /\ listener' = "rearming"
  /\ UNCHANGED <<main, config, printed, m_server_socket, m_listening, m_accept_ctx, accepting,
                 acceptFailed, assemblers, requests, pool>>

\* Mutant: the address is forgotten when AcceptEx has been called.
NewContextForgotten(ctx) == m_accept_ctx' = Null

\* The new AcceptContext may get the address of the deleted one.
NewContext(ctx) == m_accept_ctx' = ctx

\* Mutant: a failed AcceptEx counts as pending.
AlwaysCounted(success) == "counting"

AfterPost(success) == IF success THEN "counting" ELSE "waiting"

\* An AcceptEx that fails here is not tried again.
Rearm ==
  /\ ~Terminated /\ listener = "rearming"
  /\ \E ctx \in Addresses :
       /\ NewContext(ctx)
       /\ \/ AcceptExSucceeds(ctx) /\ listener' = AfterPost(TRUE)
          \/ AcceptExFails /\ listener' = AfterPost(FALSE)
  /\ UNCHANGED <<main, config, printed, m_server_socket, m_listening, m_pending_accepts, accepted,
                 assemblers, connections, requests, pool>>

\* The kernel may have completed the AcceptEx by now.
CountAccept ==
  /\ ~Terminated /\ listener = "counting"
  /\ m_pending_accepts' = m_pending_accepts + 1
  /\ listener' = "waiting"
  /\ UNCHANGED <<main, config, printed, m_server_socket, m_listening, m_accept_ctx, accepting,
                 accepted, acceptFailed, assemblers, connections, requests, pool>>

\* The warning of a failed AcceptEx adds the error code to a pointer instead of
\* writing it out: the process may end there.
WarningEndsProcess ==
  /\ ~Terminated
  /\ main = "first accept" \/ listener = "rearming"
  /\ main' = "terminated"
  /\ acceptFailed' = TRUE
  /\ UNCHANGED <<config, printed, m_server_socket, m_listening, m_pending_accepts, m_accept_ctx,
                 accepting, accepted, listener, assemblers, connections, requests, pool>>

RequestArrives ==
  /\ main \notin {"terminated", "failed", "destroying server"}
  /\ connections > 0 /\ assemblers > 0 /\ arrived < MaxRequests
  /\ arrived' = arrived + 1
  /\ m_requests_queue' = m_requests_queue + 1
  /\ UNCHANGED <<main, config, printed, server, late, pool>>

-----------------------------------------------------------------------------
(* The workers of the pool. *)

\* Mutant: next() does not wait for a request.
AnswerAnyway(w) ==
  /\ Pool!CallbackReturns(w)
  /\ m_requests_queue' = m_requests_queue - 1
  /\ late' = IF owner = "joining" THEN late + 1 ELSE late
  /\ UNCHANGED arrived

\* next() returns, and the callback answers the request.
Answer(w) ==
  /\ Pool!CallbackReturns(w)
  /\ m_requests_queue > 0
  /\ m_requests_queue' = m_requests_queue - 1
  /\ late' = IF owner = "joining" THEN late + 1 ELSE late
  /\ UNCHANGED arrived

AppNext(w) ==
  /\ ~Terminated
  /\ \/ Answer(w)
     \/ /\ Pool!Enter(w) \/ Pool!Call(w) \/ Pool!Leave(w) \/ Pool!Exit(w)
        /\ UNCHANGED requests
  /\ UNCHANGED <<main, config, printed, server>>

Next ==
  \/ MainNext
  \/ \E command \in Commands \cup {NoCommand} : EnterLine(command)
  \/ EndOfInput
  \/ AcceptExCompletes \/ AcceptConnection \/ Rearm \/ CountAccept \/ WarningEndsProcess
  \/ RequestArrives
  \/ \E w \in Pool!Workers : AppNext(w)

Spec == Init /\ [][Next]_vars

\* Threads run; nobody has to connect, to send a request or to type.
FairSpec ==
  /\ Spec
  /\ WF_vars(MainNext)
  /\ WF_vars(AcceptConnection \/ Rearm \/ CountAccept)
  /\ \A w \in Pool!Workers : WF_vars(AppNext(w))

-----------------------------------------------------------------------------
(* Every variable keeps to its type. *)
TypeOK ==
  /\ main \in {"logger", "config", "read", "socket", "listen", "first accept", "listener", "assemblers",
               "pool", "console", "leaving", "destroying server", "failed", "terminated"}
  /\ m_server_socket \in {"NULL", "INVALID", "open", "closed"}
  /\ m_listening \in BOOLEAN /\ acceptFailed \in BOOLEAN
  /\ m_pending_accepts \in 0 .. 1
  /\ m_accept_ctx \in Addresses \cup {Null}
  /\ accepting \subseteq Addresses /\ accepted \subseteq Addresses
  /\ listener \in {"none", "waiting", "rearming", "counting"}
  /\ assemblers \in 0 .. NumAssemblers
  /\ connections \in 0 .. MaxConnections
  /\ arrived \in 0 .. MaxRequests /\ m_requests_queue \in 0 .. arrived
  /\ late \in Nat
  /\ Pool!TypeOK

(* Every parameter of the configuration file has the value that is written *)
(* there, unless a later line has its name: also when the program wrote    *)
(* the file itself, and whatever the other lines look like.                *)
Names(line, key) == line = key \/ \E k \in 1 .. Len(line) : SubSeq(line, 1, k) = Append(key, CONFIG_KEY_SEPARATOR)
IsParameter(line, key, value) ==
  /\ line = key \o <<CONFIG_KEY_SEPARATOR>> \o value
  /\ \A k \in DOMAIN key : key[k] # CONFIG_KEY_SEPARATOR
  /\ ~IsComment(line)
ParametersKept ==
  main = "console" =>
    \A n \in DOMAIN file : \A k \in DOMAIN file[n] :
      LET key == SubSeq(file[n], 1, k - 1)
          value == SubSeq(file[n], k + 1, Len(file[n]))
      IN  /\ IsParameter(file[n], key, value)
          /\ \A later \in n + 1 .. Len(file) : ~Names(file[later], key)
          => key \in DOMAIN m_config /\ m_config[key] = value

(* m_pending_accepts "maintains a count of AcceptEx calls that have been   *)
(* initiated but not yet completed" (TCPServer.h:409-410), of those the    *)
(* kernel holds and those that wait for the listener: it is behind by the  *)
(* one that was just posted, whose completion may come first, and through  *)
(* every failure of AcceptEx it is exact, but for the first one, whose     *)
(* failure leaves it at 1 (against TCPServer.h:413-415).                   *)
PendingAcceptsExact ==
  LET uncounted == IF listener = "counting" THEN 1 ELSE 0
      firstFailed == IF main = "failed" /\ acceptFailed /\ listener = "none" THEN 1 ELSE 0
  IN  m_pending_accepts + uncounted = Cardinality(accepting) + Cardinality(accepted) + firstFailed

(* Over any number of connections at most one AcceptEx is outstanding, in  *)
(* the context by which the listener knows it and never in one that it     *)
(* has deleted, and the listener does not go back to wait for connections  *)
(* without one, unless the call failed.                                    *)
KeepsAccepting ==
  /\ accepting \cup accepted \subseteq {m_accept_ctx}
  /\ listener = "rearming" => accepting \cup accepted = {}
  /\ listener \in {"waiting", "counting"} /\ ~acceptFailed => accepting \cup accepted # {}

(* The server is not destroyed before the last worker of the application,  *)
(* which calls next() and send() of it, has ended.                         *)
ServerOutlivesPool ==
  main = "destroying server" => \A w \in Pool!Workers : pc[w] = "exited"

(* Once the pool was told to stop, each of its workers takes at most one   *)
(* more request; those behind them stay in the queue, unanswered.          *)
OneMoreEach == late <= NumApps

(* While the console waits for input, requests do not stay in the queue.   *)
RequestsTaken ==
  m_requests_queue > 0 /\ main = "console" ~> m_requests_queue = 0 \/ main # "console"

-----------------------------------------------------------------------------
(* What the comments of the code promise and the code does not keep. *)

(* m_listening is "true: Server is accepting connections"                  *)
(* (TCPServer.h:480-481): while the program runs, a server that listens    *)
(* comes back to awaiting a connection, or one has come.                   *)
ListeningMeansAccepting ==
  m_listening /\ main = "console" ~> accepting \cup accepted # {} \/ main # "console"
=============================================================================
