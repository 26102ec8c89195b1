# PulseNet, specified

TLA+ models of PulseNet, the C++20 TCP/HTTP server on Windows I/O completion
ports under `src/`, with TLC configurations and TLAPS proofs.

## The system

| component | state | operations | talks to |
|---|---|---|---|
| `TCPServer` (`networking/TCPServer.h`) | client list, free ids, request queue, one id queue per assembler worker, the accept context | `start`, `stop` (empty), `send`, `next`, the listener loop, `assemblerWorker`, `addClient`, `getClient`, `terminateClient`, the posts of overlapped operations | the kernel (AcceptEx, WSARecv, WSASend, the completion port), the assembler, the application |
| `Client` (`networking/Client.*`) | id, reference count, disconnecting flag, receive buffer and length, outbound queue, sending flag and its mutex, two OVERLAPPEDs | increments, decrements, `disconnect` | shared by every thread of the server |
| `ThreadSafeQueue` (`networking/ThreadSafeQueue.h`) | a queue, a mutex, a condition variable | `push`, `pop` | the listener pushes ids, workers pop them; workers push requests, the application pops them |
| `ThreadPool` (`networking/ThreadPool.*`) | the threads, `m_running` | `run`, `stop`, `worker` | runs `assemblerWorker` and the application's callback |
| `HttpAssembler` (`networking/http/HttpAssembler.*`) | one parser state per client id, guarded by a shared mutex | `feed`, the limits' setters | called by the workers on the receive buffer of a client |
| `HttpMessage`, `Utils` | headers, body; pure functions on strings | `addHeader`, `headerContainsValue`, `containsToken`, `parseHexadecimal` | the assembler, the application |
| `main` (`PulseNet.cpp`) | the server and a pool of four threads | starts the server, runs the pool and the console; a worker takes a request and answers it unless it looks like a chunk of a chunked request with something in it | everything |
| `ConfigParser` (`utils/ConfigParser.*`) | the parameters | creates `config.conf`, reads it | `main` |
| `Console`, `Commands` | the registered commands | runs a line of the standard input | `main`, `showClients` of the server |
| `Logger`, `LoggerInterface`, `LoggerManager` | files, a level | output | everybody |

What is hard in it:

- The lifetime of a `Client` is a hand-written protocol. Its raw pointer is the
  completion key of every operation, its reference count is incremented and
  decremented at a dozen places by the listener, the workers and the
  application, and whoever finds the count at zero on a disconnecting client
  frees it by id.
- Ids are positions of the client list and are reused at once, while requests
  and queued ids keep them.
- A completion may be handled before the thread that posted the operation has
  gone on.
- Sends are serialized per client by a flag, a queue and a mutex that the
  listener shares with every sender.
- The parser keeps its state between segments that the network cuts anywhere,
  and moves its buffer when it is full; the state stays when the id passes to
  another connection.
- Start-up is a row of calls each of which may fail, and nothing shuts the server
  down: the end of `main` destroys a pool whose workers wait in `next()`, and then
  a server whose threads still run.

`PROJECT.json` lists every hazard at its line with the properties that cover it.

## Modules

### `TCPServer.tla`, `Outbox.tla`

The listener, the assembler workers, the application threads, and the kernel
behind them. `Clients` is the set of connections; each becomes one `Client`
object when it is accepted.

One step is one access to state other threads can see: a load or a store of an
atomic, a critical section of `m_mtx`, a push or a pop of a queue, a WSARecv or
a WSASend. `m_send_mtx` is held across several of these, so taking it and giving
it back are steps of their own. Steps are merged only where nobody can tell:

- `isDisconnecting() && getReferenceCount() == 0` is two loads. The flag is
  never cleared, so the outcome is the one of a single test at the second load.
- `m_is_sending` is read and written under `m_send_mtx` only. Its store in
  `postSendEvent` goes with the increment that follows it.
- The listener removes up to 64 packets at a time and is the only thread that
  removes any: it may as well take them one by one. The model lets it take them
  in any order.

| code | model |
|---|---|
| `m_client_list`, `m_free_ids` | `client_list`, `free_ids` (id *i* is position *i* + 1) |
| `Client::m_reference_count`, `m_is_disconnecting`, `m_is_sending`, `m_id` | `refs`, `disconnecting`, `is_sending`, `cid` |
| `Client::m_outbound_message_queue` | `outq`; a buffer is a part of a message, and a message is whom it answers and the thread that sends it (`Message`, `Chunks`) |
| `Client::m_recv_len` | `recv_len`, the segments no `feed` has seen |
| `m_send_mtx` | `send_mtx`, its holder |
| `m_assembling_queues`, `m_requests_queue` | `assembling`, `requests` |
| operations the kernel holds, packets on the port | `rx`, `tx`, `packets` |
| program counter, function, its `Client*`, the caller's `Client*` | `pc`, `fn`, `ptr`, `outer` |

| code | actions |
|---|---|
| listener, new connection (`TCPServer.h:196-230`) | `addClient`, `postReceiveEvent`, `CountPosted` or `PostFailed`, `DropGuard`, `Release`, `CheckLast`, `terminateClient`, `postAcceptExEvent` |
| listener, a completion (231-285) | `Dequeue`, `Dispatch`, then `PushToAssembler`, `HangUp` or `CompleteSend` |
| `assemblerWorker` (588-629) | `PopClientId`, `getClient`, `Feed`, `createRequest`, `DisconnectFaulty`, and the common steps |
| `next` and the callback of `main` | `NextRequest` |
| `send` (294-339) | `getClient`, `Enqueue`, `postSendEvent`, ..., `Unlock` |
| kernel and peers | `Connect`, `PeerCloses`, `ReceiveCompletes`, `ReceiveEnds`, `SendCompletes` |

WSARecv and WSASend may fail at any post, whether the peer is there or not
(`postReceiveEvent`, `postSendEvent`): the code marks the client and goes on, and
neither closes the socket nor cancels the receive that is pending. So a client that
was given up stays for as long as its peer is there and silent, which
`ConnectionsReclaimed` states as the one case (`WaitsForPeer`); when the peer leaves,
it is freed.

What `feed` does to the bytes is a choice here: it completes some messages, none,
or finds an error, and it finds something only if bytes arrived.

Freed memory keeps its contents. A thread that uses a client after its
destruction is a fault of its own (`NoUseAfterFree`); the other properties are
checked on behaviours in which such a thread reads what was there.

The application answers a request or not: `main` answers every message unless it
is chunked and not empty, which depends on bytes that this module does not have
(`HttpConversation` has them).

`Outbox` is what the output of one connection promises: messages are queued
whole, in one or more parts behind all that is queued, the buffer at the head is the
one being sent, it leaves when it was sent, and a buffer that cannot be sent blocks
what is behind it. The tags of the buffers show a message that overtakes another or
lands between the parts of one. `Output(c)` maps the
server to it for every client *c*: `queue` is `outq[c]`, and `Phase(c)` is
"sending" while a send is in flight, "broken" when `m_is_sending` is set with none
in flight and no thread about to post one, "idle" otherwise.

`MCTCPServer.tla` holds the sets and bounds of the runs. The theorems are in
`TCPServerProofs.tla` (types, reference counts), `TCPServerListProofs.tla` (the
ids), `TCPServerSendProofs.tla` (the send pipeline and the refinement of `Outbox`)
and `TCPServerReceiveProofs.tla` (the receives and the buffer they fill).

### `ThreadSafeQueue.tla`, `BlockingQueue.tla`

The monitor that carries ids and requests: `Push` and `Notify` are `push()`,
whose `notify_one` comes after the mutex is released; `CallPop`, `Pop`, `Wait`
and `SpuriousWakeup` are `pop()`. A critical section is one step, because nobody
blocks inside one except in `wait`, which releases the mutex. `BlockingQueue` is
what the monitor promises: items come out once, in order, and callers are served
while there are items. `ThreadSafeQueueProofs.tla` has the theorems.

### `ThreadPool.tla`

`run` (`run`, `Spawn`, `Append`), `stop` (`stop`, `Join`, `Clear`) and `worker`
(`Enter`, `Call`, `CallbackReturns`, `Leave`, `Exit`). A thread may write
`m_threads[id].status` while `run` still grows the vector: this data race is a
write that may be lost. A crash, its other outcome, would end the behaviour. The
owner calls `run` on a stopped pool only, as the program does.
`ThreadPoolProofs.tla` has the theorems.

### `HttpAssembler.tla`

`feed` for one id: a step is one byte, the arrival of a segment or the end of a
call. A symbol stands for a byte; a method, an HTTP version and a header name are
one symbol, a digit is a symbol, and the limits count symbols. The buffer is the
part of the memory that holds received bytes.

| code (`HttpAssembler.cpp`) | model |
|---|---|
| the cases of the switch, one byte each | `FirstWord`, `RequestUri`, `HttpVersion`, `HeaderName`, `HeaderValue`, `Body`, `ChunkSize`, `Chunk`, `SkipLine`, ..., all in `ParseByte` |
| the four `push_back` of a message with what follows them | `DeliverHeaders`, `DeliverBody`, `DeliverChunk`, `DeliverEndOfChunks` |
| a full buffer (623-672) | `FlushBody`, `DropParsedLines` (with `Compacted`, the bytes that `memmove` really moves) and `OutOfBuffer` |
| an error (674-693) | `ReportError`, which drops the messages of the call as the worker does (`TCPServer.h:601-613`) |
| `body.reserve()` of a negative length | `Throw`, which ends the process |
| `containsToken`, `toLowerAscii`, `parseHexadecimal` (`Utils.cpp`) | operators of the same names, loop by loop |
| `HttpStreamState` | `st`, field by field, without the fields nothing reads |
| `resetState` (733-760) | `resetState(s)`, assignment by assignment; `StartsFresh` compares what it leaves with a new state |
| `result.messages`, what the worker pushes | `result`, `out` |

Headers that were moved into a message are empty afterwards, in the state of the
parser, as the standard library leaves them. `Reconnect` gives the id to another
connection; nothing resets the state of the parser then.
`HttpAssemblerProofs.tla` has the theorems.

### `HttpConversation.tla`, `MessageStream.tla`

The parser at work on what a client writes: `Render` writes a request down,
`Delivery` says which messages the application should get for it, `Answered` is
the condition of `main`. `MessageStream` is the abstract view: messages come in
order, one or more at a time, and all of them in the end.
`MCHttpConversation.tla` has the requests, streams and faults of the runs.

### `PulseNet.tla`, `ConfigParser.tla`

The program. `main` is a variable that walks from the first statement of `main()`
to the destructor of the server; the pool of the application is an instance of
`ThreadPool` whose callback returns when it has taken a request.

| code | model |
|---|---|
| `Logger::getInstance`, `ConfigParser` (`PulseNet.cpp:15-20`) | `OpenLogs`, `OpenConfig`, `ReadConfig`, each of which may end the process |
| `TCPServer::start` (`TCPServer.h:121-291`) | `setupSocket`, `listen`, `FirstAccept`, `StartListener`, `StartAssembler` for each worker; an exception ends in `failed` |
| `test.run`, `~ThreadPool` | `RunPool`, `DestroyPool`, of the steps of `ThreadPool`; `SpawnFails`, outside the try block, ends the process |
| `Console::run`, `registerCommands` | `EnterLine`, `EndOfInput` |
| the listener's part in accepting (196-230) | `AcceptConnection`, `Rearm`, `CountAccept`; a context is its address, which may be used again, and an AcceptEx may complete before it is counted |
| the warning of a failed AcceptEx (744) | `WarningEndsProcess`: the error code is added to a pointer |
| the callback of the pool | `Answer` |

A thread that cannot be created is an exception: in `start()` it leaves the listener,
and perhaps some workers, running. The model goes on with them and ends where `main`
does: at `failed` the destructor of a server whose listener is joinable ends the
process, and so does the one at `destroying server`.

`ConfigParser` has `read` as a function of the lines, with `find` and `substr` of
the standard library on positions of type `size_t`, whose width `SizeRange` stands
for: a line without a separator relies on `npos + 1` being 0. `MCPulseNet.tla` has
the files of the run, and `PulseNetProofs.tla` the theorems.

## Runs

| run | bounds | shows |
|---|---|---|
| `turnover` | 2 connections, the first of 2 segments, the second of none; 2 workers, 2 application threads (symmetric), 1 message per feed, 1 buffer per message | `TypeOK`, `RefAccounting`, `FreeListExact`, `OneCustodian`, `NoDeafClient`, `SendPipeline`, `NoStrandedOutput` |
| `progress` | 1 connection of 2 segments, 1 worker, 1 application thread, 1 message per feed, up to 2 buffers per message; fair | `OutputInOrder`, `ConnectionsReclaimed`, `OutputDrains`, `ThreadsReturn` |
| `monitor` | 2 producers, 3 consumers, 2 items, 3 places; fair | `TypeOK`, `NoLostWakeup`, `IsABlockingQueue` |
| `pool` | 3 workers, 2 runs; fair | `TypeOK`, `OneThreadPerId`, `StopWaitsForAll`, `StopReturns` |
| `messages` | every pair of a request (of 13) and one of the 7 plain ones, buffer of 20; fair | `IsAMessageStream` |
| `faults` | 7 requests, a response and a negative length, any one symbol replaced by one of ten or left out, buffer of 16; then a second connection with the state the first one left | `TypeOK`, `OffsetsInOrder`, `RoomLeft`, `StartsFresh`, `LimitsKept` |
| `program` | 3 files and none, 2 assembler workers, 2 workers of the application, 2 connections, 3 requests, 2 commands; fair | `TypeOK`, `ParametersKept`, `PendingAcceptsExact`, `KeepsAccepting`, `ServerOutlivesPool`, `OneMoreEach`, `RequestsTaken` |

Server. One segment is enough for a request, a response, a failure of either
post and a disconnection; two let an id wait in the queue of a worker while a
response to the first one fails, which is what it takes for a stale id. Two
connections are what it takes to reuse an id, and two workers are what two ids
need to be served at once. In `turnover` two application threads and a worker's
error report contend for `m_send_mtx` of one client with the listener, and the
application threads are interchangeable: no value of the model orders them, and no
property names one. In `progress` the application thread and the error report are
two senders with messages of their own, each of one or two buffers, so that a queue
holds parts of both behind a send in flight; two senders and two parts are what it
takes to overtake, to mix and to strand. Deadlock is not checked: when every
connection is closed and the bounds are used up nothing is left to do;
`ThreadsReturn` says that no thread is stuck on the way.

Queue and pool. A wakeup can be lost or stolen only with a second consumer, and
it must be delayed past a second push; the third consumer takes the item in
between. The second run of the pool meets what the first left behind. Deadlock is
not checked in `pool`: a stopped pool that nobody runs again is at rest.

Parser. The seven plain requests have no body, bodies with a length, no chunks,
two chunks and three, with CR and LF in bodies. Six more have lists of transfer
encodings, with blanks, quotes that hide a comma or a quote, and lists that name
no chunked encoding though they contain the word. A buffer of 20 holds the longest
of their lines and is filled by a request with a body, in every state of the body
(`FlushBody`), and by headers (`DropParsedLines`); the lines of `messages` are
short enough for the compaction that `small_buffer` refutes. The limits of
`faults` are close enough that a replaced digit exceeds them. One connection after
another is what it takes to inherit a parser state. Deadlock is not checked: a
conversation ends.

Program. A file with a name twice and a separator in a value, one with a name
alone and one with comments are what the lines of a file can do to each other, and
the file the program writes itself is the fourth. Two connections let an AcceptEx
fail after one that did not; three requests are one more than there are workers, so
that one can stay behind when the pool stops. Deadlock is not checked: `main` may
wait forever for a worker that nobody sends a request.

Fairness. `progress`: every thread that can run does, which the scheduler of the
operating system gives. A receive on a closed connection ends, which the kernel
does; nobody has to write, to close or to answer a receive that is pending on an open
connection. A send completes: for an open connection this says that the peer reads,
and the code has no timeout for a peer that does not. A post may fail or not as it
likes: nothing is assumed of it. `monitor`: a thread inside
`push` or `pop` goes on; nobody has to call. `pool`: threads run; `StopReturns`
assumes that callbacks return, which `next` and `pop` do only if something is
pushed. `messages`: the network brings what was sent, and the worker runs.
`program` and `deaf_server`: `main`, the listener and the workers run; nobody has to connect, to
send a request, to type or to end the input.

Runs that refute what a comment or a test of the code says, each with the entry
of `PROJECT.json` "findings" that quotes it:

| run | property | what happens |
|---|---|---|
| `use_after_free` | `NoUseAfterFree` | `getClient` hands out a client between another thread's test and its `terminateClient` |
| `misdirected_response` | `ResponsesReachRequester` | a request outlives its connection, its id is reused |
| `deaf_server` | `ListeningMeansAccepting` | the AcceptEx after a connection fails, is not called again, and `m_listening` stays set |
| `small_buffer` | `DeliveredAsSent` | a header line that begins in a full buffer, behind a shorter request line, is compacted with the wrong length |
| `answers` | `OneAnswerPerRequest` | the later chunks of a request have no headers, so `main` answers each |

## Proofs

All theorems hold for every value of the constants under the assumptions that the
modules name.

`TCPServerProofs.tla` (any set of clients, any number of workers and application
threads):

- `TypeCorrect`: `Spec => []TypeOK`. The inductive invariant `TypeInv` adds
  `ControlOK`: at each label, the functions a thread can be in and whether it
  holds a `Client*`. It is needed because the type of what a step stores depends
  on its thread holding a client.
- `ReferencesAccounted`: `Spec => []RefAccounting`. Every step of a thread *t* is
  `Balanced`: it changes the count of each client by what it changes in the
  operations outstanding and in the references *t* holds. `HeldChange` turns the
  change of one thread into the change of the cardinalities of all, by
  the theorems on finite sets. The guard reference shows in the definition of
  `Guards`: a thread that has issued an operation and not counted it holds its
  guard on the operation's behalf, so a completion handled in between keeps the
  balance.

`TCPServerListProofs.tla`: `FreeListKept`. The inductive invariant `ListInv` adds
`Unborn`: what `accept` holds is a connection that has no object yet, so that
`addClient` never puts one into the list twice. `addClient` and `terminateClient`
are the only steps that touch the lists; `WithoutLast` and `WithOneMore` say what
they do to the elements of a sequence without repetition. The proof does not use
that one thread terminates a client: the test `Registered` inside the critical
section is what keeps the free list exact.

`TCPServerSendProofs.tla`: `OneSendAtATime` and `OutputNotStranded` follow from one
invariant. `PipelineInv` says that a thread between `Enqueue` or `CompleteSend` and
`Unlock` holds `m_send_mtx` of its client, so that there is one (`SendMutex`), and
relates, for each client, the queue, `m_is_sending` and the send in flight to
where that thread is (`PipelineAt`): before the post, nothing is in flight and the
queue is not empty; between the post and its count, the one in flight may already
have completed, but cannot be handled, for the listener needs the mutex. Every
step has a lemma for the client it works on; the others are left alone.

`OutputOrdered`, in the same module, is the refinement: for every client, every
step of the server is a step of `Outbox` or changes nothing that it shows. It is an
action property over the invariants above and two more facts. `RolesOK`: only the
listener handles completions. `PostedAt`: a send that a thread has posted and not
counted is in flight, though it may have completed. `Break` happens in two places
(`TCPServer.h:231-285`): the listener could not post the next buffer and leaves
`m_is_sending` set, or a completion comes for a client that is not used any more. A
post that fails in `send` itself does not set the flag, so the output stays idle
and the next `send` tries the same buffer again. `RefAccounting` is needed where a
completion is dispatched: the last reference cannot go while another thread has
posted and not counted, so that the output breaks for good and no thread takes it
up again in the middle.

`TCPServerReceiveProofs.tla`: `ClientsAttended` and `BufferInOneHand`. `AttendedInv` says of a connected
client that the kernel, a queue of ids or a thread has its next receive. Each step
`Attends` to a client: what it takes from one party it gives to the next. The
invariant `ListInv` is needed where a worker looks an id up: that it finds this
client and no other is `FreeListExact`. `AttendedCounted` turns "somebody" into the
count of `NoDeafClient`.

`BufferInOneHand` is that count from above: no lock protects the receive buffer of
a client, and the kernel, a queue of ids and a thread that has its `Client*` hand it
on. Each step is `Harmless` to a client, or `Passes` its buffer: the count of its
parties does not grow. `EntriesAppended` and `EntriesPopped` count the ids in the
queues. The invariant adds `Known`: ids in queues, and ids being looked up, are
those of clients that were accepted, and what was never accepted is untouched. It
is needed because a new client must find no entry with its id. A client that
reuses an id may find one of its predecessor, so `OneCustodian` and the theorem
speak of clients whose id nobody else had.

The assumptions on the server: `NoClient`, `NoThread` and the thread identifiers
differ, there is a worker, the application threads are finitely many.

`ThreadSafeQueueProofs.tla` (any finite sets of producers and consumers):

- `WakeupsKept`: `Spec => []NoLostWakeup`, inductive together with the types. A
  push adds an item and a thread that will notify; a notification turns its
  producer into a consumer about to look; a consumer leaves with an item.
- `RefinesBlockingQueue`: every step is a step of `BlockingQueue` or shows
  nothing. The liveness half of the refinement is `IsABlockingQueue`, checked by TLC.

`ThreadPoolProofs.tla` (any number of workers and runs): `IdsDistinct` and
`StopWaits`. The invariant says for each phase of the owner which threads exist
(`OwnerOK`), and that only threads of the last run are alive and leave only after
`m_running` was cleared (`WorkersOK`).

`HttpAssemblerProofs.tla` (any streams, buffer and limits): `OffsetsKept`,
`RoomKept`, `FreshStart`, `LimitsHold`. The invariant `IInv` adds to the first three
where the checkpoint lies: at or before the line at hand and before the header name
in it (`Ordered`), so that rebasing by it keeps the order, and that the position
reaches the end of the memory only inside `feed` with a full buffer (`Placed`), so
that both ways to free space leave room. `ParsedAfter` is the heart: what one byte
does to a state, by a lemma per state of the parser. None of it needs the id to
stay with one connection. `FreshStart` rests on `ResetFresh`: the assignments of
`resetState` leave every field of a state of its type like that of a new one, which
fails with any one of them left out.

`LimitsHold` needs the limits of bodies ordered as the setters keep them. A body
that does not fit in the buffer is held in two places; `LInv` adds that what is in
both together is what `length_counter` has counted (`Held`), through a flush, a
delivery and the change of connection. The limit is tested after a byte is counted,
and the byte that exceeds it is never stored.

`PulseNetProofs.tla` (any files, any number of workers, connections and requests):
`TypeCorrect`, `AcceptsCounted`, `AcceptingKept`, `ServerDestroyedLast`,
`LastRequests`, `ParametersRead`. One invariant, `IInv`, has a part for each of them:

- `PoolInv`. The pool of the program is an instance of `ThreadPool`, so the
  invariant of `ThreadPoolProofs.tla` holds of it (`SamePool`, `PoolSteps`).
  `PoolPhase` ties the place of `main` to the phase of the pool and `Spawned` says
  that `run` creates every thread: without it a worker could be missing among the
  exited ones when the server is destroyed.
- `AcceptInv`. There is one `AcceptContext`: pending with the kernel, completed and
  waiting for the listener, or nowhere, while the listener rearms and after a post
  has failed. Until there is a listener the place of `main` says which (`StartInv`,
  whose case of a failed first AcceptEx is the one that stays counted), and then the
  place of the listener does (`ListenerInv`). The invariant holds as well after
  `main` has failed to create a worker, while the listener goes on.
- `AssemblersInv`. The workers of the server are created one by one before `main`
  goes on; the types need it.
- `LateInv`. The requests taken since `m_running` was cleared and the workers in
  their callback are together at most as many as there are workers: a worker that
  returns finds the flag cleared and calls no more.
- `ConfigInv`. From the socket on, the configuration is what `read` made of the file.

What `read` makes of a file is a recursive function over its lines. The induction
over them is by the least counterexample: `Smallest` finds it in a set of numbers, by the
well-foundedness of strict inclusion of finite sets, and the step before it refutes
it (`ParameterRead`). On a line, `ParameterParsed` says that `find` and `substr`
split it at the first separator, and `KeyNames` that a line has no other name than
what is before its separator, or the whole line if there is none, when `npos + 1`
is 0 and the value is the line too. `SizeAssumption` gives `size_t` at least the 16
bits of the language, `FilesAssumption` keeps a line shorter than `npos`, as
`max_size()` does, `AppsAssumption` is the test in the constructor of `ThreadPool`,
`BoundsAssumption` makes the bounds numbers.

Only model-checked: what the parser delivers (`IsAMessageStream`; its meaning is
defined through folds over sequences, whose value for any input needs induction
over data) and all liveness, which is out of the prover's reach: `OutputDrains`,
`ConnectionsReclaimed`, `ThreadsReturn`, `StopReturns`, `RequestsTaken` and the
liveness half of `IsABlockingQueue`.

## Plan

Done: the server, the queue, the pool, the parser with the functions on strings it
uses, the conversation, the program with its start, its end and its configuration,
and the abstract output of a connection. Proved: every safety invariant of the
runs that pass, the refinement of `Outbox` and the safety half of that of
`BlockingQueue`. What is left is what the parser delivers: that what one
byte does to a request without a body is a step of `MessageStream` could be proved
for requests of a fixed shape, with the folds unrolled.

## Not modelled

- `stop()` of the server has an empty body. `showClients` only reads. The setters of
  the server and of the parser, which the program does not call, are assumptions on
  the constants.
- The lookup in the map of parser states runs after its lock was released
  (`HttpAssembler.cpp:39`). That is a data race inside the standard library, whose
  outcomes nothing in the code bounds.
- The destruction of the server while its threads run ends the process (its
  listener is joinable), or would wait for workers that nothing wakes. The model of
  the program stops short of it, after a failed start and at the end.
- The creation of a thread fails in `PulseNet` only; `ThreadPool` and `TCPServer`
  begin with threads that exist.
- The warnings of a failed WSARecv and WSASend (`TCPServer.h:834`, `876`) add the
  error code to a pointer, like the one of AcceptEx (744), which is modelled as a
  possible end of the process; in `TCPServer` the thread goes on.
- `addHeader` and the serializers of `HttpMessage` write text that nothing in the
  program reads back. `DefaultMessageAssembler` is not used by the program; it hands
  on whatever is in the buffer. `Server` is a base class with one number.
- `Logger`, `LoggerInterface` and `LoggerManager` are output, of which only the
  exception that ends the process at its start shows.
- `Console::handle` and `Client::addBytesReceived` are never called.
