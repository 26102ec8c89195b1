------------------------------ MODULE TCPServer ------------------------------
(***************************************************************************)
(* The life of the Client objects of a TCPServer: who references them, who *)
(* frees them, and which overlapped operations are outstanding on them.    *)
(*                                                                         *)
(* Threads: the listener (the loop over the I/O completion port), the      *)
(* assembler workers, and the application threads that take requests with  *)
(* next() and answer with send().  One step is one access to shared state: *)
(* an atomic load or store, a critical section of m_mtx, a push or pop of  *)
(* a ThreadSafeQueue, a WSARecv or WSASend.  Taking m_send_mtx and giving  *)
(* it back are steps of their own.  Reads that no other thread can tell    *)
(* apart from the next step of the same thread are part of that step.      *)
(*                                                                         *)
(* A connection and its Client object are one element of Clients.  Memory  *)
(* of a freed object keeps its last contents: a thread that goes on using  *)
(* it (see NoUseAfterFree) reads what was there.                           *)
(***************************************************************************)
EXTENDS Integers, Sequences, FiniteSets

CONSTANTS
  Clients,      \* connections; each becomes one Client object when accepted
  NoClient,     \* nullptr
  Listener,     \* m_listener_thread
  NumWorkers,   \* assembler_workers
  Apps,         \* application threads that call next() and send()
  NoThread,     \* the owner of a free mutex
  MaxSegments,  \* bound: receives that bring data, per connection
  MaxMessages,  \* bound: messages one feed() completes
  MaxChunks     \* bound: buffers one outgoing message is cut into

Workers == 0 .. NumWorkers - 1
Threads == {Listener} \cup Workers \cup Apps

ASSUME ClientsAssumption ==
  /\ NoClient \notin Clients
  /\ {"posted", "none"} \cap Clients = {}
ASSUME ThreadsAssumption ==
  /\ NumWorkers \in Nat \ {0}      \* ThreadPool rejects fewer than one worker
  /\ Listener \notin Workers \cup Apps
  /\ Workers \cap Apps = {}
  /\ NoThread \notin Threads
  /\ IsFiniteSet(Apps)
ASSUME BoundsAssumption ==
  MaxSegments \in [Clients -> Nat] /\ MaxMessages \in Nat /\ MaxChunks \in Nat \ {0}

VARIABLES
  client_list,    \* m_client_list; id i of the code is position i + 1
  free_ids,       \* m_free_ids
  mem,            \* the Client object: not yet created, live or freed
  cid,            \* Client::m_id (as a position of client_list)
  refs,           \* Client::m_reference_count
  disconnecting,  \* Client::m_is_disconnecting
  recv_len,       \* of Client::m_recv_len, the segments no feed() has seen yet
  is_sending,     \* Client::m_is_sending
  outq,           \* Client::m_outbound_message_queue
  send_mtx,       \* Client::m_send_mtx: its holder
  assembling,     \* m_assembling_queues
  requests,       \* m_requests_queue
  accept,         \* the AcceptEx: "posted", "none", or the connection it took
  peer,           \* the other end: "absent", "open" or "gone"
  segments,       \* receives that brought data, counted against MaxSegments
  rx, tx,         \* WSARecv and WSASend operations the kernel holds
  packets,        \* completion packets on the port, by kind
  pc, fn,         \* where a thread is, and in which function
  ptr,            \* the Client* of that function
  outer,          \* the Client* of the assemblerWorker that called send()
  job,            \* the id a thread took from a queue, and whom it answers
  messages        \* result.messages a worker has yet to push

objects == <<mem, cid, disconnecting, recv_len, is_sending, outq>>
lists   == <<client_list, free_ids>>
queues  == <<assembling, requests>>
kernel  == <<accept, peer, segments, rx, tx, packets>>
threads == <<pc, fn, ptr, outer, job, messages>>
vars    == <<objects, refs, send_mtx, lists, queues, kernel, threads>>

Kinds == {"data", "closed", "sent"}
NoJob == [id |-> 0, from |-> NoClient]

\* The id a request is answered to, and the client it came from.
Reply(c) == [id |-> cid[c], from |-> c]

Init ==
  /\ client_list = <<>> /\ free_ids = <<>>
  /\ mem = [c \in Clients |-> "unborn"]
  /\ cid = [c \in Clients |-> 0]
  /\ refs = [c \in Clients |-> 0]
  /\ disconnecting = [c \in Clients |-> FALSE]
  /\ recv_len = [c \in Clients |-> 0]
  /\ is_sending = [c \in Clients |-> FALSE]
  /\ outq = [c \in Clients |-> <<>>]
  /\ send_mtx = [c \in Clients |-> NoThread]
  /\ assembling = [w \in Workers |-> <<>>]
  /\ requests = <<>>
  /\ accept = "posted"                       \* start() posted the first one
  /\ peer = [c \in Clients |-> "absent"]
  /\ segments = [c \in Clients |-> 0]
  /\ rx = [c \in Clients |-> 0] /\ tx = [c \in Clients |-> 0]
  /\ packets = [c \in Clients |-> [k \in Kinds |-> 0]]
  /\ pc = [t \in Threads |-> "idle"]
  /\ fn = [t \in Threads |-> "none"]
  /\ ptr = [t \in Threads |-> NoClient]
  /\ outer = [t \in Threads |-> NoClient]
  /\ job = [t \in Threads |-> NoJob]
  /\ messages = [w \in Workers |-> 0]

-----------------------------------------------------------------------------
(* The kernel and the peers. *)

Connect(c) ==
  /\ accept = "posted" /\ peer[c] = "absent"
  /\ accept' = c
  /\ peer' = [peer EXCEPT ![c] = "open"]
  /\ UNCHANGED <<objects, refs, send_mtx, lists, queues, segments, rx, tx, packets, threads>>

\* The peer closes or resets the connection.
PeerCloses(c) ==
  /\ peer[c] = "open"
  /\ peer' = [peer EXCEPT ![c] = "gone"]
  /\ UNCHANGED <<objects, refs, send_mtx, lists, queues, accept, segments, rx, tx, packets, threads>>

\* Data arrived, perhaps sent before the peer closed.
ReceiveCompletes(c) ==
  /\ rx[c] > 0 /\ mem[c] = "live" /\ segments[c] < MaxSegments[c]
  /\ rx' = [rx EXCEPT ![c] = @ - 1]
  /\ segments' = [segments EXCEPT ![c] = @ + 1]
  /\ packets' = [packets EXCEPT ![c]["data"] = @ + 1]
  /\ UNCHANGED <<objects, refs, send_mtx, lists, queues, accept, peer, tx, threads>>

\* No bytes: the peer is gone, or closesocket aborted the operation.
ReceiveEnds(c) ==
  /\ rx[c] > 0 /\ (peer[c] = "gone" \/ mem[c] = "freed")
  /\ rx' = [rx EXCEPT ![c] = @ - 1]
  /\ packets' = [packets EXCEPT ![c]["closed"] = @ + 1]
  /\ UNCHANGED <<objects, refs, send_mtx, lists, queues, accept, peer, segments, tx, threads>>

SendCompletes(c) ==
  /\ tx[c] > 0
  /\ tx' = [tx EXCEPT ![c] = @ - 1]
  /\ packets' = [packets EXCEPT ![c]["sent"] = @ + 1]
  /\ UNCHANGED <<objects, refs, send_mtx, lists, queues, accept, peer, segments, rx, threads>>

-----------------------------------------------------------------------------
(* Control flow common to the threads. *)

Goto(t, label) == pc' = [pc EXCEPT ![t] = label]

\* Back to the top of the thread's loop.
Finish(t) ==
  /\ pc' = [pc EXCEPT ![t] = "idle"]
  /\ fn' = [fn EXCEPT ![t] = "none"]
  /\ ptr' = [ptr EXCEPT ![t] = NoClient]

\* send() returns: into the error branch of assemblerWorker, or to the caller.
ReturnFromSend(t) ==
  IF outer[t] = NoClient
  THEN Finish(t) /\ UNCHANGED outer
  ELSE /\ pc' = [pc EXCEPT ![t] = "fault"]
       /\ fn' = [fn EXCEPT ![t] = "worker"]
       /\ ptr' = [ptr EXCEPT ![t] = outer[t]]
       /\ outer' = [outer EXCEPT ![t] = NoClient]

\* Mutant: an early return that skips the unlock.
ReturnAfterCheck(t) == Finish(t)

\* What follows the test of the reference count, client freed or not.
AfterCheck(t) ==
  CASE fn[t] \in {"send", "sent"} -> Goto(t, "unlock") /\ UNCHANGED <<fn, ptr>>
    [] fn[t] = "accept" -> /\ Goto(t, "rearm")
                           /\ ptr' = [ptr EXCEPT ![t] = NoClient]
                           /\ UNCHANGED fn
    [] OTHER -> Finish(t)

\* Mutant: the count is compared before the decrement it should follow.
LastReferenceTooEarly(c) == disconnecting[c] /\ refs[c] = 1

LastReference(c) == disconnecting[c] /\ refs[c] = 0

-----------------------------------------------------------------------------
(* The listener. *)

\* Mutant: the id is taken from the free list and stays in it.
FreeIdsWithTaken == free_ids

FreeIdsLeft == SubSeq(free_ids, 1, Len(free_ids) - 1)

NewPosition == IF free_ids # <<>> THEN free_ids[Len(free_ids)] ELSE Len(client_list) + 1

\* A completed AcceptEx: the new client gets a free id, or the next one.
addClient ==
  /\ pc[Listener] = "idle" /\ accept \in Clients
  /\ cid' = [cid EXCEPT ![accept] = NewPosition]
  /\ \/ /\ free_ids # <<>>
        /\ free_ids' = FreeIdsLeft
        /\ client_list' = [client_list EXCEPT ![NewPosition] = accept]
     \/ /\ free_ids = <<>>
        /\ client_list' = Append(client_list, accept)
        /\ UNCHANGED free_ids
  /\ mem' = [mem EXCEPT ![accept] = "live"]
  /\ refs' = [refs EXCEPT ![accept] = @ + 1]
  /\ ptr' = [ptr EXCEPT ![Listener] = accept]
  /\ fn' = [fn EXCEPT ![Listener] = "accept"]
  /\ Goto(Listener, "post")
  /\ accept' = "none"
  /\ UNCHANGED <<disconnecting, recv_len, is_sending, outq, send_mtx, queues,
                 peer, segments, rx, tx, packets, outer, job, messages>>

\* The next AcceptEx is posted, or fails and is only logged.
postAcceptExEvent ==
  /\ pc[Listener] = "rearm"
  /\ accept' \in {"posted", "none"}
  /\ Finish(Listener)
  /\ UNCHANGED <<objects, refs, send_mtx, lists, queues, peer, segments, rx, tx, packets, outer, job, messages>>

\* A completion of client c: the reference the operation held is dropped.
Dequeue(c, k) ==
  /\ pc[Listener] = "idle" /\ packets[c][k] > 0
  /\ packets' = [packets EXCEPT ![c][k] = @ - 1]
  /\ refs' = [refs EXCEPT ![c] = @ - 1]
  /\ fn' = [fn EXCEPT ![Listener] = k]
  /\ ptr' = [ptr EXCEPT ![Listener] = c]
  /\ Goto(Listener, "dispatch")
  /\ UNCHANGED <<objects, send_mtx, lists, queues, accept, peer, segments, rx, tx, outer, job, messages>>

Dispatch ==
  /\ pc[Listener] = "dispatch"
  /\ IF LastReference(ptr[Listener])
     THEN Goto(Listener, "terminate") /\ fn' = [fn EXCEPT ![Listener] = "none"]
     ELSE Goto(Listener, "handle") /\ UNCHANGED fn
  /\ UNCHANGED <<objects, refs, send_mtx, lists, queues, kernel, ptr, outer, job, messages>>

\* Mutant: the id is pushed again.
NotifyTwice(c) ==
  assembling' = [assembling EXCEPT ![(cid[c] - 1) % NumWorkers] = @ \o <<cid[c], cid[c]>>]

NotifyWorker(c) ==
  assembling' = [assembling EXCEPT ![(cid[c] - 1) % NumWorkers] = Append(@, cid[c])]

\* Bytes arrived: the client's id goes to the queue of its worker.
PushToAssembler ==
  /\ pc[Listener] = "handle" /\ fn[Listener] = "data"
  /\ recv_len' = [recv_len EXCEPT ![ptr[Listener]] = @ + 1]
  /\ NotifyWorker(ptr[Listener])
  /\ Finish(Listener)
  /\ UNCHANGED <<mem, cid, disconnecting, is_sending, outq, refs, send_mtx, lists,
                 requests, kernel, outer, job, messages>>

HangUp ==
  /\ pc[Listener] = "handle" /\ fn[Listener] = "closed"
  /\ disconnecting' = [disconnecting EXCEPT ![ptr[Listener]] = TRUE]
  /\ Goto(Listener, "check")
  /\ UNCHANGED <<mem, cid, recv_len, is_sending, outq, refs, send_mtx, lists, queues,
                 kernel, fn, ptr, outer, job, messages>>

\* Mutant: the buffer that was sent is counted as still to be sent.
MoreThanOneToSend(c) == Len(outq[c]) > 2

MoreToSend(c) == Tail(outq[c]) # <<>>

\* A send completed: its buffer leaves the queue, the next one is posted.
CompleteSend ==
  /\ pc[Listener] = "handle" /\ fn[Listener] = "sent"
  /\ LET c == ptr[Listener]
     IN  /\ send_mtx[c] = NoThread /\ outq[c] # <<>>
         /\ send_mtx' = [send_mtx EXCEPT ![c] = Listener]
         /\ outq' = [outq EXCEPT ![c] = Tail(@)]
         /\ IF MoreToSend(c)
            THEN Goto(Listener, "post") /\ UNCHANGED is_sending
            ELSE /\ Goto(Listener, "unlock")
                 /\ is_sending' = [is_sending EXCEPT ![c] = FALSE]
  /\ UNCHANGED <<mem, cid, disconnecting, recv_len, refs, lists, queues, kernel, fn, ptr, outer, job, messages>>

-----------------------------------------------------------------------------
(* The assembler workers and the application threads. *)

PopClientId(w) ==
  /\ pc[w] = "idle" /\ assembling[w] # <<>>
  /\ assembling' = [assembling EXCEPT ![w] = Tail(@)]
  /\ job' = [job EXCEPT ![w] = [id |-> Head(assembling[w]), from |-> NoClient]]
  /\ fn' = [fn EXCEPT ![w] = "worker"]
  /\ Goto(w, "getClient")
  /\ UNCHANGED <<objects, refs, send_mtx, lists, requests, kernel, ptr, outer, messages>>

\* next(), and the test in main that decides whether the request is answered.
NextRequest(a) ==
  /\ pc[a] = "idle" /\ requests # <<>>
  /\ requests' = Tail(requests)
  /\ \/ /\ job' = [job EXCEPT ![a] = Head(requests)]
        /\ fn' = [fn EXCEPT ![a] = "send"]
        /\ Goto(a, "getClient")
     \/ UNCHANGED <<pc, fn, job>>
  /\ UNCHANGED <<objects, refs, send_mtx, lists, assembling, kernel, ptr, outer, messages>>

Registered(id) == id \in DOMAIN client_list /\ client_list[id] # NoClient

getClient(t) ==
  /\ pc[t] = "getClient"
  /\ IF Registered(job[t].id)
     THEN LET c == client_list[job[t].id]
          IN  /\ refs' = [refs EXCEPT ![c] = @ + 1]
              /\ ptr' = [ptr EXCEPT ![t] = c]
              /\ Goto(t, IF fn[t] = "worker" THEN "feed" ELSE "lock")
              /\ UNCHANGED <<fn, outer, job>>
     ELSE /\ job' = [job EXCEPT ![t] = NoJob]
          /\ IF fn[t] = "worker" THEN Finish(t) /\ UNCHANGED outer ELSE ReturnFromSend(t)
          /\ UNCHANGED refs
  /\ UNCHANGED <<objects, send_mtx, lists, queues, kernel, messages>>

\* Mutant: no receive is posted when the message is not complete yet.
AfterFeedForgets(n) == IF n = 0 THEN "release" ELSE "deliver"

AfterFeed(n) == IF n = 0 THEN "post" ELSE "deliver"

\* feed() consumes what arrived: it completes some messages, or finds an
\* error, and then assemblerWorker calls send().
Feed(w) ==
  /\ pc[w] = "feed"
  /\ LET c == ptr[w]
     IN  /\ recv_len' = [recv_len EXCEPT ![c] = 0]
         /\ \/ \E n \in 0 .. IF recv_len[c] = 0 THEN 0 ELSE MaxMessages :
                 /\ messages' = [messages EXCEPT ![w] = n]
                 /\ job' = [job EXCEPT ![w] = NoJob]
                 /\ Goto(w, AfterFeed(n))
                 /\ UNCHANGED <<fn, ptr, outer>>
            \/ /\ recv_len[c] > 0
               /\ job' = [job EXCEPT ![w] = Reply(c)]
               /\ outer' = [outer EXCEPT ![w] = c]
               /\ fn' = [fn EXCEPT ![w] = "send"]
               /\ ptr' = [ptr EXCEPT ![w] = NoClient]
               /\ Goto(w, "getClient")
               /\ UNCHANGED messages
  /\ UNCHANGED <<mem, cid, disconnecting, is_sending, outq, refs, send_mtx, lists,
                 queues, kernel>>

\* Mutant: off by one at the end of the loop.
PastLastMessage(w) == messages[w] = 0

LastMessage(w) == messages[w] = 1

\* One message of the result becomes a request.
createRequest(w) ==
  /\ pc[w] = "deliver"
  /\ requests' = Append(requests, Reply(ptr[w]))
  /\ messages' = [messages EXCEPT ![w] = @ - 1]
  /\ Goto(w, IF LastMessage(w) THEN "post" ELSE "deliver")
  /\ UNCHANGED <<objects, refs, send_mtx, lists, assembling, kernel, fn, ptr, outer, job>>

\* The error was reported: the client is disconnected.
DisconnectFaulty(w) ==
  /\ pc[w] = "fault"
  /\ disconnecting' = [disconnecting EXCEPT ![ptr[w]] = TRUE]
  /\ Goto(w, "release")
  /\ UNCHANGED <<mem, cid, recv_len, is_sending, outq, refs, send_mtx, lists, queues,
                 kernel, fn, ptr, outer, job, messages>>

\* Mutant: send() does not look at m_is_sending.
NeverInProgress(c) == FALSE

SendInProgress(c) == is_sending[c]

\* A message: whom it answers and the thread that sends it.  It is cut into n buffers.
Message(t) == [from |-> job[t].from, by |-> t]
Chunks(t, n) == [k \in 1 .. n |-> [message |-> Message(t), part |-> k]]

\* Mutant: a stack behind the buffer in flight.
QueuedNext(q, chunks) == IF q = <<>> THEN chunks ELSE <<Head(q)>> \o chunks \o Tail(q)

Queued(q, chunks) == q \o chunks

\* send() takes m_send_mtx and queues the message.
Enqueue(t) ==
  /\ pc[t] = "lock"
  /\ LET c == ptr[t]
     IN  /\ send_mtx[c] = NoThread
         /\ send_mtx' = [send_mtx EXCEPT ![c] = t]
         /\ \E n \in 1 .. MaxChunks : outq' = [outq EXCEPT ![c] = Queued(@, Chunks(t, n))]
         /\ Goto(t, IF SendInProgress(c) THEN "release" ELSE "post")
  /\ job' = [job EXCEPT ![t] = NoJob]
  /\ UNCHANGED <<mem, cid, disconnecting, recv_len, is_sending, refs, lists, queues,
                 kernel, fn, ptr, outer, messages>>

-----------------------------------------------------------------------------
(* Posting an operation under a guard reference, and dropping references. *)

\* WSARecv and WSASend may fail at any time, whether the peer is there or not, and
\* fail on a closed socket.
CallSucceeds(c) == mem[c] = "live"

postReceiveEvent(t) ==
  /\ pc[t] = "post" /\ fn[t] \in {"accept", "worker"}
  /\ LET c == ptr[t]
     IN  /\ refs' = [refs EXCEPT ![c] = @ + 1]
         /\ \/ CallSucceeds(c) /\ Goto(t, "posted") /\ rx' = [rx EXCEPT ![c] = @ + 1]
            \/ Goto(t, "failed") /\ UNCHANGED rx
  /\ UNCHANGED <<objects, send_mtx, lists, queues, accept, peer, segments, tx, packets,
                 fn, ptr, outer, job, messages>>

postSendEvent(t) ==
  /\ pc[t] = "post" /\ fn[t] \in {"send", "sent"}
  /\ LET c == ptr[t]
     IN  /\ refs' = [refs EXCEPT ![c] = @ + 1]
         /\ \/ CallSucceeds(c) /\ Goto(t, "posted") /\ tx' = [tx EXCEPT ![c] = @ + 1]
            \/ Goto(t, "failed") /\ UNCHANGED tx
  /\ UNCHANGED <<objects, send_mtx, lists, queues, accept, peer, segments, rx, packets,
                 fn, ptr, outer, job, messages>>

\* The operation was issued: it gets its own reference.
CountPosted(t) ==
  /\ pc[t] = "posted"
  /\ refs' = [refs EXCEPT ![ptr[t]] = @ + 1]
  /\ is_sending' = IF fn[t] \in {"send", "sent"}
                   THEN [is_sending EXCEPT ![ptr[t]] = TRUE]
                   ELSE is_sending
  /\ Goto(t, "unguard")
  /\ UNCHANGED <<mem, cid, disconnecting, recv_len, outq, send_mtx, lists, queues,
                 kernel, fn, ptr, outer, job, messages>>

\* Mutant: the failed post returns with its guard reference.
PostFailedReturns(t) ==
  /\ pc[t] = "failed"
  /\ disconnecting' = [disconnecting EXCEPT ![ptr[t]] = TRUE]
  /\ Goto(t, IF fn[t] = "sent" THEN "check" ELSE "release")
  /\ UNCHANGED <<mem, cid, recv_len, is_sending, outq, refs, send_mtx, lists, queues,
                 kernel, fn, ptr, outer, job, messages>>

\* The operation failed and is not counted: the client is disconnected.
PostFailed(t) ==
  /\ pc[t] = "failed"
  /\ disconnecting' = [disconnecting EXCEPT ![ptr[t]] = TRUE]
  /\ Goto(t, "unguard")
  /\ UNCHANGED <<mem, cid, recv_len, is_sending, outq, refs, send_mtx, lists, queues,
                 kernel, fn, ptr, outer, job, messages>>

DropGuard(t) ==
  /\ pc[t] = "unguard"
  /\ refs' = [refs EXCEPT ![ptr[t]] = @ - 1]
  /\ Goto(t, IF fn[t] = "sent" THEN "check" ELSE "release")
  /\ UNCHANGED <<objects, send_mtx, lists, queues, kernel, fn, ptr, outer, job, messages>>

Release(t) ==
  /\ pc[t] = "release"
  /\ refs' = [refs EXCEPT ![ptr[t]] = @ - 1]
  /\ Goto(t, "check")
  /\ UNCHANGED <<objects, send_mtx, lists, queues, kernel, fn, ptr, outer, job, messages>>

CheckLast(t) ==
  /\ pc[t] = "check"
  /\ IF LastReference(ptr[t])
     THEN Goto(t, "terminate") /\ UNCHANGED <<fn, ptr>>
     ELSE AfterCheck(t)
  /\ UNCHANGED <<objects, refs, send_mtx, lists, queues, kernel, outer, job, messages>>

\* terminateClient(client->getId()): frees whichever client has that id now.
terminateClient(t) ==
  /\ pc[t] = "terminate"
  /\ LET id == cid[ptr[t]]
     IN  IF Registered(id)
         THEN /\ mem' = [mem EXCEPT ![client_list[id]] = "freed"]
              /\ client_list' = [client_list EXCEPT ![id] = NoClient]
              /\ free_ids' = Append(free_ids, id)
         ELSE UNCHANGED <<mem, client_list, free_ids>>
  /\ AfterCheck(t)
  /\ UNCHANGED <<cid, disconnecting, recv_len, is_sending, outq, refs, send_mtx, queues,
                 kernel, outer, job, messages>>

\* The lock_guard of send() or of the listener goes out of scope.
Unlock(t) ==
  /\ pc[t] = "unlock"
  /\ send_mtx' = [send_mtx EXCEPT ![ptr[t]] = NoThread]
  /\ ReturnFromSend(t)
  /\ UNCHANGED <<objects, refs, lists, queues, kernel, job, messages>>

-----------------------------------------------------------------------------
KernelNext ==
  \E c \in Clients :
    \/ Connect(c) \/ PeerCloses(c)
    \/ ReceiveCompletes(c) \/ ReceiveEnds(c) \/ SendCompletes(c)

ListenerNext ==
  \/ addClient \/ postAcceptExEvent
  \/ \E c \in Clients, k \in Kinds : Dequeue(c, k)
  \/ Dispatch \/ PushToAssembler \/ HangUp \/ CompleteSend

WorkerNext(w) == PopClientId(w) \/ Feed(w) \/ createRequest(w) \/ DisconnectFaulty(w)

ThreadNext(t) ==
  \/ t = Listener /\ ListenerNext
  \/ t \in Workers /\ WorkerNext(t)
  \/ t \in Apps /\ NextRequest(t)
  \/ getClient(t) \/ Enqueue(t)
  \/ postReceiveEvent(t) \/ postSendEvent(t) \/ CountPosted(t) \/ PostFailed(t)
  \/ DropGuard(t) \/ Release(t) \/ CheckLast(t) \/ terminateClient(t) \/ Unlock(t)

Next == KernelNext \/ \E t \in Threads : ThreadNext(t)

Spec == Init /\ [][Next]_vars

\* Every thread that can run does.  A receive on a closed connection ends, and
\* peers read what they are sent.
Fairness ==
  /\ \A t \in Threads : WF_vars(ThreadNext(t))
  /\ \A c \in Clients : WF_vars(ReceiveEnds(c)) /\ WF_vars(SendCompletes(c))

FairSpec == Spec /\ Fairness

-----------------------------------------------------------------------------
(* Properties. *)

Labels == {"idle", "getClient", "feed", "deliver", "fault", "lock", "post", "posted",
           "failed", "unguard", "release", "check", "terminate", "unlock",
           "rearm", "dispatch", "handle"}
Functions == Kinds \cup {"none", "accept", "worker", "send"}
Jobs == [id : Nat, from : Clients \cup {NoClient}]
Messages == [from : Clients \cup {NoClient}, by : Threads]
Buffers == [message : Messages, part : Nat]

ObjectsType ==
  /\ mem \in [Clients -> {"unborn", "live", "freed"}]
  /\ cid \in [Clients -> Nat]
  /\ disconnecting \in [Clients -> BOOLEAN]
  /\ recv_len \in [Clients -> Nat]
  /\ is_sending \in [Clients -> BOOLEAN]
  /\ outq \in [Clients -> Seq(Buffers)]
  /\ refs \in [Clients -> Int]
  /\ send_mtx \in [Clients -> Threads \cup {NoThread}]
ListsType ==
  /\ client_list \in Seq(Clients \cup {NoClient})
  /\ free_ids \in Seq(Nat)
QueuesType ==
  /\ assembling \in [Workers -> Seq(Nat)]
  /\ requests \in Seq(Jobs)
KernelType ==
  /\ accept \in {"posted", "none"} \cup Clients
  /\ peer \in [Clients -> {"absent", "open", "gone"}]
  /\ segments \in [Clients -> Nat]
  /\ rx \in [Clients -> Nat]
  /\ tx \in [Clients -> Nat]
  /\ packets \in [Clients -> [Kinds -> Nat]]
ThreadsType ==
  /\ pc \in [Threads -> Labels]
  /\ fn \in [Threads -> Functions]
  /\ ptr \in [Threads -> Clients \cup {NoClient}]
  /\ outer \in [Threads -> Clients \cup {NoClient}]
  /\ job \in [Threads -> Jobs]
  /\ messages \in [Workers -> Nat]

\* Every variable stays within the values its C++ counterpart can hold.
TypeOK == ObjectsType /\ ListsType /\ QueuesType /\ KernelType /\ ThreadsType

Outstanding(c) == rx[c] + tx[c] + packets[c]["data"] + packets[c]["closed"] + packets[c]["sent"]

\* Thread t holds the reference getClient() or addClient() gave it.
Owns(t, c) ==
  /\ ptr[t] = c /\ fn[t] \in {"accept", "worker", "send"}
  /\ pc[t] \in {"feed", "deliver", "fault", "lock", "post", "posted", "failed",
                "unguard", "release"}
\* Thread t holds the guard of a post.  The one that has issued the operation
\* and not counted it holds its guard for that operation.
Guards(t, c) == ptr[t] = c /\ pc[t] \in {"failed", "unguard"}

\* References of threads: the two above, and those of workers whose send() runs
\* on top of their own reference.
Held(c) ==
  Cardinality({t \in Threads : Owns(t, c)}) + Cardinality({t \in Threads : Guards(t, c)})
  + Cardinality({t \in Threads : outer[t] = c})

\* The reference count of a Client is the number of operations and packets
\* outstanding on it and of the threads that use it: no path forgets a
\* decrement, drops a reference twice or lets a posted operation go uncounted
\* (Client.h:226-240).
RefAccounting == \A c \in Clients : refs[c] = Outstanding(c) + Held(c)

\* Ids are handed out once: the free list holds exactly the empty positions of
\* the client list, each once, and every live client sits at its own id, even
\* when several threads terminate the same client.
FreeListExact ==
  /\ \A i, j \in DOMAIN free_ids : free_ids[i] = free_ids[j] => i = j
  /\ {free_ids[i] : i \in DOMAIN free_ids}
       = {p \in DOMAIN client_list : client_list[p] = NoClient}
  /\ \A c \in Clients, p \in DOMAIN client_list :
       client_list[p] = c <=> (mem[c] = "live" /\ cid[c] = p)
  /\ \A c \in Clients : mem[c] = "live" => cid[c] \in DOMAIN client_list

\* Who may touch the receive buffer of a client: the kernel, while a WSARecv is
\* outstanding; the listener, from its completion to the push of the id; the
\* queue of ids; the worker that feeds the buffer to the assembler.
Entries(c) ==
  UNION {{w} \X {i \in DOMAIN assembling[w] : assembling[w][i] = cid[c]} : w \in Workers}
Receiving(t, c) ==
  \/ /\ ptr[t] = c
     /\ \/ fn[t] \in {"data", "closed"} /\ pc[t] \in {"dispatch", "handle"}
        \/ fn[t] \in {"accept", "worker"}
           /\ pc[t] \in {"feed", "deliver", "fault", "post", "failed"}
  \/ fn[t] = "worker" /\ pc[t] = "getClient" /\ job[t].id = cid[c]
  \/ outer[t] = c
Custodians(c) ==
  rx[c] + packets[c]["data"] + packets[c]["closed"] + Cardinality(Entries(c))
  + Cardinality({t \in Threads : Receiving(t, c)})

\* As long as the id of a client was nobody else's before it, its receive buffer
\* and m_recv_len, which no lock protects, are touched by one party at a time.
OneCustodian ==
  \A c \in Clients :
    (mem[c] = "live" /\ \A d \in Clients \ {c} : mem[d] = "unborn" \/ cid[d] # cid[c])
    => Custodians(c) <= 1

\* A connected client is always listened to: some party is on its way to post
\* the next receive (TCPServer.h:615 "Then we post the next receive").
NoDeafClient ==
  \A c \in Clients : mem[c] = "live" /\ ~disconnecting[c] => Custodians(c) >= 1

\* Sends of a client that are posted and whose completion is not handled yet.
InFlight(c) ==
  tx[c] + packets[c]["sent"]
  + (IF ptr[Listener] = c /\ fn[Listener] = "sent" /\ pc[Listener] \in {"dispatch", "handle"}
     THEN 1 ELSE 0)

\* One send at a time, of the buffer at the head of the queue, so that the bytes
\* go out in order; pop() never meets an empty queue.
SendPipeline ==
  \A c \in Clients : InFlight(c) <= 1 /\ (InFlight(c) = 1 => outq[c] # <<>>)

\* Nobody will post a send any more: m_is_sending stays set when the listener could
\* not post the next one, and when the completion of the last one was not handled.
AboutToPost(c) == \E t \in Threads : ptr[t] = c /\ fn[t] \in {"send", "sent"} /\ pc[t] = "post"
Broken(c) == is_sending[c] /\ InFlight(c) = 0 /\ ~AboutToPost(c)

Phase(c) == IF InFlight(c) > 0 THEN "sending" ELSE IF Broken(c) THEN "broken" ELSE "idle"

Output(c) == INSTANCE Outbox WITH queue <- outq[c], phase <- Phase(c)

\* The output of every client is in order: a buffer leaves the queue when its own send
\* has completed, and the buffer that WSASend reads is not touched until then; no
\* message overtakes another or lands between the pieces of one, and after a send of
\* the listener that failed none that is behind it goes out (TCPServer.h:264-284, 299-325).
OutputInOrder ==
  /\ \A c \in Clients : Output(c)!Init
  /\ [][\A c \in Clients : [Output(c)!Next]_(Output(c)!vars)]_vars

\* Buffers never wait in the queue with nobody to send them: the one in flight
\* or a thread inside the critical section of m_send_mtx will.
NoStrandedOutput ==
  \A c \in Clients :
    mem[c] = "live" /\ ~disconnecting[c] /\ outq[c] # <<>> /\ send_mtx[c] = NoThread
    => InFlight(c) = 1

\* All that is left of the client is the receive of a peer that is there and silent.
WaitsForPeer(c) == peer[c] = "open" /\ rx[c] = 1 /\ refs[c] = 1

\* A connection whose peer is gone is closed and its Client freed.  One that the server
\* gives up, after an error or a failed post, is freed too, unless all that is left is
\* the receive the kernel holds: nothing cancels it or closes the socket, so the
\* client stays until its peer sends something or leaves (TCPServer.h:873-878).
ConnectionsReclaimed ==
  \A c \in Clients :
    /\ peer[c] = "gone" ~> mem[c] = "freed"
    /\ disconnecting[c] ~> mem[c] = "freed" \/ WaitsForPeer(c)

\* What send() queued is sent, unless the connection breaks.
OutputDrains ==
  \A c \in Clients : outq[c] # <<>> ~> outq[c] = <<>> \/ disconnecting[c]

\* No thread is stuck: whatever it does for a client, it comes back to its loop.
ThreadsReturn == \A t \in Threads : pc[t] # "idle" ~> pc[t] = "idle"

-----------------------------------------------------------------------------
(* What the comments of the code promise and the code does not keep. *)

\* "Client can only be safely deleted when count reaches zero / Prevents premature
\* deletion while operations are still in progress" (Client.h:234-236): a thread
\* that holds a Client* holds a live Client.
NoUseAfterFree ==
  \A t \in Threads :
    /\ ptr[t] # NoClient => mem[ptr[t]] = "live"
    /\ outer[t] # NoClient => mem[outer[t]] = "live"

\* "Unique identifier assigned to this client connection" (Client.h:200): a response goes
\* to the connection its request came from.
ResponsesReachRequester ==
  \A c \in Clients : \A i \in DOMAIN outq[c] : outq[c][i].message.from = c
=============================================================================
