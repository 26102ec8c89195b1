-------------------------- MODULE TCPServerProofs --------------------------
(* Theorems about TCPServer, for any number of clients, workers and         *)
(* application threads and any bounds.                                      *)
EXTENDS TCPServer, FiniteSetTheorems, SequenceTheorems, TLAPS

\* Which functions a thread can be in at a label; it holds a Client* except
\* where it has none yet or none left.
ControlAt(t) ==
  /\ ptr[t] = NoClient <=> pc[t] \in {"idle", "getClient", "rearm"}
  /\ outer[t] # NoClient => fn[t] = "send"
  /\ pc[t] = "idle" => fn[t] = "none"
  /\ pc[t] = "rearm" => fn[t] = "accept"
  /\ pc[t] = "getClient" => fn[t] \in {"worker", "send"}
  /\ pc[t] \in {"feed", "deliver", "fault"} => fn[t] = "worker"
  /\ pc[t] = "lock" => fn[t] = "send"
  /\ pc[t] \in {"post", "posted", "failed", "unguard"}
       => fn[t] \in {"accept", "worker", "send", "sent"}
  /\ pc[t] = "release" => fn[t] \in {"accept", "worker", "send"}
  /\ pc[t] = "check" => fn[t] \in {"accept", "worker", "send", "sent", "closed"}
  /\ pc[t] = "terminate" => fn[t] \in {"accept", "worker", "send", "sent", "closed", "none"}
  /\ pc[t] = "unlock" => fn[t] \in {"send", "sent"}
  /\ pc[t] \in {"dispatch", "handle"} => fn[t] \in Kinds
  /\ t \in Workers => (messages[t] > 0 <=> pc[t] = "deliver")

ControlOK == \A t \in Threads : ControlAt(t)

TypeInv == TypeOK /\ ControlOK

\* What a step of thread t leaves alone.
OthersIdle(t) ==
  \A u \in Threads \ {t} :
    /\ pc'[u] = pc[u] /\ fn'[u] = fn[u] /\ ptr'[u] = ptr[u] /\ outer'[u] = outer[u]
    /\ u \in Workers => messages'[u] = messages[u]

LEMMA Thread == Listener \in Threads /\ Workers \subseteq Threads /\ Apps \subseteq Threads
  BY DEF Threads

\* The control of the other threads stays as it was.
LEMMA ControlStep ==
  ASSUME ControlOK, NEW t \in Threads, OthersIdle(t), ControlAt(t)'
  PROVE  ControlOK'
  BY DEF ControlOK, ControlAt, OthersIdle

LEMMA InitType == Init => TypeInv
<1> SUFFICES ASSUME Init PROVE TypeInv
  OBVIOUS
<1>1. ObjectsType
  BY DEF Init, ObjectsType
<1>2. ListsType /\ QueuesType
  BY DEF Init, ListsType, QueuesType
<1>3. KernelType
  BY DEF Init, KernelType, Kinds
<1>4. /\ pc = [t \in Threads |-> "idle"]
      /\ fn = [t \in Threads |-> "none"]
      /\ ptr = [t \in Threads |-> NoClient]
      /\ outer = [t \in Threads |-> NoClient]
      /\ job = [t \in Threads |-> NoJob]
      /\ messages = [w \in Workers |-> 0]
  BY DEF Init
<1>5. ThreadsType
  BY <1>4 DEF ThreadsType, Labels, Functions, Jobs, NoJob
<1>6. ASSUME NEW t \in Threads PROVE ControlAt(t)
  BY <1>4 DEF ControlAt
<1> QED BY <1>1, <1>2, <1>3, <1>5, <1>6 DEF TypeInv, TypeOK, ControlOK

LEMMA RemoveLastType == ASSUME NEW S, NEW s \in Seq(S) PROVE SubSeq(s, 1, Len(s) - 1) \in Seq(S)
<1>1. \A i \in 1 .. Len(s) - 1 : s[i] \in S
  BY ElementOfSeq, LenProperties
<1> QED BY <1>1, SubSeqProperties, LenProperties

LEMMA ReplaceType ==
  ASSUME NEW S, NEW s \in Seq(S), NEW i, NEW e \in S
  PROVE  [s EXCEPT ![i] = e] \in Seq(S)
<1>1. CASE i \in 1 .. Len(s)
  BY <1>1, ExceptSeq
<1>2. CASE i \notin 1 .. Len(s)
  <2>1. s \in [1 .. Len(s) -> S]
    BY LenProperties
  <2>2. [s EXCEPT ![i] = e] = s
    BY <1>2, <2>1
  <2> QED BY <2>2
<1> QED BY <1>1, <1>2

LEMMA NewPositionType == ASSUME ListsType PROVE NewPosition \in Nat
<1>1. CASE free_ids # <<>>
  <2>1. Len(free_ids) \in 1 .. Len(free_ids)
    BY <1>1, EmptySeq DEF ListsType
  <2> QED BY <1>1, <2>1, ElementOfSeq DEF ListsType, NewPosition
<1>2. CASE free_ids = <<>>
  BY <1>2, LenProperties DEF ListsType, NewPosition
<1> QED BY <1>1, <1>2

LEMMA addClientType ==
  ASSUME TypeInv, addClient
  PROVE  TypeInv' /\ OthersIdle(Listener)
<1> USE Thread DEF TypeInv, TypeOK
<1>0. accept \in Clients /\ pc[Listener] = "idle" /\ NewPosition \in Nat
  BY NewPositionType DEF addClient
<1>1. ObjectsType'
  BY <1>0 DEF addClient, ObjectsType
<1>2. ListsType'
  <2>1. CASE free_ids # <<>>
    <3>1. FreeIdsLeft \in Seq(Nat)
      BY RemoveLastType DEF ListsType, FreeIdsLeft
    <3>2. free_ids' = FreeIdsLeft /\ client_list' = [client_list EXCEPT ![NewPosition] = accept]
      BY <2>1 DEF addClient
    <3>3. client_list' \in Seq(Clients \cup {NoClient})
      BY <1>0, <3>2, ReplaceType DEF ListsType
    <3> QED BY <3>1, <3>2, <3>3 DEF ListsType
  <2>2. CASE free_ids = <<>>
    <3>1. free_ids' = free_ids /\ client_list' = Append(client_list, accept)
      BY <2>2 DEF addClient
    <3> QED BY <1>0, <3>1, AppendProperties DEF ListsType
  <2> QED BY <2>1, <2>2
<1>3. QueuesType' /\ KernelType'
  BY DEF addClient, QueuesType, KernelType, queues
<1>4. ThreadsType'
  BY <1>0 DEF addClient, ThreadsType, Goto, Labels, Functions
<1>5. OthersIdle(Listener)
  BY DEF addClient, OthersIdle, ThreadsType, Goto
<1>6. ControlAt(Listener)'
  BY <1>0, ClientsAssumption, ThreadsAssumption DEF addClient, ControlOK, ControlAt, ThreadsType, Goto
<1> QED BY <1>1, <1>2, <1>3, <1>4, <1>5, <1>6, ControlStep

LEMMA getClientType ==
  ASSUME TypeInv, NEW t \in Threads, getClient(t)
  PROVE  TypeInv' /\ OthersIdle(t)
<1> USE DEF TypeInv, TypeOK
<1>1. ObjectsType'
  BY DEF getClient, ObjectsType, objects
<1>2. ListsType' /\ QueuesType' /\ KernelType'
  BY DEF getClient, ListsType, QueuesType, KernelType, lists, queues, kernel
<1>3. Registered(job[t].id) => client_list[job[t].id] \in Clients
  BY DEF Registered, ListsType
<1>4. ThreadsType'
  <2>1. CASE Registered(job[t].id)
    BY <1>3, <2>1 DEF getClient, ThreadsType, Goto, Labels
  <2>2. CASE ~Registered(job[t].id)
    <3>1. job' \in [Threads -> Jobs] /\ messages' = messages
      BY <2>2 DEF getClient, ThreadsType, NoJob, Jobs
    <3>2. /\ pc' \in [Threads -> Labels] /\ fn' \in [Threads -> Functions]
          /\ ptr' \in [Threads -> Clients \cup {NoClient}]
          /\ outer' \in [Threads -> Clients \cup {NoClient}]
      BY <2>2 DEF getClient, ThreadsType, Labels, Functions, Finish, ReturnFromSend
    <3> QED BY <3>1, <3>2 DEF ThreadsType
  <2> QED BY <2>1, <2>2
<1>5. OthersIdle(t)
  BY DEF getClient, OthersIdle, ThreadsType, Goto, Finish, ReturnFromSend
<1>6. ControlAt(t)'
  BY <1>3, ClientsAssumption DEF getClient, ControlOK, ControlAt, ThreadsType, Goto, Finish, ReturnFromSend
<1> QED BY <1>1, <1>2, <1>4, <1>5, <1>6, ControlStep

LEMMA ReplyType == ASSUME TypeOK, NEW c \in Clients PROVE Reply(c) \in Jobs
  BY DEF TypeOK, ObjectsType, Reply, Jobs

LEMMA postAcceptExEventType ==
  ASSUME TypeInv, postAcceptExEvent
  PROVE  TypeInv' /\ OthersIdle(Listener)
<1> USE Thread DEF TypeInv, TypeOK
<1>1. ObjectsType' /\ ListsType' /\ QueuesType'
  BY DEF postAcceptExEvent, ObjectsType, ListsType, QueuesType, objects, lists, queues
<1>2. KernelType'
  BY DEF postAcceptExEvent, KernelType
<1>3. ThreadsType'
  BY DEF postAcceptExEvent, ThreadsType, Labels, Functions, Finish
<1>4. OthersIdle(Listener)
  BY DEF postAcceptExEvent, OthersIdle, ThreadsType, Finish
<1>5. ControlAt(Listener)'
  BY ClientsAssumption, ThreadsAssumption DEF postAcceptExEvent, ControlOK, ControlAt, ThreadsType, Finish
<1> QED BY <1>1, <1>2, <1>3, <1>4, <1>5, ControlStep

LEMMA DequeueType ==
  ASSUME TypeInv, NEW c \in Clients, NEW k \in Kinds, Dequeue(c, k)
  PROVE  TypeInv' /\ OthersIdle(Listener)
<1> USE Thread DEF TypeInv, TypeOK
<1>1. ListsType' /\ QueuesType'
  BY DEF Dequeue, ListsType, QueuesType, lists, queues
<1>2. ObjectsType'
  BY DEF Dequeue, ObjectsType, objects
<1>3. packets[c] \in [Kinds -> Nat] /\ packets[c][k] - 1 \in Nat
  BY DEF Dequeue, KernelType
<1>4. KernelType'
  BY <1>3 DEF Dequeue, KernelType
<1>5. ThreadsType'
  BY DEF Dequeue, ThreadsType, Goto, Labels, Functions, Kinds
<1>6. OthersIdle(Listener)
  BY DEF Dequeue, OthersIdle, ThreadsType, Goto
<1>7. ControlAt(Listener)'
  BY ClientsAssumption, ThreadsAssumption DEF Dequeue, ControlOK, ControlAt, ThreadsType, Goto, Kinds
<1> QED BY <1>1, <1>2, <1>4, <1>5, <1>6, <1>7, ControlStep

LEMMA DispatchType ==
  ASSUME TypeInv, Dispatch
  PROVE  TypeInv' /\ OthersIdle(Listener)
<1> USE Thread DEF TypeInv, TypeOK
<1>1. ObjectsType' /\ ListsType' /\ QueuesType' /\ KernelType'
  BY DEF Dispatch, ObjectsType, ListsType, QueuesType, KernelType, objects, lists, queues, kernel
<1>2. ThreadsType'
  BY DEF Dispatch, ThreadsType, Goto, Labels, Functions
<1>3. OthersIdle(Listener)
  BY DEF Dispatch, OthersIdle, ThreadsType, Goto, Kinds
<1>4. ControlAt(Listener)'
  BY ClientsAssumption, ThreadsAssumption DEF Dispatch, ControlOK, ControlAt, ThreadsType, Goto, Kinds
<1> QED BY <1>1, <1>2, <1>3, <1>4, ControlStep

LEMMA PushToAssemblerType ==
  ASSUME TypeInv, PushToAssembler
  PROVE  TypeInv' /\ OthersIdle(Listener)
<1> USE Thread DEF TypeInv, TypeOK
<1>0. ptr[Listener] \in Clients
  BY DEF PushToAssembler, ControlOK, ControlAt, ThreadsType
<1>1. ListsType' /\ KernelType'
  BY DEF PushToAssembler, ListsType, KernelType, lists, kernel
<1>2. ObjectsType'
  BY <1>0 DEF PushToAssembler, ObjectsType
<1>3. QueuesType'
  <2> DEFINE id == cid[ptr[Listener]]
             w == (id - 1) % NumWorkers
  <2>1. id \in Nat
    BY <1>0 DEF ObjectsType
  <2>2. w \in Workers => Append(assembling[w], id) \in Seq(Nat)
    BY <2>1, AppendProperties DEF QueuesType
  <2>3. assembling' = [assembling EXCEPT ![w] = Append(@, id)] /\ requests' = requests
    BY DEF PushToAssembler, NotifyWorker
  <2> HIDE DEF w
  <2> QED BY <2>2, <2>3 DEF QueuesType
<1>4. ThreadsType'
  BY <1>0 DEF PushToAssembler, ThreadsType, Labels, Functions, Finish
<1>5. OthersIdle(Listener)
  BY DEF PushToAssembler, OthersIdle, ThreadsType, Finish
<1>6. ControlAt(Listener)'
  BY <1>0, ClientsAssumption, ThreadsAssumption DEF PushToAssembler, ControlOK, ControlAt, ThreadsType, Finish
<1> QED BY <1>1, <1>2, <1>3, <1>4, <1>5, <1>6, ControlStep

LEMMA HangUpType ==
  ASSUME TypeInv, HangUp
  PROVE  TypeInv' /\ OthersIdle(Listener)
<1> USE Thread DEF TypeInv, TypeOK
<1>1. ListsType' /\ QueuesType' /\ KernelType'
  BY DEF HangUp, ListsType, QueuesType, KernelType, lists, queues, kernel
<1>2. ObjectsType'
  BY DEF HangUp, ObjectsType
<1>3. ThreadsType'
  BY DEF HangUp, ThreadsType, Goto, Labels
<1>4. OthersIdle(Listener)
  BY DEF HangUp, OthersIdle, ThreadsType, Goto
<1>5. ControlAt(Listener)'
  BY ClientsAssumption, ThreadsAssumption DEF HangUp, ControlOK, ControlAt, ThreadsType, Goto
<1> QED BY <1>1, <1>2, <1>3, <1>4, <1>5, ControlStep

LEMMA CompleteSendType ==
  ASSUME TypeInv, CompleteSend
  PROVE  TypeInv' /\ OthersIdle(Listener)
<1> USE Thread DEF TypeInv, TypeOK
<1>0. ptr[Listener] \in Clients
  BY DEF CompleteSend, ControlOK, ControlAt, ThreadsType
<1>1. ListsType' /\ QueuesType' /\ KernelType'
  BY DEF CompleteSend, ListsType, QueuesType, KernelType, lists, queues, kernel
<1>2. ObjectsType'
  <2> DEFINE c == ptr[Listener]
  <2>1. outq[c] # <<>> /\ Tail(outq[c]) \in Seq(Buffers)
    BY <1>0, HeadTailProperties DEF CompleteSend, ObjectsType
  <2>2. outq' = [outq EXCEPT ![c] = Tail(outq[c])]
    BY DEF CompleteSend
  <2> QED BY <1>0, <2>1, <2>2, ZenonT(30) DEF CompleteSend, ObjectsType
<1>3. ThreadsType'
  BY <1>0 DEF CompleteSend, ThreadsType, Goto, Labels
<1>4. OthersIdle(Listener)
  BY DEF CompleteSend, OthersIdle, ThreadsType, Goto
<1>5. ControlAt(Listener)'
  BY <1>0, ClientsAssumption, ThreadsAssumption DEF CompleteSend, ControlOK, ControlAt, ThreadsType, Goto
<1> QED BY <1>1, <1>2, <1>3, <1>4, <1>5, ControlStep

LEMMA PopClientIdType ==
  ASSUME TypeInv, NEW w \in Workers, PopClientId(w)
  PROVE  TypeInv' /\ OthersIdle(w)
<1> USE Thread DEF TypeInv, TypeOK
<1>1. ObjectsType' /\ ListsType' /\ KernelType'
  BY DEF PopClientId, ObjectsType, ListsType, KernelType, objects, lists, kernel
<1>2. QueuesType'
  BY DEF PopClientId, QueuesType
<1>3. ThreadsType'
  <2>1. [id |-> Head(assembling[w]), from |-> NoClient] \in Jobs
    BY HeadTailProperties DEF PopClientId, QueuesType, Jobs
  <2> QED BY <2>1 DEF PopClientId, ThreadsType, Goto, Labels, Functions
<1>4. OthersIdle(w)
  BY DEF PopClientId, OthersIdle, ThreadsType, Goto
<1>5. ControlAt(w)'
  BY ClientsAssumption, ThreadsAssumption DEF PopClientId, ControlOK, ControlAt, ThreadsType, Goto
<1> QED BY <1>1, <1>2, <1>3, <1>4, <1>5, ControlStep

LEMMA NextRequestType ==
  ASSUME TypeInv, NEW a \in Apps, NextRequest(a)
  PROVE  TypeInv' /\ OthersIdle(a)
<1> USE Thread DEF TypeInv, TypeOK
<1>1. ObjectsType' /\ ListsType' /\ KernelType'
  BY DEF NextRequest, ObjectsType, ListsType, KernelType, objects, lists, kernel
<1>2. QueuesType'
  BY DEF NextRequest, QueuesType
<1>3. ThreadsType'
  <2>1. Head(requests) \in Jobs
    BY HeadTailProperties DEF NextRequest, QueuesType
  <2>2. ptr' = ptr /\ outer' = outer /\ messages' = messages
    BY DEF NextRequest
  <2>3. \/ job' = [job EXCEPT ![a] = Head(requests)] /\ fn' = [fn EXCEPT ![a] = "send"]
           /\ pc' = [pc EXCEPT ![a] = "getClient"]
        \/ pc' = pc /\ fn' = fn /\ job' = job
    BY DEF NextRequest, Goto
  <2>4. ThreadsType
    OBVIOUS
  <2> HIDE DEF TypeInv, TypeOK
  <2> QED BY <2>1, <2>2, <2>3, <2>4 DEF ThreadsType, Labels, Functions
<1>4. OthersIdle(a)
  BY DEF NextRequest, OthersIdle, ThreadsType, Goto
<1>5. ControlAt(a)'
  BY ClientsAssumption, ThreadsAssumption DEF NextRequest, ControlOK, ControlAt, ThreadsType, Goto
<1> QED BY <1>1, <1>2, <1>3, <1>4, <1>5, ControlStep

LEMMA FeedType ==
  ASSUME TypeInv, NEW w \in Workers, Feed(w)
  PROVE  TypeInv' /\ OthersIdle(w)
<1> USE Thread DEF TypeInv, TypeOK
<1>0. ptr[w] \in Clients
  BY DEF Feed, ControlOK, ControlAt, ThreadsType
<1>1. ListsType' /\ QueuesType' /\ KernelType'
  BY DEF Feed, ListsType, QueuesType, KernelType, lists, queues, kernel
<1>2. ObjectsType'
  BY <1>0 DEF Feed, ObjectsType
<1>3. ThreadsType'
  <2>1. NoJob \in Jobs /\ Reply(ptr[w]) \in Jobs
    BY <1>0, ReplyType DEF NoJob, Jobs
  <2>2. 0 .. (IF recv_len[ptr[w]] = 0 THEN 0 ELSE MaxMessages) \subseteq Nat
    BY BoundsAssumption
  <2> QED BY <1>0, <2>1, <2>2 DEF Feed, ThreadsType, Goto, Labels, Functions, AfterFeed
<1>4. OthersIdle(w)
  BY DEF Feed, OthersIdle, ThreadsType, Goto, AfterFeed
<1>5. ControlAt(w)'
  BY <1>0, ClientsAssumption, ThreadsAssumption DEF Feed, ControlOK, ControlAt, ThreadsType, Goto, AfterFeed
<1> QED BY <1>1, <1>2, <1>3, <1>4, <1>5, ControlStep

LEMMA createRequestType ==
  ASSUME TypeInv, NEW w \in Workers, createRequest(w)
  PROVE  TypeInv' /\ OthersIdle(w)
<1> USE Thread DEF TypeInv, TypeOK
<1>0. ptr[w] \in Clients
  BY DEF createRequest, ControlOK, ControlAt, ThreadsType
<1>1. ObjectsType' /\ ListsType' /\ KernelType'
  BY DEF createRequest, ObjectsType, ListsType, KernelType, objects, lists, kernel
<1>2. QueuesType'
  BY <1>0, ReplyType, AppendProperties DEF createRequest, QueuesType
<1>3. ThreadsType'
  <2>1. messages[w] - 1 \in Nat
    BY DEF createRequest, ControlOK, ControlAt, ThreadsType
  <2> QED BY <2>1 DEF createRequest, ThreadsType, Goto, Labels, LastMessage
<1>4. OthersIdle(w)
  BY DEF createRequest, OthersIdle, ThreadsType, Goto, LastMessage
<1>5. ControlAt(w)'
  BY <1>0, ClientsAssumption, ThreadsAssumption DEF createRequest, ControlOK, ControlAt, ThreadsType, Goto, LastMessage
<1> QED BY <1>1, <1>2, <1>3, <1>4, <1>5, ControlStep

LEMMA DisconnectFaultyType ==
  ASSUME TypeInv, NEW w \in Workers, DisconnectFaulty(w)
  PROVE  TypeInv' /\ OthersIdle(w)
<1> USE Thread DEF TypeInv, TypeOK
<1>1. ListsType' /\ QueuesType' /\ KernelType'
  BY DEF DisconnectFaulty, ListsType, QueuesType, KernelType, lists, queues, kernel
<1>2. ObjectsType'
  BY DEF DisconnectFaulty, ObjectsType
<1>3. ThreadsType'
  BY DEF DisconnectFaulty, ThreadsType, Goto, Labels
<1>4. OthersIdle(w)
  BY DEF DisconnectFaulty, OthersIdle, ThreadsType, Goto
<1>5. ControlAt(w)'
  BY ClientsAssumption, ThreadsAssumption DEF DisconnectFaulty, ControlOK, ControlAt, ThreadsType, Goto
<1> QED BY <1>1, <1>2, <1>3, <1>4, <1>5, ControlStep

\* The buffers of a message.
LEMMA ChunksType ==
  ASSUME ThreadsType, NEW t \in Threads, NEW n \in 1 .. MaxChunks
  PROVE  /\ Message(t) \in Messages /\ n \in Nat \ {0}
         /\ Chunks(t, n) \in Seq(Buffers) /\ Len(Chunks(t, n)) = n
<1>1. Message(t) \in Messages
  BY DEF ThreadsType, Jobs, Message, Messages
<1>2. n \in Nat \ {0}
  BY BoundsAssumption
<1> DEFINE chunk(k) == [message |-> Message(t), part |-> k]
<1>3. \A k \in 1 .. n : chunk(k) \in Buffers
  <2> HIDE DEF Message
  <2> QED BY <1>1, <1>2 DEF Buffers
<1>4. Chunks(t, n) = [k \in 1 .. n |-> chunk(k)]
  BY DEF Chunks
<1> HIDE DEF chunk
<1> QED BY <1>1, <1>2, <1>3, <1>4

LEMMA EnqueueType ==
  ASSUME TypeInv, NEW t \in Threads, Enqueue(t)
  PROVE  TypeInv' /\ OthersIdle(t)
<1> USE Thread DEF TypeInv, TypeOK
<1>0. ptr[t] \in Clients
  BY DEF Enqueue, ControlOK, ControlAt, ThreadsType
<1>1. ListsType' /\ QueuesType' /\ KernelType'
  BY DEF Enqueue, ListsType, QueuesType, KernelType, lists, queues, kernel
<1>2. ObjectsType'
  <2> DEFINE c == ptr[t]
  <2>1. PICK n \in 1 .. MaxChunks : outq' = [outq EXCEPT ![c] = outq[c] \o Chunks(t, n)]
    BY DEF Enqueue, Queued
  <2>2. outq[c] \o Chunks(t, n) \in Seq(Buffers)
    <3>1. outq[c] \in Seq(Buffers)
      BY <1>0 DEF ObjectsType
    <3> QED BY <3>1, ChunksType, ConcatProperties
  <2>3. outq' \in [Clients -> Seq(Buffers)]
    BY <2>1, <2>2 DEF ObjectsType
  <2> QED BY <1>0, <2>3 DEF Enqueue, ObjectsType
<1>3. ThreadsType'
  BY <1>0 DEF Enqueue, ThreadsType, Goto, Labels, NoJob, Jobs
<1>4. OthersIdle(t)
  BY DEF Enqueue, OthersIdle, ThreadsType, Goto, SendInProgress
<1>5. ControlAt(t)'
  BY <1>0, ClientsAssumption, ThreadsAssumption DEF Enqueue, ControlOK, ControlAt, ThreadsType, Goto, SendInProgress
<1> QED BY <1>1, <1>2, <1>3, <1>4, <1>5, ControlStep

LEMMA postReceiveEventType ==
  ASSUME TypeInv, NEW t \in Threads, postReceiveEvent(t)
  PROVE  TypeInv' /\ OthersIdle(t)
<1> USE Thread DEF TypeInv, TypeOK
<1>0. ptr[t] \in Clients
  BY DEF postReceiveEvent, ControlOK, ControlAt, ThreadsType
<1>1. ListsType' /\ QueuesType'
  BY DEF postReceiveEvent, ListsType, QueuesType, lists, queues
<1>2. ObjectsType'
  BY <1>0, SMTT(30) DEF postReceiveEvent, ObjectsType, objects
<1>3. KernelType'
  BY <1>0 DEF postReceiveEvent, KernelType
<1>4. ThreadsType'
  BY <1>0 DEF postReceiveEvent, ThreadsType, Goto, Labels
<1>5. OthersIdle(t)
  BY DEF postReceiveEvent, OthersIdle, ThreadsType, Goto
<1>6. ControlAt(t)'
  BY <1>0, ClientsAssumption, ThreadsAssumption DEF postReceiveEvent, ControlOK, ControlAt, ThreadsType, Goto
<1> QED BY <1>1, <1>2, <1>3, <1>4, <1>5, <1>6, ControlStep

LEMMA postSendEventType ==
  ASSUME TypeInv, NEW t \in Threads, postSendEvent(t)
  PROVE  TypeInv' /\ OthersIdle(t)
<1> USE Thread DEF TypeInv, TypeOK
<1>0. ptr[t] \in Clients
  BY DEF postSendEvent, ControlOK, ControlAt, ThreadsType
<1>1. ListsType' /\ QueuesType'
  BY DEF postSendEvent, ListsType, QueuesType, lists, queues
<1>2. ObjectsType'
  BY <1>0, SMTT(30) DEF postSendEvent, ObjectsType, objects
<1>3. KernelType'
  BY <1>0 DEF postSendEvent, KernelType
<1>4. ThreadsType'
  BY <1>0 DEF postSendEvent, ThreadsType, Goto, Labels
<1>5. OthersIdle(t)
  BY DEF postSendEvent, OthersIdle, ThreadsType, Goto
<1>6. ControlAt(t)'
  BY <1>0, ClientsAssumption, ThreadsAssumption DEF postSendEvent, ControlOK, ControlAt, ThreadsType, Goto
<1> QED BY <1>1, <1>2, <1>3, <1>4, <1>5, <1>6, ControlStep

LEMMA CountPostedType ==
  ASSUME TypeInv, NEW t \in Threads, CountPosted(t)
  PROVE  TypeInv' /\ OthersIdle(t)
<1> USE Thread DEF TypeInv, TypeOK
<1>0. ptr[t] \in Clients
  BY DEF CountPosted, ControlOK, ControlAt, ThreadsType
<1>1. ListsType' /\ QueuesType' /\ KernelType'
  BY DEF CountPosted, ListsType, QueuesType, KernelType, lists, queues, kernel
<1>2. ObjectsType'
  BY <1>0 DEF CountPosted, ObjectsType
<1>3. ThreadsType'
  BY <1>0 DEF CountPosted, ThreadsType, Goto, Labels
<1>4. OthersIdle(t)
  BY DEF CountPosted, OthersIdle, ThreadsType, Goto
<1>5. ControlAt(t)'
  BY <1>0, ClientsAssumption, ThreadsAssumption DEF CountPosted, ControlOK, ControlAt, ThreadsType, Goto
<1> QED BY <1>1, <1>2, <1>3, <1>4, <1>5, ControlStep

LEMMA PostFailedType ==
  ASSUME TypeInv, NEW t \in Threads, PostFailed(t)
  PROVE  TypeInv' /\ OthersIdle(t)
<1> USE Thread DEF TypeInv, TypeOK
<1>1. ListsType' /\ QueuesType' /\ KernelType'
  BY DEF PostFailed, ListsType, QueuesType, KernelType, lists, queues, kernel
<1>2. ObjectsType'
  BY DEF PostFailed, ObjectsType
<1>3. ThreadsType'
  BY DEF PostFailed, ThreadsType, Goto, Labels
<1>4. OthersIdle(t)
  BY DEF PostFailed, OthersIdle, ThreadsType, Goto
<1>5. ControlAt(t)'
  BY ClientsAssumption, ThreadsAssumption DEF PostFailed, ControlOK, ControlAt, ThreadsType, Goto
<1> QED BY <1>1, <1>2, <1>3, <1>4, <1>5, ControlStep

LEMMA DropGuardType ==
  ASSUME TypeInv, NEW t \in Threads, DropGuard(t)
  PROVE  TypeInv' /\ OthersIdle(t)
<1> USE Thread DEF TypeInv, TypeOK
<1>0. ptr[t] \in Clients
  BY DEF DropGuard, ControlOK, ControlAt, ThreadsType
<1>1. ListsType' /\ QueuesType' /\ KernelType'
  BY DEF DropGuard, ListsType, QueuesType, KernelType, lists, queues, kernel
<1>2. ObjectsType'
  BY <1>0 DEF DropGuard, ObjectsType, objects
<1>3. ThreadsType'
  BY <1>0 DEF DropGuard, ThreadsType, Goto, Labels
<1>4. OthersIdle(t)
  BY DEF DropGuard, OthersIdle, ThreadsType, Goto
<1>5. ControlAt(t)'
  BY <1>0, ClientsAssumption, ThreadsAssumption DEF DropGuard, ControlOK, ControlAt, ThreadsType, Goto
<1> QED BY <1>1, <1>2, <1>3, <1>4, <1>5, ControlStep

LEMMA ReleaseType ==
  ASSUME TypeInv, NEW t \in Threads, Release(t)
  PROVE  TypeInv' /\ OthersIdle(t)
<1> USE Thread DEF TypeInv, TypeOK
<1>0. ptr[t] \in Clients
  BY DEF Release, ControlOK, ControlAt, ThreadsType
<1>1. ListsType' /\ QueuesType' /\ KernelType'
  BY DEF Release, ListsType, QueuesType, KernelType, lists, queues, kernel
<1>2. ObjectsType'
  BY <1>0, SMTT(30) DEF Release, ObjectsType, objects
<1>3. ThreadsType'
  BY <1>0 DEF Release, ThreadsType, Goto, Labels
<1>4. OthersIdle(t)
  BY DEF Release, OthersIdle, ThreadsType, Goto
<1>5. ControlAt(t)'
  BY <1>0, ClientsAssumption, ThreadsAssumption DEF Release, ControlOK, ControlAt, ThreadsType, Goto
<1> QED BY <1>1, <1>2, <1>3, <1>4, <1>5, ControlStep

LEMMA CheckLastType ==
  ASSUME TypeInv, NEW t \in Threads, CheckLast(t)
  PROVE  TypeInv' /\ OthersIdle(t)
<1> USE Thread DEF TypeInv, TypeOK
<1>1. ObjectsType' /\ ListsType' /\ QueuesType' /\ KernelType'
  BY DEF CheckLast, ObjectsType, ListsType, QueuesType, KernelType, objects, lists, queues, kernel
<1>2. ThreadsType'
  BY DEF CheckLast, ThreadsType, Goto, Labels, Functions, Finish, AfterCheck
<1>3. OthersIdle(t)
  BY DEF CheckLast, OthersIdle, ThreadsType, Goto, Finish, AfterCheck
<1>4. ControlAt(t)'
  BY ClientsAssumption, ThreadsAssumption DEF CheckLast, ControlOK, ControlAt, ThreadsType, Goto, Finish, AfterCheck
<1> QED BY <1>1, <1>2, <1>3, <1>4, ControlStep

LEMMA terminateClientType ==
  ASSUME TypeInv, NEW t \in Threads, terminateClient(t)
  PROVE  TypeInv' /\ OthersIdle(t)
<1> USE Thread DEF TypeInv, TypeOK
<1>0. ptr[t] \in Clients
  BY DEF terminateClient, ControlOK, ControlAt, ThreadsType
<1>1. QueuesType' /\ KernelType'
  BY DEF terminateClient, QueuesType, KernelType, queues, kernel
<1>2. ObjectsType'
  BY <1>0 DEF terminateClient, ObjectsType
<1>3. ListsType'
  <2> DEFINE id == cid[ptr[t]]
  <2>1. CASE Registered(id)
    <3>1. /\ client_list' = [client_list EXCEPT ![id] = NoClient]
          /\ free_ids' = Append(free_ids, id)
          /\ id \in Nat
      BY <1>0, <2>1 DEF terminateClient, ObjectsType
    <3>2. client_list' \in Seq(Clients \cup {NoClient})
      BY <3>1, ReplaceType DEF ListsType
    <3>3. free_ids' \in Seq(Nat)
      BY <3>1, AppendProperties DEF ListsType
    <3> QED BY <3>2, <3>3 DEF ListsType
  <2>2. CASE ~Registered(id)
    BY <2>2 DEF terminateClient, ListsType
  <2> QED BY <2>1, <2>2
<1>4. ThreadsType'
  BY <1>0 DEF terminateClient, ThreadsType, Goto, Labels, Functions, Finish, AfterCheck
<1>5. OthersIdle(t)
  BY DEF terminateClient, OthersIdle, ThreadsType, Goto, Finish, AfterCheck
<1>6. ControlAt(t)'
  BY <1>0, ClientsAssumption, ThreadsAssumption DEF terminateClient, ControlOK, ControlAt, ThreadsType, Goto, Finish, AfterCheck
<1> QED BY <1>1, <1>2, <1>3, <1>4, <1>5, <1>6, ControlStep

LEMMA UnlockType ==
  ASSUME TypeInv, NEW t \in Threads, Unlock(t)
  PROVE  TypeInv' /\ OthersIdle(t)
<1> USE Thread DEF TypeInv, TypeOK
<1>1. ListsType' /\ QueuesType' /\ KernelType'
  BY DEF Unlock, ListsType, QueuesType, KernelType, lists, queues, kernel
<1>2. ObjectsType'
  BY DEF Unlock, ObjectsType, objects
<1>3. ThreadsType'
  BY DEF Unlock, ThreadsType, Labels, Functions, Finish, ReturnFromSend
<1>4. OthersIdle(t)
  BY DEF Unlock, OthersIdle, ThreadsType, Finish, ReturnFromSend
<1>5. ControlAt(t)'
  BY ClientsAssumption, ThreadsAssumption DEF Unlock, ControlOK, ControlAt, ThreadsType, Finish, ReturnFromSend
<1> QED BY <1>1, <1>2, <1>3, <1>4, <1>5, ControlStep

LEMMA ConnectType ==
  ASSUME TypeInv, NEW c \in Clients, Connect(c)
  PROVE  TypeInv' /\ UNCHANGED threads
<1> USE DEF TypeInv, TypeOK
<1>1. ObjectsType' /\ ListsType' /\ QueuesType' /\ ThreadsType' /\ UNCHANGED threads
  BY DEF Connect, ObjectsType, ListsType, QueuesType, ThreadsType, objects, lists, queues, threads
<1>2. packets[c] \in [Kinds -> Nat]
  BY DEF KernelType
<1>3. KernelType'
  BY <1>2 DEF Connect, KernelType, Kinds
<1>4. ControlOK'
  BY <1>1 DEF ControlOK, ControlAt, threads
<1> QED BY <1>1, <1>3, <1>4

LEMMA PeerClosesType ==
  ASSUME TypeInv, NEW c \in Clients, PeerCloses(c)
  PROVE  TypeInv' /\ UNCHANGED threads
<1> USE DEF TypeInv, TypeOK
<1>1. ObjectsType' /\ ListsType' /\ QueuesType' /\ ThreadsType' /\ UNCHANGED threads
  BY DEF PeerCloses, ObjectsType, ListsType, QueuesType, ThreadsType, objects, lists, queues, threads
<1>2. packets[c] \in [Kinds -> Nat]
  BY DEF KernelType
<1>3. KernelType'
  BY <1>2 DEF PeerCloses, KernelType, Kinds
<1>4. ControlOK'
  BY <1>1 DEF ControlOK, ControlAt, threads
<1> QED BY <1>1, <1>3, <1>4

LEMMA ReceiveCompletesType ==
  ASSUME TypeInv, NEW c \in Clients, ReceiveCompletes(c)
  PROVE  TypeInv' /\ UNCHANGED threads
<1> USE DEF TypeInv, TypeOK
<1>1. ObjectsType' /\ ListsType' /\ QueuesType' /\ ThreadsType' /\ UNCHANGED threads
  BY DEF ReceiveCompletes, ObjectsType, ListsType, QueuesType, ThreadsType, objects, lists, queues, threads
<1>2. packets[c] \in [Kinds -> Nat]
  BY DEF KernelType
<1>3. KernelType'
  BY <1>2 DEF ReceiveCompletes, KernelType, Kinds
<1>4. ControlOK'
  BY <1>1 DEF ControlOK, ControlAt, threads
<1> QED BY <1>1, <1>3, <1>4

LEMMA ReceiveEndsType ==
  ASSUME TypeInv, NEW c \in Clients, ReceiveEnds(c)
  PROVE  TypeInv' /\ UNCHANGED threads
<1> USE DEF TypeInv, TypeOK
<1>1. ObjectsType' /\ ListsType' /\ QueuesType' /\ ThreadsType' /\ UNCHANGED threads
  BY DEF ReceiveEnds, ObjectsType, ListsType, QueuesType, ThreadsType, objects, lists, queues, threads
<1>2. packets[c] \in [Kinds -> Nat]
  BY DEF KernelType
<1>3. KernelType'
  BY <1>2 DEF ReceiveEnds, KernelType, Kinds
<1>4. ControlOK'
  BY <1>1 DEF ControlOK, ControlAt, threads
<1> QED BY <1>1, <1>3, <1>4

LEMMA SendCompletesType ==
  ASSUME TypeInv, NEW c \in Clients, SendCompletes(c)
  PROVE  TypeInv' /\ UNCHANGED threads
<1> USE DEF TypeInv, TypeOK
<1>1. ObjectsType' /\ ListsType' /\ QueuesType' /\ ThreadsType' /\ UNCHANGED threads
  BY DEF SendCompletes, ObjectsType, ListsType, QueuesType, ThreadsType, objects, lists, queues, threads
<1>2. packets[c] \in [Kinds -> Nat]
  BY DEF KernelType
<1>3. KernelType'
  BY <1>2 DEF SendCompletes, KernelType, Kinds
<1>4. ControlOK'
  BY <1>1 DEF ControlOK, ControlAt, threads
<1> QED BY <1>1, <1>3, <1>4


LEMMA KernelNextType ==
  ASSUME TypeInv, KernelNext
  PROVE  TypeInv' /\ UNCHANGED threads
<1> PICK c \in Clients : \/ Connect(c) \/ PeerCloses(c)
                         \/ ReceiveCompletes(c) \/ ReceiveEnds(c) \/ SendCompletes(c)
  BY DEF KernelNext
<1> QED BY ConnectType, PeerClosesType, ReceiveCompletesType, ReceiveEndsType, SendCompletesType

LEMMA ThreadNextType ==
  ASSUME TypeInv, NEW t \in Threads, ThreadNext(t)
  PROVE  TypeInv' /\ OthersIdle(t)
<1>1. CASE t = Listener /\ ListenerNext
  BY <1>1, addClientType, postAcceptExEventType, DequeueType, DispatchType,
     PushToAssemblerType, HangUpType, CompleteSendType DEF ListenerNext
<1>2. CASE t \in Workers /\ WorkerNext(t)
  BY <1>2, PopClientIdType, FeedType, createRequestType, DisconnectFaultyType DEF WorkerNext
<1>3. CASE t \in Apps /\ NextRequest(t)
  BY <1>3, NextRequestType
<1>4. CASE \/ getClient(t) \/ Enqueue(t)
           \/ postReceiveEvent(t) \/ postSendEvent(t) \/ CountPosted(t) \/ PostFailed(t)
  BY <1>4, getClientType, EnqueueType, postReceiveEventType, postSendEventType,
     CountPostedType, PostFailedType
<1>5. CASE \/ DropGuard(t) \/ Release(t) \/ CheckLast(t) \/ terminateClient(t) \/ Unlock(t)
  BY <1>5, DropGuardType, ReleaseType, CheckLastType, terminateClientType, UnlockType
<1> QED BY <1>1, <1>2, <1>3, <1>4, <1>5 DEF ThreadNext

LEMMA NextType == ASSUME TypeInv, [Next]_vars PROVE TypeInv'
<1>1. CASE KernelNext
  BY <1>1, KernelNextType
<1>2. CASE \E t \in Threads : ThreadNext(t)
  BY <1>2, ThreadNextType
<1>3. CASE UNCHANGED vars
  BY <1>3 DEF vars, objects, lists, queues, kernel, threads, TypeInv, TypeOK, ObjectsType,
              ListsType, QueuesType, KernelType, ThreadsType, ControlOK, ControlAt
<1> QED BY <1>1, <1>2, <1>3 DEF Next

\* The variables of the server stay within the values their C++ counterparts
\* can hold, whatever the number of clients and threads.
THEOREM TypeCorrect == Spec => []TypeOK
<1>1. Init => TypeInv
  BY InitType
<1>2. TypeInv /\ [Next]_vars => TypeInv'
  BY NextType
<1>3. TypeInv => TypeOK
  BY DEF TypeInv
<1> QED BY <1>1, <1>2, <1>3, PTL DEF Spec

-----------------------------------------------------------------------------
(* Reference counts. *)

\* The references thread t holds on client c.
References(t, c) ==
  (IF Owns(t, c) THEN 1 ELSE 0) + (IF Guards(t, c) THEN 1 ELSE 0)
  + (IF outer[t] = c THEN 1 ELSE 0)

\* What a step of thread t adds to the count of every client is what it adds to
\* the operations outstanding and to the references it holds.
Balanced(t) ==
  \A c \in Clients :
    refs'[c] - refs[c] = Outstanding(c)' - Outstanding(c) + References(t, c)' - References(t, c)

LEMMA ThreadsFinite == IsFiniteSet(Threads)
<1>1. IsFiniteSet(Workers)
  BY ThreadsAssumption, FS_Interval DEF Workers
<1> QED BY <1>1, ThreadsAssumption, FS_Singleton, FS_Union DEF Threads

\* Two sets of threads that differ at most in t.
LEMMA CardinalityChange ==
  ASSUME NEW S \in SUBSET Threads, NEW T \in SUBSET Threads, NEW t, S \ {t} = T \ {t}
  PROVE  /\ Cardinality(S) \in Nat /\ Cardinality(T) \in Nat
         /\ Cardinality(T) = Cardinality(S) + (IF t \in T THEN 1 ELSE 0)
                                            - (IF t \in S THEN 1 ELSE 0)
<1>1. IsFiniteSet(S) /\ IsFiniteSet(T)
  BY ThreadsFinite, FS_Subset
<1>2. /\ Cardinality(S \ {t}) = IF t \in S THEN Cardinality(S) - 1 ELSE Cardinality(S)
      /\ Cardinality(T \ {t}) = IF t \in T THEN Cardinality(T) - 1 ELSE Cardinality(T)
  BY <1>1, FS_RemoveElement
<1>3. Cardinality(S) \in Nat /\ Cardinality(T) \in Nat
  BY <1>1, FS_CardinalityType
<1> QED BY <1>2, <1>3

\* The references held change by what the acting thread's change.
LEMMA HeldChange ==
  ASSUME NEW t \in Threads, NEW c \in Clients, OthersIdle(t)
  PROVE  /\ Held(c) \in Int /\ Held(c)' \in Int
         /\ Held(c)' = Held(c) + References(t, c)' - References(t, c)
<1> DEFINE O == {u \in Threads : Owns(u, c)}
           G == {u \in Threads : Guards(u, c)}
           C == {u \in Threads : outer[u] = c}
<1>1. O \ {t} = O' \ {t} /\ G \ {t} = G' \ {t} /\ C \ {t} = C' \ {t}
  BY DEF OthersIdle, Owns, Guards
<1>2. /\ Cardinality(O) \in Nat /\ Cardinality(O') \in Nat
      /\ Cardinality(O') = Cardinality(O) + (IF t \in O' THEN 1 ELSE 0) - (IF t \in O THEN 1 ELSE 0)
  BY <1>1, CardinalityChange
<1>3. /\ Cardinality(G) \in Nat /\ Cardinality(G') \in Nat
      /\ Cardinality(G') = Cardinality(G) + (IF t \in G' THEN 1 ELSE 0) - (IF t \in G THEN 1 ELSE 0)
  BY <1>1, CardinalityChange
<1>4. /\ Cardinality(C) \in Nat /\ Cardinality(C') \in Nat
      /\ Cardinality(C') = Cardinality(C) + (IF t \in C' THEN 1 ELSE 0) - (IF t \in C THEN 1 ELSE 0)
  BY <1>1, CardinalityChange
<1>5. /\ Held(c) = Cardinality(O) + Cardinality(G) + Cardinality(C)
      /\ Held(c)' = Cardinality(O') + Cardinality(G') + Cardinality(C')
  BY DEF Held
<1>6. /\ (t \in O <=> Owns(t, c)) /\ (t \in O' <=> Owns(t, c)')
      /\ (t \in G <=> Guards(t, c)) /\ (t \in G' <=> Guards(t, c)')
      /\ (t \in C <=> outer[t] = c) /\ (t \in C' <=> outer'[t] = c)
  OBVIOUS
<1> HIDE DEF O, G, C
<1> QED BY <1>2, <1>3, <1>4, <1>5, <1>6 DEF References

\* What is added and subtracted are integers.
LEMMA IntegersInvolved ==
  ASSUME TypeOK, NEW t \in Threads, NEW c \in Clients
  PROVE  refs[c] \in Int /\ Outstanding(c) \in Int /\ References(t, c) \in Int
  BY DEF TypeOK, ObjectsType, KernelType, Outstanding, References, Kinds

LEMMA addClientBalanced == ASSUME TypeInv, addClient PROVE Balanced(Listener)
<1> USE Thread DEF TypeInv, TypeOK
<1>1. accept \in Clients /\ ControlAt(Listener)
  BY DEF addClient, ControlOK
<1>2. ASSUME NEW c \in Clients PROVE Outstanding(c)' = Outstanding(c)
  BY DEF addClient, Outstanding
<1>3. ASSUME NEW c \in Clients
      PROVE  References(Listener, c)' = References(Listener, c) + IF c = accept THEN 1 ELSE 0
  BY <1>1, ClientsAssumption DEF addClient, References, Owns, Guards, ControlAt, ThreadsType, Goto
<1>4. ASSUME NEW c \in Clients
      PROVE  refs'[c] = refs[c] + IF c = accept THEN 1 ELSE 0
  BY DEF addClient, ObjectsType
<1> QED BY <1>2, <1>3, <1>4, IntegersInvolved DEF Balanced

LEMMA postAcceptExEventBalanced ==
  ASSUME TypeInv, postAcceptExEvent
  PROVE  Balanced(Listener)
<1> USE Thread DEF TypeInv, TypeOK
<1>1. ControlAt(Listener)
  BY DEF ControlOK
<1>2. ASSUME NEW c \in Clients PROVE References(Listener, c)' = References(Listener, c)
  BY <1>1, ClientsAssumption DEF postAcceptExEvent, References, Owns, Guards, ControlAt, ThreadsType, Finish
<1>3. ASSUME NEW c \in Clients PROVE Outstanding(c)' = Outstanding(c) /\ refs'[c] = refs[c]
  BY DEF postAcceptExEvent, Outstanding, kernel
<1> QED BY <1>2, <1>3, IntegersInvolved DEF Balanced

LEMMA DispatchBalanced ==
  ASSUME TypeInv, Dispatch
  PROVE  Balanced(Listener)
<1> USE Thread DEF TypeInv, TypeOK
<1>1. ControlAt(Listener)
  BY DEF ControlOK
<1>2. ASSUME NEW c \in Clients PROVE References(Listener, c)' = References(Listener, c)
  BY <1>1, ClientsAssumption DEF Dispatch, References, Owns, Guards, ControlAt, ThreadsType, Goto
<1>3. ASSUME NEW c \in Clients PROVE Outstanding(c)' = Outstanding(c) /\ refs'[c] = refs[c]
  BY DEF Dispatch, Outstanding, kernel
<1> QED BY <1>2, <1>3, IntegersInvolved DEF Balanced

LEMMA PushToAssemblerBalanced ==
  ASSUME TypeInv, PushToAssembler
  PROVE  Balanced(Listener)
<1> USE Thread DEF TypeInv, TypeOK
<1>1. ControlAt(Listener)
  BY DEF ControlOK
<1>2. ASSUME NEW c \in Clients PROVE References(Listener, c)' = References(Listener, c)
  BY <1>1, ClientsAssumption DEF PushToAssembler, References, Owns, Guards, ControlAt, ThreadsType, Finish
<1>3. ASSUME NEW c \in Clients PROVE Outstanding(c)' = Outstanding(c) /\ refs'[c] = refs[c]
  BY DEF PushToAssembler, Outstanding, kernel
<1> QED BY <1>2, <1>3, IntegersInvolved DEF Balanced

LEMMA HangUpBalanced ==
  ASSUME TypeInv, HangUp
  PROVE  Balanced(Listener)
<1> USE Thread DEF TypeInv, TypeOK
<1>1. ControlAt(Listener)
  BY DEF ControlOK
<1>2. ASSUME NEW c \in Clients PROVE References(Listener, c)' = References(Listener, c)
  BY <1>1, ClientsAssumption DEF HangUp, References, Owns, Guards, ControlAt, ThreadsType, Goto
<1>3. ASSUME NEW c \in Clients PROVE Outstanding(c)' = Outstanding(c) /\ refs'[c] = refs[c]
  BY DEF HangUp, Outstanding, kernel
<1> QED BY <1>2, <1>3, IntegersInvolved DEF Balanced

LEMMA CompleteSendBalanced ==
  ASSUME TypeInv, CompleteSend
  PROVE  Balanced(Listener)
<1> USE Thread DEF TypeInv, TypeOK
<1>1. ControlAt(Listener)
  BY DEF ControlOK
<1>2. ASSUME NEW c \in Clients PROVE References(Listener, c)' = References(Listener, c)
  BY <1>1, ClientsAssumption DEF CompleteSend, References, Owns, Guards, ControlAt, ThreadsType, Goto
<1>3. ASSUME NEW c \in Clients PROVE Outstanding(c)' = Outstanding(c) /\ refs'[c] = refs[c]
  BY DEF CompleteSend, Outstanding, kernel
<1> QED BY <1>2, <1>3, IntegersInvolved DEF Balanced

LEMMA PopClientIdBalanced ==
  ASSUME TypeInv, NEW w \in Workers, PopClientId(w)
  PROVE  Balanced(w)
<1> USE Thread DEF TypeInv, TypeOK
<1>1. ControlAt(w)
  BY DEF ControlOK
<1>2. ASSUME NEW c \in Clients PROVE References(w, c)' = References(w, c)
  BY <1>1, ClientsAssumption DEF PopClientId, References, Owns, Guards, ControlAt, ThreadsType, Goto
<1>3. ASSUME NEW c \in Clients PROVE Outstanding(c)' = Outstanding(c) /\ refs'[c] = refs[c]
  BY DEF PopClientId, Outstanding, kernel
<1> QED BY <1>2, <1>3, IntegersInvolved DEF Balanced

LEMMA NextRequestBalanced ==
  ASSUME TypeInv, NEW a \in Apps, NextRequest(a)
  PROVE  Balanced(a)
<1> USE Thread DEF TypeInv, TypeOK
<1>1. ControlAt(a)
  BY DEF ControlOK
<1>2. ASSUME NEW c \in Clients PROVE References(a, c)' = References(a, c)
  BY <1>1, ClientsAssumption DEF NextRequest, References, Owns, Guards, ControlAt, ThreadsType, Goto
<1>3. ASSUME NEW c \in Clients PROVE Outstanding(c)' = Outstanding(c) /\ refs'[c] = refs[c]
  BY DEF NextRequest, Outstanding, kernel
<1> QED BY <1>2, <1>3, IntegersInvolved DEF Balanced

LEMMA FeedBalanced ==
  ASSUME TypeInv, NEW w \in Workers, Feed(w)
  PROVE  Balanced(w)
<1> USE Thread DEF TypeInv, TypeOK
<1>1. ControlAt(w)
  BY DEF ControlOK
<1>2. ASSUME NEW c \in Clients PROVE References(w, c)' = References(w, c)
  BY <1>1, ClientsAssumption DEF Feed, References, Owns, Guards, ControlAt, ThreadsType, Goto, AfterFeed
<1>3. ASSUME NEW c \in Clients PROVE Outstanding(c)' = Outstanding(c) /\ refs'[c] = refs[c]
  BY DEF Feed, Outstanding, kernel
<1> QED BY <1>2, <1>3, IntegersInvolved DEF Balanced

LEMMA createRequestBalanced ==
  ASSUME TypeInv, NEW w \in Workers, createRequest(w)
  PROVE  Balanced(w)
<1> USE Thread DEF TypeInv, TypeOK
<1>1. ControlAt(w)
  BY DEF ControlOK
<1>2. ASSUME NEW c \in Clients PROVE References(w, c)' = References(w, c)
  BY <1>1, ClientsAssumption DEF createRequest, References, Owns, Guards, ControlAt, ThreadsType, Goto
<1>3. ASSUME NEW c \in Clients PROVE Outstanding(c)' = Outstanding(c) /\ refs'[c] = refs[c]
  BY DEF createRequest, Outstanding, kernel
<1> QED BY <1>2, <1>3, IntegersInvolved DEF Balanced

LEMMA DisconnectFaultyBalanced ==
  ASSUME TypeInv, NEW w \in Workers, DisconnectFaulty(w)
  PROVE  Balanced(w)
<1> USE Thread DEF TypeInv, TypeOK
<1>1. ControlAt(w)
  BY DEF ControlOK
<1>2. ASSUME NEW c \in Clients PROVE References(w, c)' = References(w, c)
  BY <1>1, ClientsAssumption DEF DisconnectFaulty, References, Owns, Guards, ControlAt, ThreadsType, Goto
<1>3. ASSUME NEW c \in Clients PROVE Outstanding(c)' = Outstanding(c) /\ refs'[c] = refs[c]
  BY DEF DisconnectFaulty, Outstanding, kernel
<1> QED BY <1>2, <1>3, IntegersInvolved DEF Balanced

LEMMA EnqueueBalanced ==
  ASSUME TypeInv, NEW t \in Threads, Enqueue(t)
  PROVE  Balanced(t)
<1> USE Thread DEF TypeInv, TypeOK
<1>1. ControlAt(t)
  BY DEF ControlOK
<1>2. ASSUME NEW c \in Clients PROVE References(t, c)' = References(t, c)
  BY <1>1, ClientsAssumption DEF Enqueue, References, Owns, Guards, ControlAt, ThreadsType, Goto
<1>3. ASSUME NEW c \in Clients PROVE Outstanding(c)' = Outstanding(c) /\ refs'[c] = refs[c]
  BY DEF Enqueue, Outstanding, kernel
<1> QED BY <1>2, <1>3, IntegersInvolved DEF Balanced

LEMMA CheckLastBalanced ==
  ASSUME TypeInv, NEW t \in Threads, CheckLast(t)
  PROVE  Balanced(t)
<1> USE Thread DEF TypeInv, TypeOK
<1>1. ControlAt(t)
  BY DEF ControlOK
<1>2. ASSUME NEW c \in Clients PROVE References(t, c)' = References(t, c)
  BY <1>1, ClientsAssumption DEF CheckLast, References, Owns, Guards, ControlAt, ThreadsType, Goto, Finish, AfterCheck
<1>3. ASSUME NEW c \in Clients PROVE Outstanding(c)' = Outstanding(c) /\ refs'[c] = refs[c]
  BY DEF CheckLast, Outstanding, kernel
<1> QED BY <1>2, <1>3, IntegersInvolved DEF Balanced

LEMMA terminateClientBalanced ==
  ASSUME TypeInv, NEW t \in Threads, terminateClient(t)
  PROVE  Balanced(t)
<1> USE Thread DEF TypeInv, TypeOK
<1>1. ControlAt(t)
  BY DEF ControlOK
<1>2. ASSUME NEW c \in Clients PROVE References(t, c)' = References(t, c)
  BY <1>1, ClientsAssumption DEF terminateClient, References, Owns, Guards, ControlAt, ThreadsType, Goto, Finish, AfterCheck
<1>3. ASSUME NEW c \in Clients PROVE Outstanding(c)' = Outstanding(c) /\ refs'[c] = refs[c]
  BY DEF terminateClient, Outstanding, kernel
<1> QED BY <1>2, <1>3, IntegersInvolved DEF Balanced

LEMMA UnlockBalanced ==
  ASSUME TypeInv, NEW t \in Threads, Unlock(t)
  PROVE  Balanced(t)
<1> USE Thread DEF TypeInv, TypeOK
<1>1. ControlAt(t)
  BY DEF ControlOK
<1>2. ASSUME NEW c \in Clients PROVE References(t, c)' = References(t, c)
  BY <1>1, ClientsAssumption DEF Unlock, References, Owns, Guards, ControlAt, ThreadsType, Finish, ReturnFromSend
<1>3. ASSUME NEW c \in Clients PROVE Outstanding(c)' = Outstanding(c) /\ refs'[c] = refs[c]
  BY DEF Unlock, Outstanding, kernel
<1> QED BY <1>2, <1>3, IntegersInvolved DEF Balanced

LEMMA CountPostedBalanced ==
  ASSUME TypeInv, NEW t \in Threads, CountPosted(t)
  PROVE  Balanced(t)
<1> USE Thread DEF TypeInv, TypeOK
<1>1. ControlAt(t)
  BY DEF ControlOK
<1>2. ASSUME NEW c \in Clients PROVE Outstanding(c)' = Outstanding(c)
  BY DEF CountPosted, Outstanding, KernelType, kernel
<1>3. ASSUME NEW c \in Clients PROVE References(t, c)' = References(t, c) + (IF c = ptr[t] THEN 1 ELSE 0)
  BY <1>1, ClientsAssumption DEF CountPosted, References, Owns, Guards, ControlAt, ThreadsType, Goto
<1>4. ASSUME NEW c \in Clients PROVE refs'[c] = refs[c] + (IF c = ptr[t] THEN 1 ELSE 0)
  BY SMTT(30) DEF CountPosted, ObjectsType
<1> QED BY <1>2, <1>3, <1>4, IntegersInvolved DEF Balanced

LEMMA PostFailedBalanced ==
  ASSUME TypeInv, NEW t \in Threads, PostFailed(t)
  PROVE  Balanced(t)
<1> USE Thread DEF TypeInv, TypeOK
<1>1. ControlAt(t)
  BY DEF ControlOK
<1>2. ASSUME NEW c \in Clients PROVE References(t, c)' = References(t, c)
  BY <1>1, ClientsAssumption DEF PostFailed, References, Owns, Guards, ControlAt, ThreadsType, Goto
<1>3. ASSUME NEW c \in Clients PROVE Outstanding(c)' = Outstanding(c) /\ refs'[c] = refs[c]
  BY DEF PostFailed, Outstanding, kernel
<1> QED BY <1>2, <1>3, IntegersInvolved DEF Balanced

LEMMA DropGuardBalanced ==
  ASSUME TypeInv, NEW t \in Threads, DropGuard(t)
  PROVE  Balanced(t)
<1> USE Thread DEF TypeInv, TypeOK
<1>1. ControlAt(t)
  BY DEF ControlOK
<1>2. ASSUME NEW c \in Clients PROVE Outstanding(c)' = Outstanding(c)
  BY DEF DropGuard, Outstanding, KernelType, kernel
<1>3. ASSUME NEW c \in Clients PROVE References(t, c)' = References(t, c) + (IF c = ptr[t] THEN -1 ELSE 0)
  BY <1>1, ClientsAssumption DEF DropGuard, References, Owns, Guards, ControlAt, ThreadsType, Goto
<1>4. ASSUME NEW c \in Clients PROVE refs'[c] = refs[c] + (IF c = ptr[t] THEN -1 ELSE 0)
  BY DEF DropGuard, ObjectsType
<1> QED BY <1>2, <1>3, <1>4, IntegersInvolved DEF Balanced

LEMMA ReleaseBalanced ==
  ASSUME TypeInv, NEW t \in Threads, Release(t)
  PROVE  Balanced(t)
<1> USE Thread DEF TypeInv, TypeOK
<1>1. ControlAt(t)
  BY DEF ControlOK
<1>2. ASSUME NEW c \in Clients PROVE Outstanding(c)' = Outstanding(c)
  BY DEF Release, Outstanding, KernelType, kernel
<1>3. ASSUME NEW c \in Clients PROVE References(t, c)' = References(t, c) + (IF c = ptr[t] THEN -1 ELSE 0)
  BY <1>1, ClientsAssumption DEF Release, References, Owns, Guards, ControlAt, ThreadsType, Goto
<1>4. ASSUME NEW c \in Clients PROVE refs'[c] = refs[c] + (IF c = ptr[t] THEN -1 ELSE 0)
  BY DEF Release, ObjectsType
<1> QED BY <1>2, <1>3, <1>4, IntegersInvolved DEF Balanced


LEMMA DequeueBalanced ==
  ASSUME TypeInv, NEW d \in Clients, NEW k \in Kinds, Dequeue(d, k)
  PROVE  Balanced(Listener)
<1> USE Thread DEF TypeInv, TypeOK
<1>1. ControlAt(Listener)
  BY DEF ControlOK
<1>2. ASSUME NEW c \in Clients
      PROVE  Outstanding(c)' = Outstanding(c) + (IF c = d THEN -1 ELSE 0)
  <2>1. /\ packets[d] \in [Kinds -> Nat] /\ packets[c] \in [Kinds -> Nat]
        /\ packets' = [packets EXCEPT ![d] = [packets[d] EXCEPT ![k] = @ - 1]]
        /\ rx' = rx /\ tx' = tx
    BY DEF Dequeue, KernelType
  <2>2. \A l \in Kinds : packets'[c][l] = packets[c][l] - (IF c = d /\ l = k THEN 1 ELSE 0)
    BY <2>1 DEF KernelType
  <2>3. rx[c] \in Nat /\ tx[c] \in Nat /\ \A l \in Kinds : packets[c][l] \in Nat
    BY <2>1 DEF KernelType
  <2> QED BY <2>1, <2>2, <2>3 DEF Outstanding, Kinds
<1>3. ASSUME NEW c \in Clients PROVE References(Listener, c)' = References(Listener, c)
  BY <1>1, ClientsAssumption
     DEF Dequeue, References, Owns, Guards, ControlAt, ThreadsType, Goto, Kinds
<1>4. ASSUME NEW c \in Clients PROVE refs'[c] = refs[c] + (IF c = d THEN -1 ELSE 0)
  BY DEF Dequeue, ObjectsType
<1> QED BY <1>2, <1>3, <1>4, IntegersInvolved DEF Balanced

LEMMA getClientBalanced ==
  ASSUME TypeInv, NEW t \in Threads, getClient(t)
  PROVE  Balanced(t)
<1> USE Thread DEF TypeInv, TypeOK
<1>1. ControlAt(t) /\ pc[t] = "getClient"
  BY DEF ControlOK, getClient
<1>2. ASSUME NEW c \in Clients PROVE Outstanding(c)' = Outstanding(c)
  BY DEF getClient, Outstanding, kernel
<1>3. CASE Registered(job[t].id)
  <2> DEFINE found == client_list[job[t].id]
  <2>1. found \in Clients
    BY <1>3 DEF Registered, ListsType
  <2>2. ASSUME NEW c \in Clients
        PROVE  References(t, c)' = References(t, c) + IF c = found THEN 1 ELSE 0
    BY <1>1, <1>3, <2>1, ClientsAssumption
       DEF getClient, References, Owns, Guards, ControlAt, ThreadsType, Goto
  <2>3. ASSUME NEW c \in Clients PROVE refs'[c] = refs[c] + IF c = found THEN 1 ELSE 0
    BY <1>3, <2>1 DEF getClient, ObjectsType
  <2> QED BY <1>2, <2>2, <2>3, IntegersInvolved DEF Balanced
<1>4. CASE ~Registered(job[t].id)
  <2>1. ASSUME NEW c \in Clients PROVE References(t, c)' = References(t, c)
    BY <1>1, <1>4, ClientsAssumption
       DEF getClient, References, Owns, Guards, ControlAt, ThreadsType, Finish, ReturnFromSend
  <2>2. refs' = refs
    BY <1>4 DEF getClient
  <2> QED BY <1>2, <2>1, <2>2, IntegersInvolved DEF Balanced
<1> QED BY <1>3, <1>4

LEMMA postReceiveEventBalanced ==
  ASSUME TypeInv, NEW t \in Threads, postReceiveEvent(t)
  PROVE  Balanced(t)
<1> USE Thread DEF TypeInv, TypeOK
<1> DEFINE d == ptr[t]
<1>1. ControlAt(t) /\ pc[t] = "post" /\ d \in Clients
  BY DEF ControlOK, ControlAt, postReceiveEvent, ThreadsType
<1>2. ASSUME NEW c \in Clients PROVE refs'[c] = refs[c] + IF c = d THEN 1 ELSE 0
  BY <1>1 DEF postReceiveEvent, ObjectsType
<1>3. CASE CallSucceeds(d) /\ Goto(t, "posted") /\ rx' = [rx EXCEPT ![d] = @ + 1]
  <2>1. ASSUME NEW c \in Clients PROVE Outstanding(c)' = Outstanding(c) + IF c = d THEN 1 ELSE 0
    <3>1. rx'[c] = rx[c] + (IF c = d THEN 1 ELSE 0) /\ packets' = packets /\ tx' = tx
      BY <1>3 DEF postReceiveEvent, KernelType
    <3>2. rx[c] \in Nat /\ tx[c] \in Nat /\ packets[c] \in [Kinds -> Nat]
      BY DEF KernelType
    <3> QED BY <3>1, <3>2 DEF Outstanding, Kinds
  <2>2. ASSUME NEW c \in Clients PROVE References(t, c)' = References(t, c)
    BY <1>1, <1>3 DEF postReceiveEvent, References, Owns, Guards, ThreadsType, Goto
  <2> QED BY <1>2, <2>1, <2>2, IntegersInvolved DEF Balanced
<1>4. CASE Goto(t, "failed") /\ UNCHANGED rx
  <2>1. ASSUME NEW c \in Clients PROVE Outstanding(c)' = Outstanding(c)
    BY <1>4 DEF postReceiveEvent, Outstanding
  <2>2. ASSUME NEW c \in Clients
        PROVE  References(t, c)' = References(t, c) + IF c = d THEN 1 ELSE 0
    BY <1>1, <1>4 DEF postReceiveEvent, References, Owns, Guards, ThreadsType, Goto
  <2> QED BY <1>2, <2>1, <2>2, IntegersInvolved DEF Balanced
<1> QED BY <1>3, <1>4 DEF postReceiveEvent

LEMMA postSendEventBalanced ==
  ASSUME TypeInv, NEW t \in Threads, postSendEvent(t)
  PROVE  Balanced(t)
<1> USE Thread DEF TypeInv, TypeOK
<1> DEFINE d == ptr[t]
<1>1. ControlAt(t) /\ pc[t] = "post" /\ d \in Clients
  BY DEF ControlOK, ControlAt, postSendEvent, ThreadsType
<1>2. ASSUME NEW c \in Clients PROVE refs'[c] = refs[c] + IF c = d THEN 1 ELSE 0
  BY <1>1 DEF postSendEvent, ObjectsType
<1>3. CASE CallSucceeds(d) /\ Goto(t, "posted") /\ tx' = [tx EXCEPT ![d] = @ + 1]
  <2>1. ASSUME NEW c \in Clients PROVE Outstanding(c)' = Outstanding(c) + IF c = d THEN 1 ELSE 0
    <3>1. tx'[c] = tx[c] + (IF c = d THEN 1 ELSE 0) /\ packets' = packets /\ rx' = rx
      BY <1>3 DEF postSendEvent, KernelType
    <3>2. rx[c] \in Nat /\ tx[c] \in Nat /\ packets[c] \in [Kinds -> Nat]
      BY DEF KernelType
    <3> QED BY <3>1, <3>2 DEF Outstanding, Kinds
  <2>2. ASSUME NEW c \in Clients PROVE References(t, c)' = References(t, c)
    BY <1>1, <1>3 DEF postSendEvent, References, Owns, Guards, ThreadsType, Goto
  <2> QED BY <1>2, <2>1, <2>2, IntegersInvolved DEF Balanced
<1>4. CASE Goto(t, "failed") /\ UNCHANGED tx
  <2>1. ASSUME NEW c \in Clients PROVE Outstanding(c)' = Outstanding(c)
    BY <1>4 DEF postSendEvent, Outstanding
  <2>2. ASSUME NEW c \in Clients
        PROVE  References(t, c)' = References(t, c) + IF c = d THEN 1 ELSE 0
    BY <1>1, <1>4 DEF postSendEvent, References, Owns, Guards, ThreadsType, Goto
  <2> QED BY <1>2, <2>1, <2>2, IntegersInvolved DEF Balanced
<1> QED BY <1>3, <1>4 DEF postSendEvent

LEMMA ThreadNextBalanced ==
  ASSUME TypeInv, NEW t \in Threads, ThreadNext(t)
  PROVE  Balanced(t)
<1>1. CASE t = Listener /\ ListenerNext
  BY <1>1, addClientBalanced, postAcceptExEventBalanced, DequeueBalanced, DispatchBalanced,
     PushToAssemblerBalanced, HangUpBalanced, CompleteSendBalanced DEF ListenerNext
<1>2. CASE t \in Workers /\ WorkerNext(t)
  BY <1>2, PopClientIdBalanced, FeedBalanced, createRequestBalanced, DisconnectFaultyBalanced
     DEF WorkerNext
<1>3. CASE t \in Apps /\ NextRequest(t)
  BY <1>3, NextRequestBalanced
<1>4. CASE \/ getClient(t) \/ Enqueue(t)
           \/ postReceiveEvent(t) \/ postSendEvent(t) \/ CountPosted(t) \/ PostFailed(t)
  BY <1>4, getClientBalanced, EnqueueBalanced, postReceiveEventBalanced, postSendEventBalanced,
     CountPostedBalanced, PostFailedBalanced
<1>5. CASE \/ DropGuard(t) \/ Release(t) \/ CheckLast(t) \/ terminateClient(t) \/ Unlock(t)
  BY <1>5, DropGuardBalanced, ReleaseBalanced, CheckLastBalanced, terminateClientBalanced,
     UnlockBalanced
<1> QED BY <1>1, <1>2, <1>3, <1>4, <1>5 DEF ThreadNext

\* An operation completes: it is outstanding as a packet instead.
LEMMA KernelNextAccounting ==
  ASSUME TypeInv, RefAccounting, KernelNext
  PROVE  RefAccounting'
<1>1. PICK d \in Clients : \/ Connect(d) \/ PeerCloses(d)
                           \/ ReceiveCompletes(d) \/ ReceiveEnds(d) \/ SendCompletes(d)
  BY DEF KernelNext
<1>2. refs' = refs /\ UNCHANGED threads
  BY <1>1 DEF Connect, PeerCloses, ReceiveCompletes, ReceiveEnds, SendCompletes
<1>3. ASSUME NEW c \in Clients PROVE Held(c)' = Held(c)
  BY <1>2 DEF Held, Owns, Guards, threads
<1>4. ASSUME NEW c \in Clients PROVE Outstanding(c)' = Outstanding(c)
  <2>1. /\ packets[c] \in [Kinds -> Nat] /\ packets[d] \in [Kinds -> Nat]
        /\ rx[c] \in Nat /\ tx[c] \in Nat
        /\ rx \in [Clients -> Nat] /\ tx \in [Clients -> Nat]
        /\ packets \in [Clients -> [Kinds -> Nat]]
    BY DEF TypeInv, TypeOK, KernelType
  <2>2. CASE Connect(d) \/ PeerCloses(d)
    BY <2>2 DEF Connect, PeerCloses, Outstanding
  <2>3. CASE ReceiveCompletes(d)
    BY <2>1, <2>3 DEF ReceiveCompletes, Outstanding, Kinds
  <2>4. CASE ReceiveEnds(d)
    BY <2>1, <2>4 DEF ReceiveEnds, Outstanding, Kinds
  <2>5. CASE SendCompletes(d)
    <3>1. /\ tx'[c] = tx[c] - (IF c = d THEN 1 ELSE 0) /\ rx' = rx
          /\ packets' = [packets EXCEPT ![d] = [packets[d] EXCEPT !["sent"] = @ + 1]]
      BY <2>1, <2>5 DEF SendCompletes
    <3>2. /\ packets'[c]["sent"] = packets[c]["sent"] + (IF c = d THEN 1 ELSE 0)
          /\ packets'[c]["data"] = packets[c]["data"]
          /\ packets'[c]["closed"] = packets[c]["closed"]
      BY <2>1, <3>1 DEF Kinds
    <3> QED BY <2>1, <3>1, <3>2 DEF Outstanding, Kinds
  <2> QED BY <1>1, <2>2, <2>3, <2>4, <2>5
<1> QED BY <1>2, <1>3, <1>4 DEF RefAccounting

\* The reference count of a Client always is the number of operations and packets
\* outstanding on it and of the threads that use it, for any number of clients and
\* threads: every path of the server that takes a reference gives it back, once.
THEOREM ReferencesAccounted == Spec => []RefAccounting
<1>1. Init => TypeInv /\ RefAccounting
  <2> SUFFICES ASSUME Init PROVE RefAccounting
    BY InitType
  <2>1. ASSUME NEW c \in Clients PROVE Held(c) = 0
    <3>1. /\ {t \in Threads : Owns(t, c)} = {} /\ {t \in Threads : Guards(t, c)} = {}
          /\ {t \in Threads : outer[t] = c} = {}
      BY ClientsAssumption DEF Init, Owns, Guards
    <3> QED BY <3>1, FS_EmptySet DEF Held
  <2>2. ASSUME NEW c \in Clients PROVE Outstanding(c) = 0 /\ refs[c] = 0
    BY DEF Init, Outstanding, Kinds
  <2> QED BY <2>1, <2>2 DEF RefAccounting
<1>2. TypeInv /\ RefAccounting /\ [Next]_vars => TypeInv' /\ RefAccounting'
  <2> SUFFICES ASSUME TypeInv, RefAccounting, [Next]_vars PROVE RefAccounting'
    BY NextType
  <2>1. CASE KernelNext
    BY <2>1, KernelNextAccounting
  <2>2. ASSUME NEW t \in Threads, ThreadNext(t) PROVE RefAccounting'
    <3>1. OthersIdle(t) /\ Balanced(t) /\ TypeInv'
      BY <2>2, ThreadNextType, ThreadNextBalanced
    <3> SUFFICES ASSUME NEW c \in Clients PROVE refs'[c] = Outstanding(c)' + Held(c)'
      BY DEF RefAccounting
    <3>2. refs[c] = Outstanding(c) + Held(c)
      BY DEF RefAccounting
    <3>3. /\ Held(c) \in Int /\ Held(c)' \in Int
          /\ Held(c)' = Held(c) + References(t, c)' - References(t, c)
      BY <3>1, HeldChange
    <3>4. refs[c] \in Int /\ Outstanding(c) \in Int /\ References(t, c) \in Int
      BY IntegersInvolved DEF TypeInv
    <3>6. refs'[c] \in Int /\ References(t, c)' \in Int
      BY <3>1 DEF TypeInv, TypeOK, ObjectsType, References
    <3>7. Outstanding(c)' \in Int
      BY <3>1 DEF TypeInv, TypeOK, KernelType, Outstanding, Kinds
    <3>5. refs'[c] - refs[c]
            = Outstanding(c)' - Outstanding(c) + References(t, c)' - References(t, c)
      BY <3>1 DEF Balanced
    <3> QED BY <3>2, <3>3, <3>4, <3>5, <3>6, <3>7
  <2>3. CASE UNCHANGED vars
    BY <2>3 DEF vars, kernel, threads, RefAccounting, Outstanding, Held, Owns, Guards
  <2> QED BY <2>1, <2>2, <2>3 DEF Next
<1> QED BY <1>1, <1>2, PTL DEF Spec
=============================================================================
