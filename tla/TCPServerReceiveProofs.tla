----------------------- MODULE TCPServerReceiveProofs ------------------------
(* Theorems about the receives of TCPServer, for any number of clients and   *)
(* threads: a connected client is always listened to, and its receive buffer *)
(* is in the hands of one party at a time.                                   *)
EXTENDS TCPServerListProofs

\* The parties that may be on their way to the next receive of c.
InKernel(c) == rx[c] > 0 \/ packets[c]["data"] > 0 \/ packets[c]["closed"] > 0
InQueue(c) == \E w \in Workers : \E i \in DOMAIN assembling[w] : assembling[w][i] = cid[c]
Attended(c) == InKernel(c) \/ InQueue(c) \/ \E t \in Threads : Receiving(t, c)

AttendedInv == \A c \in Clients : mem[c] = "live" /\ ~disconnecting[c] => Attended(c)

\* What a step of thread t takes from c it gives to the next party.
Attends(t, c) ==
  /\ mem[c] = "live" /\ ~disconnecting[c] /\ cid'[c] = cid[c]
  /\ InKernel(c) => Attended(c)'
  /\ InQueue(c) => Attended(c)'
  /\ Receiving(t, c) => Attended(c)'
  /\ \A u \in Threads \ {t} : job'[u] = job[u]

LEMMA AttendsStep ==
  ASSUME AttendedInv, NEW t \in Threads, OthersIdle(t), NEW c \in Clients, Attends(t, c)
  PROVE  Attended(c)'
<1>1. Attended(c)
  BY DEF AttendedInv, Attends
<1>2. ASSUME NEW u \in Threads \ {t}, Receiving(u, c) PROVE Receiving(u, c)'
  BY <1>2 DEF Receiving, OthersIdle, Attends
<1> QED BY <1>1, <1>2 DEF Attended, Attends

\* A step that leaves the kernel and the queues alone, and does not end a reception.
LEMMA AttendsQuietly ==
  ASSUME NEW t \in Threads, NEW c \in Clients,
         mem[c] = "live", ~disconnecting[c],
         UNCHANGED <<cid, rx, packets, assembling>>,
         Receiving(t, c) => Receiving(t, c)',
         \A u \in Threads \ {t} : job'[u] = job[u]
  PROVE  Attends(t, c)
<1>1. (InKernel(c) => InKernel(c)') /\ (InQueue(c) => InQueue(c)')
  BY DEF InKernel, InQueue
<1> QED BY <1>1 DEF Attends, Attended

LEMMA postAcceptExEventAttends ==
  ASSUME TypeInv, postAcceptExEvent, NEW c \in Clients, mem'[c] = "live", ~disconnecting'[c]
  PROVE  Attends(Listener, c)
<1> USE Thread, ClientsAssumption, ThreadsAssumption DEF postAcceptExEvent, Finish, objects, queues
<1>0. ThreadsType /\ ControlAt(Listener) /\ ObjectsType
  BY DEF TypeInv, TypeOK, ControlOK
<1>1. mem[c] = "live" /\ ~disconnecting[c]
  BY <1>0 DEF ObjectsType
<1>2. UNCHANGED <<cid, rx, packets, assembling>>
  OBVIOUS
<1>3. Receiving(Listener, c) => Receiving(Listener, c)'
  BY <1>0, <1>1, <1>2 DEF Receiving, ThreadsType, ControlAt, ObjectsType
<1>4. \A u \in Threads \ {Listener} : job'[u] = job[u]
  BY <1>0 DEF ThreadsType
<1> QED BY <1>1, <1>2, <1>3, <1>4, AttendsQuietly

LEMMA DispatchAttends ==
  ASSUME TypeInv, Dispatch, NEW c \in Clients, mem'[c] = "live", ~disconnecting'[c]
  PROVE  Attends(Listener, c)
<1> USE Thread, ClientsAssumption, ThreadsAssumption DEF Dispatch, Goto, LastReference, objects, queues, kernel
<1>0. ThreadsType /\ ControlAt(Listener) /\ ObjectsType
  BY DEF TypeInv, TypeOK, ControlOK
<1>1. mem[c] = "live" /\ ~disconnecting[c]
  BY <1>0 DEF ObjectsType
<1>2. UNCHANGED <<cid, rx, packets, assembling>>
  OBVIOUS
<1>3. Receiving(Listener, c) => Receiving(Listener, c)'
  BY <1>0, <1>1, <1>2 DEF Receiving, ThreadsType, ControlAt, ObjectsType
<1>4. \A u \in Threads \ {Listener} : job'[u] = job[u]
  BY <1>0 DEF ThreadsType
<1> QED BY <1>1, <1>2, <1>3, <1>4, AttendsQuietly

LEMMA HangUpAttends ==
  ASSUME TypeInv, HangUp, NEW c \in Clients, mem'[c] = "live", ~disconnecting'[c]
  PROVE  Attends(Listener, c)
<1> USE Thread, ClientsAssumption, ThreadsAssumption DEF HangUp, Goto, queues, kernel
<1>0. ThreadsType /\ ControlAt(Listener) /\ ObjectsType
  BY DEF TypeInv, TypeOK, ControlOK
<1>1. mem[c] = "live" /\ ~disconnecting[c]
  BY <1>0 DEF ObjectsType
<1>2. UNCHANGED <<cid, rx, packets, assembling>>
  OBVIOUS
<1>3. Receiving(Listener, c) => Receiving(Listener, c)'
  BY <1>0, <1>1, <1>2 DEF Receiving, ThreadsType, ControlAt, ObjectsType
<1>4. \A u \in Threads \ {Listener} : job'[u] = job[u]
  BY <1>0 DEF ThreadsType
<1> QED BY <1>1, <1>2, <1>3, <1>4, AttendsQuietly

LEMMA CompleteSendAttends ==
  ASSUME TypeInv, CompleteSend, NEW c \in Clients, mem'[c] = "live", ~disconnecting'[c]
  PROVE  Attends(Listener, c)
<1> USE Thread, ClientsAssumption, ThreadsAssumption DEF CompleteSend, Goto, queues, kernel
<1>0. ThreadsType /\ ControlAt(Listener) /\ ObjectsType
  BY DEF TypeInv, TypeOK, ControlOK
<1>1. mem[c] = "live" /\ ~disconnecting[c]
  BY <1>0 DEF ObjectsType
<1>2. UNCHANGED <<cid, rx, packets, assembling>>
  OBVIOUS
<1>3. Receiving(Listener, c) => Receiving(Listener, c)'
  BY <1>0, <1>1, <1>2 DEF Receiving, ThreadsType, ControlAt, ObjectsType
<1>4. \A u \in Threads \ {Listener} : job'[u] = job[u]
  BY <1>0 DEF ThreadsType
<1> QED BY <1>1, <1>2, <1>3, <1>4, AttendsQuietly

LEMMA NextRequestAttends ==
  ASSUME TypeInv, NEW a \in Apps, NextRequest(a), NEW c \in Clients, mem'[c] = "live", ~disconnecting'[c]
  PROVE  Attends(a, c)
<1> USE Thread, ClientsAssumption, ThreadsAssumption DEF NextRequest, Goto, objects, kernel
<1>0. ThreadsType /\ ControlAt(a) /\ ObjectsType
  BY DEF TypeInv, TypeOK, ControlOK
<1>1. mem[c] = "live" /\ ~disconnecting[c]
  BY <1>0 DEF ObjectsType
<1>2. UNCHANGED <<cid, rx, packets, assembling>>
  OBVIOUS
<1>3. Receiving(a, c) => Receiving(a, c)'
  BY <1>0, <1>1, <1>2 DEF Receiving, ThreadsType, ControlAt, ObjectsType
<1>4. \A u \in Threads \ {a} : job'[u] = job[u]
  BY <1>0 DEF ThreadsType
<1> QED BY <1>1, <1>2, <1>3, <1>4, AttendsQuietly

LEMMA FeedAttends ==
  ASSUME TypeInv, NEW w \in Workers, Feed(w), NEW c \in Clients, mem'[c] = "live", ~disconnecting'[c]
  PROVE  Attends(w, c)
<1> USE Thread, ClientsAssumption, ThreadsAssumption DEF Feed, Goto, queues, kernel
<1>0. ThreadsType /\ ControlAt(w) /\ ObjectsType
  BY DEF TypeInv, TypeOK, ControlOK
<1>1. mem[c] = "live" /\ ~disconnecting[c]
  BY <1>0 DEF ObjectsType
<1>2. UNCHANGED <<cid, rx, packets, assembling>>
  OBVIOUS
<1>3. ASSUME Receiving(w, c) PROVE Receiving(w, c)'
  <2>1. ptr[w] = c
    BY <1>0, <1>3 DEF Receiving, ControlAt
  <2>2. CASE outer'[w] = c
    BY <2>2 DEF Receiving
  <2>3. CASE outer'[w] # c
    <3>1. PICK n \in Nat : pc' = [pc EXCEPT ![w] = AfterFeed(n)] /\ UNCHANGED <<fn, ptr, outer>>
      <4>1. recv_len[c] \in Nat
        BY <1>0 DEF ObjectsType
      <4>2. c \in Clients /\ outer \in [Threads -> Clients \cup {NoClient}]
        BY <1>0 DEF ThreadsType
      <4> QED BY <2>1, <2>3, <4>1, <4>2, BoundsAssumption
    <3>2. pc'[w] \in {"post", "deliver"} /\ fn'[w] = "worker" /\ ptr'[w] = c
      BY <1>0, <2>1, <3>1 DEF AfterFeed, ThreadsType, ControlAt
    <3> QED BY <3>2 DEF Receiving
  <2> QED BY <2>2, <2>3
<1>4. \A u \in Threads \ {w} : job'[u] = job[u]
  BY <1>0 DEF ThreadsType
<1> QED BY <1>1, <1>2, <1>3, <1>4, AttendsQuietly

LEMMA createRequestAttends ==
  ASSUME TypeInv, NEW w \in Workers, createRequest(w), NEW c \in Clients, mem'[c] = "live", ~disconnecting'[c]
  PROVE  Attends(w, c)
<1> USE Thread, ClientsAssumption, ThreadsAssumption DEF createRequest, Goto, objects, kernel
<1>0. ThreadsType /\ ControlAt(w) /\ ObjectsType
  BY DEF TypeInv, TypeOK, ControlOK
<1>1. mem[c] = "live" /\ ~disconnecting[c]
  BY <1>0 DEF ObjectsType
<1>2. UNCHANGED <<cid, rx, packets, assembling>>
  OBVIOUS
<1>3. Receiving(w, c) => Receiving(w, c)'
  BY <1>0, <1>1, <1>2 DEF Receiving, ThreadsType, ControlAt, ObjectsType
<1>4. \A u \in Threads \ {w} : job'[u] = job[u]
  BY <1>0 DEF ThreadsType
<1> QED BY <1>1, <1>2, <1>3, <1>4, AttendsQuietly

LEMMA DisconnectFaultyAttends ==
  ASSUME TypeInv, NEW w \in Workers, DisconnectFaulty(w), NEW c \in Clients, mem'[c] = "live", ~disconnecting'[c]
  PROVE  Attends(w, c)
<1> USE Thread, ClientsAssumption, ThreadsAssumption DEF DisconnectFaulty, Goto, queues, kernel
<1>0. ThreadsType /\ ControlAt(w) /\ ObjectsType
  BY DEF TypeInv, TypeOK, ControlOK
<1>1. mem[c] = "live" /\ ~disconnecting[c]
  BY <1>0 DEF ObjectsType
<1>2. UNCHANGED <<cid, rx, packets, assembling>>
  OBVIOUS
<1>3. Receiving(w, c) => Receiving(w, c)'
  BY <1>0, <1>1, <1>2 DEF Receiving, ThreadsType, ControlAt, ObjectsType
<1>4. \A u \in Threads \ {w} : job'[u] = job[u]
  BY <1>0 DEF ThreadsType
<1> QED BY <1>1, <1>2, <1>3, <1>4, AttendsQuietly

LEMMA EnqueueAttends ==
  ASSUME TypeInv, NEW t \in Threads, Enqueue(t), NEW c \in Clients, mem'[c] = "live", ~disconnecting'[c]
  PROVE  Attends(t, c)
<1> USE Thread, ClientsAssumption, ThreadsAssumption DEF Enqueue, Goto, queues, kernel
<1>0. ThreadsType /\ ControlAt(t) /\ ObjectsType
  BY DEF TypeInv, TypeOK, ControlOK
<1>1. mem[c] = "live" /\ ~disconnecting[c]
  BY <1>0 DEF ObjectsType
<1>2. UNCHANGED <<cid, rx, packets, assembling>>
  OBVIOUS
<1>3. Receiving(t, c) => Receiving(t, c)'
  BY <1>0, <1>1, <1>2 DEF Receiving, ThreadsType, ControlAt, ObjectsType
<1>4. \A u \in Threads \ {t} : job'[u] = job[u]
  BY <1>0 DEF ThreadsType
<1> QED BY <1>1, <1>2, <1>3, <1>4, AttendsQuietly

LEMMA postSendEventAttends ==
  ASSUME TypeInv, NEW t \in Threads, postSendEvent(t), NEW c \in Clients, mem'[c] = "live", ~disconnecting'[c]
  PROVE  Attends(t, c)
<1> USE Thread, ClientsAssumption, ThreadsAssumption DEF postSendEvent, Goto, objects, queues
<1>0. ThreadsType /\ ControlAt(t) /\ ObjectsType
  BY DEF TypeInv, TypeOK, ControlOK
<1>1. mem[c] = "live" /\ ~disconnecting[c]
  BY <1>0 DEF ObjectsType
<1>2. UNCHANGED <<cid, rx, packets, assembling>>
  OBVIOUS
<1>3. Receiving(t, c) => Receiving(t, c)'
  BY <1>0, <1>1, <1>2 DEF Receiving, ThreadsType, ControlAt, ObjectsType
<1>4. \A u \in Threads \ {t} : job'[u] = job[u]
  BY <1>0 DEF ThreadsType
<1> QED BY <1>1, <1>2, <1>3, <1>4, AttendsQuietly

LEMMA CountPostedAttends ==
  ASSUME TypeInv, NEW t \in Threads, CountPosted(t), NEW c \in Clients, mem'[c] = "live", ~disconnecting'[c]
  PROVE  Attends(t, c)
<1> USE Thread, ClientsAssumption, ThreadsAssumption DEF CountPosted, Goto, queues, kernel
<1>0. ThreadsType /\ ControlAt(t) /\ ObjectsType
  BY DEF TypeInv, TypeOK, ControlOK
<1>1. mem[c] = "live" /\ ~disconnecting[c]
  BY <1>0 DEF ObjectsType
<1>2. UNCHANGED <<cid, rx, packets, assembling>>
  OBVIOUS
<1>3. Receiving(t, c) => Receiving(t, c)'
  BY <1>0, <1>1, <1>2 DEF Receiving, ThreadsType, ControlAt, ObjectsType
<1>4. \A u \in Threads \ {t} : job'[u] = job[u]
  BY <1>0 DEF ThreadsType
<1> QED BY <1>1, <1>2, <1>3, <1>4, AttendsQuietly

LEMMA PostFailedAttends ==
  ASSUME TypeInv, NEW t \in Threads, PostFailed(t), NEW c \in Clients, mem'[c] = "live", ~disconnecting'[c]
  PROVE  Attends(t, c)
<1> USE Thread, ClientsAssumption, ThreadsAssumption DEF PostFailed, Goto, queues, kernel
<1>0. ThreadsType /\ ControlAt(t) /\ ObjectsType
  BY DEF TypeInv, TypeOK, ControlOK
<1>1. mem[c] = "live" /\ ~disconnecting[c]
  BY <1>0 DEF ObjectsType
<1>2. UNCHANGED <<cid, rx, packets, assembling>>
  OBVIOUS
<1>3. Receiving(t, c) => Receiving(t, c)'
  BY <1>0, <1>1, <1>2 DEF Receiving, ThreadsType, ControlAt, ObjectsType
<1>4. \A u \in Threads \ {t} : job'[u] = job[u]
  BY <1>0 DEF ThreadsType
<1> QED BY <1>1, <1>2, <1>3, <1>4, AttendsQuietly

LEMMA DropGuardAttends ==
  ASSUME TypeInv, NEW t \in Threads, DropGuard(t), NEW c \in Clients, mem'[c] = "live", ~disconnecting'[c]
  PROVE  Attends(t, c)
<1> USE Thread, ClientsAssumption, ThreadsAssumption DEF DropGuard, Goto, objects, queues, kernel
<1>0. ThreadsType /\ ControlAt(t) /\ ObjectsType
  BY DEF TypeInv, TypeOK, ControlOK
<1>1. mem[c] = "live" /\ ~disconnecting[c]
  BY <1>0 DEF ObjectsType
<1>2. UNCHANGED <<cid, rx, packets, assembling>>
  OBVIOUS
<1>3. Receiving(t, c) => Receiving(t, c)'
  BY <1>0, <1>1, <1>2 DEF Receiving, ThreadsType, ControlAt, ObjectsType
<1>4. \A u \in Threads \ {t} : job'[u] = job[u]
  BY <1>0 DEF ThreadsType
<1> QED BY <1>1, <1>2, <1>3, <1>4, AttendsQuietly

LEMMA ReleaseAttends ==
  ASSUME TypeInv, NEW t \in Threads, Release(t), NEW c \in Clients, mem'[c] = "live", ~disconnecting'[c]
  PROVE  Attends(t, c)
<1> USE Thread, ClientsAssumption, ThreadsAssumption DEF Release, Goto, objects, queues, kernel
<1>0. ThreadsType /\ ControlAt(t) /\ ObjectsType
  BY DEF TypeInv, TypeOK, ControlOK
<1>1. mem[c] = "live" /\ ~disconnecting[c]
  BY <1>0 DEF ObjectsType
<1>2. UNCHANGED <<cid, rx, packets, assembling>>
  OBVIOUS
<1>3. Receiving(t, c) => Receiving(t, c)'
  BY <1>0, <1>1, <1>2 DEF Receiving, ThreadsType, ControlAt, ObjectsType
<1>4. \A u \in Threads \ {t} : job'[u] = job[u]
  BY <1>0 DEF ThreadsType
<1> QED BY <1>1, <1>2, <1>3, <1>4, AttendsQuietly

LEMMA CheckLastAttends ==
  ASSUME TypeInv, NEW t \in Threads, CheckLast(t), NEW c \in Clients, mem'[c] = "live", ~disconnecting'[c]
  PROVE  Attends(t, c)
<1> USE Thread, ClientsAssumption, ThreadsAssumption DEF CheckLast, Goto, Finish, AfterCheck, objects, queues, kernel
<1>0. ThreadsType /\ ControlAt(t) /\ ObjectsType
  BY DEF TypeInv, TypeOK, ControlOK
<1>1. mem[c] = "live" /\ ~disconnecting[c]
  BY <1>0 DEF ObjectsType
<1>2. UNCHANGED <<cid, rx, packets, assembling>>
  OBVIOUS
<1>3. Receiving(t, c) => Receiving(t, c)'
  BY <1>0, <1>1, <1>2 DEF Receiving, ThreadsType, ControlAt, ObjectsType
<1>4. \A u \in Threads \ {t} : job'[u] = job[u]
  BY <1>0 DEF ThreadsType
<1> QED BY <1>1, <1>2, <1>3, <1>4, AttendsQuietly

LEMMA terminateClientAttends ==
  ASSUME TypeInv, NEW t \in Threads, terminateClient(t), NEW c \in Clients, mem'[c] = "live", ~disconnecting'[c]
  PROVE  Attends(t, c)
<1> USE Thread, ClientsAssumption, ThreadsAssumption DEF terminateClient, Goto, Finish, AfterCheck, queues, kernel
<1>0. ThreadsType /\ ControlAt(t) /\ ObjectsType
  BY DEF TypeInv, TypeOK, ControlOK
<1>1. mem[c] = "live" /\ ~disconnecting[c]
  BY <1>0 DEF ObjectsType
<1>2. UNCHANGED <<cid, rx, packets, assembling>>
  OBVIOUS
<1>3. Receiving(t, c) => Receiving(t, c)'
  BY <1>0, <1>1, <1>2 DEF Receiving, ThreadsType, ControlAt, ObjectsType
<1>4. \A u \in Threads \ {t} : job'[u] = job[u]
  BY <1>0 DEF ThreadsType
<1> QED BY <1>1, <1>2, <1>3, <1>4, AttendsQuietly

LEMMA UnlockAttends ==
  ASSUME TypeInv, NEW t \in Threads, Unlock(t), NEW c \in Clients, mem'[c] = "live", ~disconnecting'[c]
  PROVE  Attends(t, c)
<1> USE Thread, ClientsAssumption, ThreadsAssumption DEF Unlock, Finish, ReturnFromSend, objects, queues, kernel
<1>0. ThreadsType /\ ControlAt(t) /\ ObjectsType
  BY DEF TypeInv, TypeOK, ControlOK
<1>1. mem[c] = "live" /\ ~disconnecting[c]
  BY <1>0 DEF ObjectsType
<1>2. UNCHANGED <<cid, rx, packets, assembling>>
  OBVIOUS
<1>3. Receiving(t, c) => Receiving(t, c)'
  BY <1>0, <1>1, <1>2 DEF Receiving, ThreadsType, ControlAt, ObjectsType
<1>4. \A u \in Threads \ {t} : job'[u] = job[u]
  BY <1>0 DEF ThreadsType
<1> QED BY <1>1, <1>2, <1>3, <1>4, AttendsQuietly

LEMMA addClientAttends ==
  ASSUME TypeInv, ListInv, AttendedInv, addClient,
         NEW c \in Clients, mem'[c] = "live", ~disconnecting'[c]
  PROVE  Attended(c)'
<1> USE Thread, ClientsAssumption DEF addClient, Goto
<1>0. ThreadsType /\ ObjectsType /\ OthersIdle(Listener)
  BY addClientType DEF TypeInv, TypeOK
<1>1. CASE c = accept
  <2>1. ptr'[Listener] = c /\ fn'[Listener] = "accept" /\ pc'[Listener] = "post"
    BY <1>0, <1>1 DEF ThreadsType
  <2> QED BY <2>1 DEF Attended, Receiving
<1>2. CASE c # accept
  <2>1. mem[c] = "live" /\ ~disconnecting[c] /\ cid'[c] = cid[c]
    BY <1>0, <1>2 DEF ObjectsType
  <2>2. Receiving(Listener, c) => Receiving(Listener, c)'
    <3>1. ControlAt(Listener)
      BY DEF TypeInv, ControlOK
    <3> QED BY <1>0, <2>1, <3>1 DEF Receiving, ControlAt, ThreadsType
  <2>3. (InKernel(c) => InKernel(c)') /\ (InQueue(c) => InQueue(c)')
    BY <2>1 DEF InKernel, InQueue, queues
  <2>4. Attends(Listener, c)
    BY <2>1, <2>2, <2>3 DEF Attends, Attended
  <2> QED BY <1>0, <2>4, AttendsStep
<1> QED BY <1>1, <1>2

LEMMA DequeueAttends ==
  ASSUME TypeInv, NEW d \in Clients, NEW k \in Kinds, Dequeue(d, k),
         NEW c \in Clients, mem'[c] = "live", ~disconnecting'[c]
  PROVE  Attends(Listener, c)
<1> USE Thread, ClientsAssumption DEF Dequeue, Goto
<1>0. ThreadsType /\ ControlAt(Listener) /\ KernelType
  BY DEF TypeInv, TypeOK, ControlOK
<1>1. mem[c] = "live" /\ ~disconnecting[c] /\ cid'[c] = cid[c]
  BY DEF objects
<1>2. InQueue(c) => InQueue(c)'
  BY DEF InQueue, queues, objects
<1>3. ASSUME InKernel(c) PROVE Attended(c)'
  <2>1. ptr'[Listener] = d /\ fn'[Listener] = k /\ pc'[Listener] = "dispatch"
    BY <1>0 DEF ThreadsType
  <2>2. CASE d = c /\ k \in {"data", "closed"}
    BY <2>1, <2>2 DEF Attended, Receiving
  <2>3. CASE ~(d = c /\ k \in {"data", "closed"})
    <3>1. packets'[c]["data"] = packets[c]["data"] /\ packets'[c]["closed"] = packets[c]["closed"]
      BY <1>0, <2>3 DEF KernelType, Kinds
    <3> QED BY <1>3, <3>1 DEF Attended, InKernel
  <2> QED BY <2>2, <2>3
<1>4. ~Receiving(Listener, c)
  BY <1>0, ThreadsAssumption DEF Receiving, ControlAt
<1>5. job' = job /\ (InQueue(c) => Attended(c)')
  BY <1>2 DEF Attended
<1> HIDE DEF Dequeue, Goto
<1> QED BY <1>1, <1>3, <1>4, <1>5 DEF Attends

LEMMA PushToAssemblerAttends ==
  ASSUME TypeInv, PushToAssembler, NEW c \in Clients, mem'[c] = "live", ~disconnecting'[c]
  PROVE  Attends(Listener, c)
<1> USE Thread, ClientsAssumption DEF PushToAssembler, NotifyWorker, Finish
<1>0. ThreadsType /\ ControlAt(Listener) /\ ObjectsType /\ QueuesType
  BY DEF TypeInv, TypeOK, ControlOK
<1>1. mem[c] = "live" /\ ~disconnecting[c] /\ cid'[c] = cid[c]
  OBVIOUS
<1>2. PICK d \in Clients : d = ptr[Listener]
  BY <1>0 DEF ControlAt, ThreadsType
<1> DEFINE v == (cid[d] - 1) % NumWorkers
<1>3. v \in Workers
  <2>1. cid[d] - 1 \in Int
    BY <1>0 DEF ObjectsType
  <2> HIDE DEF PushToAssembler, NotifyWorker, Finish
  <2> QED BY <2>1, ThreadsAssumption DEF Workers
<1>4. assembling' = [assembling EXCEPT ![v] = Append(@, cid[d])]
  BY <1>2
<1> HIDE DEF v
<1>5. ASSUME NEW w \in Workers, NEW i \in DOMAIN assembling[w]
      PROVE  i \in DOMAIN assembling'[w] /\ assembling'[w][i] = assembling[w][i]
  BY <1>0, <1>3, <1>4, AppendProperties, LenProperties, SMTT(30) DEF QueuesType, ObjectsType
<1>6. InQueue(c) => InQueue(c)'
  BY <1>1, <1>5 DEF InQueue
<1>7. InKernel(c) => InKernel(c)'
  BY SMTT(30) DEF InKernel, kernel
<1>8. ASSUME Receiving(Listener, c) PROVE InQueue(c)'
  <2>1. c = d
    BY <1>0, <1>2, <1>8 DEF Receiving, ControlAt
  <2>2. assembling[v] \in Seq(Nat) /\ cid[c] \in Nat /\ assembling'[v] = Append(assembling[v], cid[c])
    BY <1>0, <1>3, <1>4, <2>1 DEF QueuesType, ObjectsType
  <2>3. /\ Len(assembling[v]) + 1 \in DOMAIN assembling'[v]
        /\ assembling'[v][Len(assembling[v]) + 1] = cid[c]
    BY <2>2, AppendProperties, LenProperties
  <2> QED BY <1>1, <1>3, <2>3 DEF InQueue
<1> QED BY <1>1, <1>6, <1>7, <1>8 DEF Attends, Attended

LEMMA PopClientIdAttends ==
  ASSUME TypeInv, NEW w \in Workers, PopClientId(w),
         NEW c \in Clients, mem'[c] = "live", ~disconnecting'[c]
  PROVE  Attends(w, c)
<1> USE Thread, ClientsAssumption, ThreadsAssumption DEF PopClientId, Goto
<1>0. ThreadsType /\ ControlAt(w) /\ QueuesType
  BY DEF TypeInv, TypeOK, ControlOK
<1>1. mem[c] = "live" /\ ~disconnecting[c] /\ cid'[c] = cid[c]
  BY DEF objects
<1>2. InKernel(c) => InKernel(c)'
  BY DEF InKernel, kernel
<1>3. ~Receiving(w, c)
  BY <1>0 DEF Receiving, ControlAt
<1>4. assembling[w] \in Seq(Nat) /\ assembling[w] # <<>>
  BY <1>0 DEF QueuesType
<1>5. /\ assembling'[w] = Tail(assembling[w])
      /\ \A v \in Workers \ {w} : assembling'[v] = assembling[v]
  BY <1>0 DEF QueuesType
<1>6. ASSUME NEW v \in Workers, NEW i \in DOMAIN assembling[v], assembling[v][i] = cid[c]
      PROVE  Attended(c)'
  <2>1. CASE v # w
    BY <1>1, <1>5, <1>6, <2>1 DEF Attended, InQueue
  <2>2. CASE v = w /\ i = 1
    <3>1. job'[w].id = cid[c] /\ fn'[w] = "worker" /\ pc'[w] = "getClient"
      BY <1>0, <1>6, <2>2 DEF ThreadsType
    <3> QED BY <1>1, <3>1 DEF Attended, Receiving
  <2>3. CASE v = w /\ i # 1
    <3>1. i \in 1 .. Len(assembling[w]) /\ Len(assembling[w]) \in Nat
      BY <1>4, <2>3, LenProperties
    <3>2. /\ Len(Tail(assembling[w])) = Len(assembling[w]) - 1 /\ Tail(assembling[w]) \in Seq(Nat)
          /\ \A k \in 1 .. Len(Tail(assembling[w])) : Tail(assembling[w])[k] = assembling[w][k + 1]
      BY <1>4, HeadTailProperties
    <3>3. DOMAIN Tail(assembling[w]) = 1 .. Len(assembling[w]) - 1
      BY <3>2, LenProperties
    <3>4. i - 1 \in 1 .. Len(Tail(assembling[w])) /\ (i - 1) + 1 = i
      BY <2>3, <3>1, <3>2
    <3>5. Tail(assembling[w])[i - 1] = assembling[w][i]
      BY <3>2, <3>4
    <3> HIDE DEF PopClientId
    <3>6. i - 1 \in DOMAIN assembling'[w] /\ assembling'[w][i - 1] = assembling[w][i]
      BY <1>5, <3>2, <3>3, <3>4, <3>5
    <3> QED BY <1>1, <1>6, <2>3, <3>6 DEF Attended, InQueue
  <2> QED BY <2>1, <2>2, <2>3
<1>7. InQueue(c) => Attended(c)'
  BY <1>6 DEF InQueue
<1>8. \A u \in Threads \ {w} : job'[u] = job[u]
  BY <1>0 DEF ThreadsType
<1> QED BY <1>1, <1>2, <1>3, <1>7, <1>8 DEF Attends, Attended

\* A worker that looks up the id of a live client finds that client.
LEMMA getClientAttends ==
  ASSUME TypeInv, ListInv, NEW t \in Threads, getClient(t),
         NEW c \in Clients, mem'[c] = "live", ~disconnecting'[c]
  PROVE  Attends(t, c)
<1> USE Thread, ClientsAssumption, ThreadsAssumption DEF getClient, Goto
<1>0. ThreadsType /\ ControlAt(t) /\ ObjectsType
  BY DEF TypeInv, TypeOK, ControlOK
<1>1. mem[c] = "live" /\ ~disconnecting[c]
  BY DEF objects
<1>2. UNCHANGED <<cid, rx, packets, assembling>>
  BY DEF objects, kernel, queues
<1>3. client_list[cid[c]] = c /\ cid[c] \in DOMAIN client_list
  BY <1>1 DEF ListInv, FreeListExact
<1>4. ASSUME Receiving(t, c) PROVE Receiving(t, c)'
  <2>1. CASE fn[t] = "worker"
    <3>1. job[t].id = cid[c] /\ Registered(job[t].id)
      BY <1>0, <1>3, <1>4, <2>1 DEF Receiving, ControlAt, Registered
    <3>2. ptr'[t] = c /\ pc'[t] = "feed" /\ fn'[t] = "worker"
      BY <1>0, <1>3, <2>1, <3>1 DEF ThreadsType
    <3> QED BY <3>2 DEF Receiving
  <2>2. CASE fn[t] # "worker"
    <3>1. outer[t] = c
      BY <1>0, <1>4, <2>2 DEF Receiving, ControlAt
    <3>2. CASE Registered(job[t].id)
      BY <3>1, <3>2 DEF Receiving
    <3>3. CASE ~Registered(job[t].id)
      <4>1. ptr'[t] = c /\ pc'[t] = "fault" /\ fn'[t] = "worker"
        BY <1>0, <2>2, <3>1, <3>3 DEF ReturnFromSend, ThreadsType
      <4> QED BY <4>1 DEF Receiving
    <3> QED BY <3>2, <3>3
  <2> QED BY <2>1, <2>2
<1>5. \A u \in Threads \ {t} : job'[u] = job[u]
  BY <1>0 DEF ThreadsType
<1> QED BY <1>1, <1>2, <1>4, <1>5, AttendsQuietly

LEMMA postReceiveEventAttends ==
  ASSUME TypeInv, NEW t \in Threads, postReceiveEvent(t),
         NEW c \in Clients, mem'[c] = "live", ~disconnecting'[c]
  PROVE  Attends(t, c)
<1> USE Thread, ClientsAssumption, ThreadsAssumption DEF postReceiveEvent, Goto
<1>0. ThreadsType /\ ControlAt(t) /\ KernelType
  BY DEF TypeInv, TypeOK, ControlOK
<1>1. mem[c] = "live" /\ ~disconnecting[c] /\ cid'[c] = cid[c] /\ job' = job
  BY DEF objects
<1>2. InQueue(c) => InQueue(c)'
  BY DEF InQueue, queues, objects
<1>3. PICK d \in Clients : d = ptr[t]
  BY <1>0 DEF ControlAt, ThreadsType
<1>4. rx[c] \in Nat /\ rx[d] \in Nat
  BY <1>0 DEF KernelType
<1>5. InKernel(c) => InKernel(c)'
  <2>1. rx'[c] = rx[c] \/ rx'[c] = rx[c] + 1
    BY <1>0, <1>3, <1>4 DEF KernelType
  <2> QED BY <1>4, <2>1 DEF InKernel
<1>6. ASSUME Receiving(t, c) PROVE Attended(c)'
  <2>1. c = d
    BY <1>0, <1>3, <1>6 DEF Receiving, ControlAt
  <2>2. CASE rx' = [rx EXCEPT ![d] = @ + 1]
    BY <1>0, <1>4, <2>1, <2>2 DEF Attended, InKernel, KernelType
  <2>3. CASE pc' = [pc EXCEPT ![t] = "failed"]
    <3>1. pc'[t] = "failed" /\ fn'[t] \in {"accept", "worker"} /\ ptr'[t] = c
      BY <1>0, <1>3, <2>1, <2>3 DEF ThreadsType
    <3> QED BY <3>1 DEF Attended, Receiving
  <2> QED BY <1>3, <2>2, <2>3
<1> QED BY <1>1, <1>2, <1>5, <1>6 DEF Attends, Attended

LEMMA ThreadNextAttended ==
  ASSUME TypeInv, ListInv, AttendedInv, NEW t \in Threads, ThreadNext(t)
  PROVE  AttendedInv'
<1> SUFFICES ASSUME NEW c \in Clients, mem'[c] = "live", ~disconnecting'[c] PROVE Attended(c)'
  BY DEF AttendedInv
<1>1. OthersIdle(t)
  BY ThreadNextType
<1>2. CASE addClient /\ t = Listener
  BY <1>2, addClientAttends
<1>3. ASSUME t = Listener, ListenerNext, ~addClient PROVE Attends(t, c)
  BY <1>3, postAcceptExEventAttends, DequeueAttends, DispatchAttends, PushToAssemblerAttends,
     HangUpAttends, CompleteSendAttends DEF ListenerNext
<1>4. ASSUME t \in Workers, WorkerNext(t) PROVE Attends(t, c)
  BY <1>4, PopClientIdAttends, FeedAttends, createRequestAttends, DisconnectFaultyAttends
     DEF WorkerNext
<1>5. ASSUME t \in Apps, NextRequest(t) PROVE Attends(t, c)
  BY <1>5, NextRequestAttends
<1>6. ASSUME getClient(t) \/ Enqueue(t) \/ postReceiveEvent(t) \/ postSendEvent(t)
             \/ CountPosted(t) \/ PostFailed(t)
      PROVE  Attends(t, c)
  BY <1>6, getClientAttends, EnqueueAttends, postReceiveEventAttends, postSendEventAttends,
     CountPostedAttends, PostFailedAttends
<1>7. ASSUME DropGuard(t) \/ Release(t) \/ CheckLast(t) \/ terminateClient(t) \/ Unlock(t)
      PROVE  Attends(t, c)
  BY <1>7, DropGuardAttends, ReleaseAttends, CheckLastAttends, terminateClientAttends,
     UnlockAttends
<1>8. (addClient /\ t = Listener) \/ Attends(t, c)
  BY <1>3, <1>4, <1>5, <1>6, <1>7 DEF ThreadNext
<1> QED BY <1>1, <1>2, <1>8, AttendsStep

LEMMA KernelNextAttended ==
  ASSUME TypeInv, AttendedInv, KernelNext
  PROVE  AttendedInv'
<1> SUFFICES ASSUME NEW c \in Clients, mem'[c] = "live", ~disconnecting'[c] PROVE Attended(c)'
  BY DEF AttendedInv
<1>1. PICK d \in Clients : \/ Connect(d) \/ PeerCloses(d)
                           \/ ReceiveCompletes(d) \/ ReceiveEnds(d) \/ SendCompletes(d)
  BY DEF KernelNext
<1>2. UNCHANGED <<objects, assembling, threads>>
  BY <1>1 DEF Connect, PeerCloses, ReceiveCompletes, ReceiveEnds, SendCompletes, queues
<1>3. Attended(c)
  BY <1>2 DEF AttendedInv, objects
<1>4. InQueue(c) => InQueue(c)'
  BY <1>2 DEF InQueue, objects
<1>5. ASSUME NEW t \in Threads, Receiving(t, c) PROVE Receiving(t, c)'
  BY <1>2, <1>5 DEF Receiving, objects, threads
<1>6. rx \in [Clients -> Nat] /\ packets \in [Clients -> [Kinds -> Nat]]
  BY DEF TypeInv, TypeOK, KernelType
<1>7. InKernel(c) => InKernel(c)'
  <2>1. CASE Connect(d) \/ PeerCloses(d)
    BY <2>1 DEF Connect, PeerCloses, InKernel
  <2>2. CASE ReceiveCompletes(d)
    BY <1>6, <2>2 DEF ReceiveCompletes, InKernel, Kinds
  <2>3. CASE ReceiveEnds(d)
    BY <1>6, <2>3 DEF ReceiveEnds, InKernel, Kinds
  <2>4. CASE SendCompletes(d)
    BY <1>6, <2>4 DEF SendCompletes, InKernel, Kinds
  <2> QED BY <1>1, <2>1, <2>2, <2>3, <2>4
<1> QED BY <1>3, <1>4, <1>5, <1>7 DEF Attended

\* Whoever attends to c is counted as one of its custodians.
LEMMA AttendedCounted ==
  ASSUME TypeInv, NEW c \in Clients, Attended(c)
  PROVE  Custodians(c) >= 1
<1> DEFINE R == {t \in Threads : Receiving(t, c)}
<1>1. rx[c] \in Nat /\ packets[c]["data"] \in Nat /\ packets[c]["closed"] \in Nat
  BY DEF TypeInv, TypeOK, KernelType, Kinds
<1>2. IsFiniteSet(R) /\ Cardinality(R) \in Nat /\ (R # {} => Cardinality(R) >= 1)
  <2>1. IsFiniteSet(R)
    BY ThreadsFinite, FS_Subset
  <2> QED BY <2>1, FS_CardinalityType, FS_EmptySet
<1>3. IsFiniteSet(Entries(c))
  <2> DEFINE E(w) == {w} \X {i \in DOMAIN assembling[w] : assembling[w][i] = cid[c]}
  <2>1. ASSUME NEW w \in Workers PROVE IsFiniteSet(E(w))
    <3>1. assembling[w] \in Seq(Nat)
      BY DEF TypeInv, TypeOK, QueuesType
    <3>2. IsFiniteSet(DOMAIN assembling[w])
      BY <3>1, LenProperties, FS_Interval
    <3>3. IsFiniteSet({i \in DOMAIN assembling[w] : assembling[w][i] = cid[c]})
      BY <3>2, FS_Subset
    <3>4. IsFiniteSet({w})
      BY FS_Singleton
    <3> QED BY <3>3, <3>4, FS_Product
  <2>2. IsFiniteSet(Workers)
    BY ThreadsFinite, FS_Subset, Thread
  <2>3. IsFiniteSet({E(w) : w \in Workers})
    <3> DEFINE f == [w \in Workers |-> E(w)]
    <3>1. f \in Surjection(Workers, {E(w) : w \in Workers})
      BY DEF Surjection
    <3> HIDE DEF f, E
    <3> QED BY <2>2, <3>1, FS_Surjection
  <2>4. IsFiniteSet(UNION {E(w) : w \in Workers})
    BY <2>1, <2>3, FS_UNION
  <2> QED BY <2>4 DEF Entries
<1>4. Cardinality(Entries(c)) \in Nat /\ (Entries(c) # {} => Cardinality(Entries(c)) >= 1)
  BY <1>3, FS_CardinalityType, FS_EmptySet
<1>5. CASE InKernel(c)
  BY <1>1, <1>2, <1>4, <1>5 DEF InKernel, Custodians
<1>6. CASE InQueue(c)
  <2>1. PICK w \in Workers : \E i \in DOMAIN assembling[w] : assembling[w][i] = cid[c]
    BY <1>6 DEF InQueue
  <2>2. PICK i \in DOMAIN assembling[w] : assembling[w][i] = cid[c]
    BY <2>1
  <2>3. <<w, i>> \in Entries(c)
    BY <2>1, <2>2 DEF Entries
  <2> QED BY <1>1, <1>2, <1>4, <2>3 DEF Custodians
<1>7. CASE \E t \in Threads : Receiving(t, c)
  <2>1. R # {}
    BY <1>7
  <2> QED BY <1>1, <1>2, <1>4, <2>1 DEF Custodians
<1> QED BY <1>5, <1>6, <1>7 DEF Attended

\* A connected client is always listened to: for any number of clients, workers and
\* application threads, some party is on its way to post the next receive.
THEOREM ClientsAttended == Spec => []NoDeafClient
<1>1. Init => TypeInv /\ ListInv /\ AttendedInv
  <2> SUFFICES ASSUME Init PROVE AttendedInv
    BY InitType, InitList
  <2> QED BY DEF Init, AttendedInv
<1>2. TypeInv /\ ListInv /\ AttendedInv /\ [Next]_vars => TypeInv' /\ ListInv' /\ AttendedInv'
  <2> SUFFICES ASSUME TypeInv, ListInv, AttendedInv, [Next]_vars PROVE AttendedInv'
    BY NextType, NextList
  <2>1. CASE KernelNext
    BY <2>1, KernelNextAttended
  <2>2. ASSUME NEW t \in Threads, ThreadNext(t) PROVE AttendedInv'
    BY <2>2, ThreadNextAttended
  <2>3. CASE UNCHANGED vars
    BY <2>3 DEF vars, objects, queues, kernel, threads, AttendedInv, Attended, InKernel, InQueue,
                Receiving
  <2> QED BY <2>1, <2>2, <2>3 DEF Next
<1>3. TypeInv /\ AttendedInv => NoDeafClient
  BY AttendedCounted DEF AttendedInv, NoDeafClient
<1> QED BY <1>1, <1>2, <1>3, PTL DEF Spec
-----------------------------------------------------------------------------
(* One party at a time.                                                    *)

\* The kernel and the threads have nothing to do with c.
Untouched(c) ==
  /\ rx[c] = 0 /\ tx[c] = 0 /\ \A k \in Kinds : packets[c][k] = 0
  /\ \A t \in Threads : ptr[t] # c /\ outer[t] # c

\* An id that some client has or had.
IdKnown(n) == \E d \in Clients : mem[d] # "unborn" /\ cid[d] = n

\* What is in flight belongs to clients that were accepted.
Known ==
  /\ \A c \in Clients : mem[c] = "unborn" => Untouched(c)
  /\ \A w \in Workers : \A i \in DOMAIN assembling[w] : IdKnown(assembling[w][i])
  /\ \A t \in Threads : fn[t] = "worker" /\ pc[t] = "getClient" => IdKnown(job[t].id)

Alone(c) == \A d \in Clients \ {c} : mem[d] = "unborn" \/ cid[d] # cid[c]

\* No client is born, none comes back.
LivesOn ==
  /\ cid' = cid
  /\ \A d \in Clients : /\ mem'[d] = "unborn" <=> mem[d] = "unborn"
                        /\ mem'[d] = "live" => mem[d] = "live"

InKernelOf(c) == rx[c] + packets[c]["data"] + packets[c]["closed"]
Has(t, c) == IF Receiving(t, c) THEN 1 ELSE 0

\* What thread t takes over of c it takes from another party.
Passes(t, c) ==
  /\ cid'[c] = cid[c]
  /\ InKernelOf(c)' + Cardinality(Entries(c)') + Has(t, c)'
       <= InKernelOf(c) + Cardinality(Entries(c)) + Has(t, c)
  /\ \A u \in Threads \ {t} : job'[u] = job[u]

\* Entries(c) is EntriesOf(assembling, cid[c]).
EntriesOf(q, n) == UNION {{w} \X {i \in DOMAIN q[w] : q[w][i] = n} : w \in Workers}

LEMMA EntriesAre ==
  ASSUME NEW q, NEW n, NEW e
  PROVE  e \in EntriesOf(q, n) <=> \E w \in Workers : \E i \in DOMAIN q[w] : q[w][i] = n /\ e = <<w, i>>
  BY DEF EntriesOf

LEMMA EntriesFinite ==
  ASSUME NEW q \in [Workers -> Seq(Nat)], NEW n
  PROVE  IsFiniteSet(EntriesOf(q, n)) /\ Cardinality(EntriesOf(q, n)) \in Nat
<1> DEFINE E(w) == {w} \X {i \in DOMAIN q[w] : q[w][i] = n}
<1>1. ASSUME NEW w \in Workers PROVE IsFiniteSet(E(w))
  <2>1. q[w] \in Seq(Nat)
    OBVIOUS
  <2>2. IsFiniteSet(DOMAIN q[w])
    BY <2>1, LenProperties, FS_Interval
  <2>3. IsFiniteSet({i \in DOMAIN q[w] : q[w][i] = n})
    BY <2>2, FS_Subset
  <2>4. IsFiniteSet({w})
    BY FS_Singleton
  <2> QED BY <2>3, <2>4, FS_Product
<1>2. IsFiniteSet(Workers)
  BY ThreadsFinite, FS_Subset, Thread
<1>3. IsFiniteSet({E(w) : w \in Workers})
  <2> DEFINE f == [w \in Workers |-> E(w)]
  <2>1. f \in Surjection(Workers, {E(w) : w \in Workers})
    BY DEF Surjection
  <2> HIDE DEF f, E
  <2> QED BY <1>2, <2>1, FS_Surjection
<1>4. IsFiniteSet(UNION {E(w) : w \in Workers})
  BY <1>1, <1>3, FS_UNION
<1> QED BY <1>4, FS_CardinalityType DEF EntriesOf

\* One more id at the end of a queue is one more entry of that id.
LEMMA EntriesAppended ==
  ASSUME NEW q \in [Workers -> Seq(Nat)], NEW v \in Workers, NEW m \in Nat, NEW n \in Nat
  PROVE  Cardinality(EntriesOf([q EXCEPT ![v] = Append(@, m)], n))
           <= Cardinality(EntriesOf(q, n)) + (IF m = n THEN 1 ELSE 0)
<1> DEFINE r == [q EXCEPT ![v] = Append(@, m)]
           last == <<v, Len(q[v]) + 1>>
<1>1. /\ r \in [Workers -> Seq(Nat)]
      /\ \A w \in Workers \ {v} : r[w] = q[w]
      /\ DOMAIN r[v] = DOMAIN q[v] \cup {Len(q[v]) + 1}
      /\ r[v][Len(q[v]) + 1] = m
      /\ \A i \in DOMAIN q[v] : r[v][i] = q[v][i]
  <2>1. q[v] \in Seq(Nat) /\ r[v] = Append(q[v], m)
    OBVIOUS
  <2>2. r \in [Workers -> Seq(Nat)] /\ \A w \in Workers \ {v} : r[w] = q[w]
    BY AppendProperties
  <2>3. /\ Len(q[v]) \in Nat /\ DOMAIN q[v] = 1 .. Len(q[v])
        /\ Len(r[v]) = Len(q[v]) + 1 /\ r[v] \in Seq(Nat)
        /\ r[v][Len(q[v]) + 1] = m
        /\ \A i \in 1 .. Len(q[v]) : r[v][i] = q[v][i]
    BY <2>1, AppendProperties, LenProperties
  <2>4. DOMAIN r[v] = 1 .. Len(q[v]) + 1
    BY <2>3, LenProperties
  <2> HIDE DEF r
  <2> QED BY <2>2, <2>3, <2>4
<1> HIDE DEF r
<1>2. EntriesOf(r, n) \subseteq EntriesOf(q, n) \cup (IF m = n THEN {last} ELSE {})
  <2> SUFFICES ASSUME NEW e \in EntriesOf(r, n)
               PROVE  e \in EntriesOf(q, n) \cup (IF m = n THEN {last} ELSE {})
    OBVIOUS
  <2>1. PICK w \in Workers : \E i \in DOMAIN r[w] : r[w][i] = n /\ e = <<w, i>>
    BY EntriesAre
  <2>2. PICK i \in DOMAIN r[w] : r[w][i] = n /\ e = <<w, i>>
    BY <2>1
  <2>3. CASE w = v /\ i = Len(q[v]) + 1
    BY <1>1, <2>2, <2>3
  <2>4. CASE ~(w = v /\ i = Len(q[v]) + 1)
    <3>1. i \in DOMAIN q[w] /\ q[w][i] = n
      BY <1>1, <2>2, <2>4
    <3> QED BY <2>2, <3>1, EntriesAre
  <2> QED BY <2>3, <2>4
<1>3. IsFiniteSet(EntriesOf(q, n)) /\ Cardinality(EntriesOf(q, n)) \in Nat
  BY EntriesFinite
<1>4. CASE m = n
  <2> HIDE DEF last
  <2>1. /\ IsFiniteSet(EntriesOf(q, n) \cup {last})
        /\ Cardinality(EntriesOf(q, n) \cup {last}) <= Cardinality(EntriesOf(q, n)) + 1
    <3> DEFINE S == EntriesOf(q, n)
    <3>1. IsFiniteSet(S) /\ Cardinality(S) \in Nat
      BY <1>3
    <3> HIDE DEF S
    <3>2. /\ IsFiniteSet(S \cup {last})
          /\ Cardinality(S \cup {last}) = IF last \in S THEN Cardinality(S) ELSE Cardinality(S) + 1
      BY <3>1, FS_AddElement
    <3>3. Cardinality(S \cup {last}) <= Cardinality(S) + 1
      BY <3>1, <3>2
    <3> QED BY <3>2, <3>3 DEF S
  <2>2. EntriesOf(r, n) \in SUBSET (EntriesOf(q, n) \cup {last})
    BY <1>2, <1>4
  <2>3. /\ Cardinality(EntriesOf(r, n)) <= Cardinality(EntriesOf(q, n) \cup {last})
        /\ Cardinality(EntriesOf(r, n)) \in Nat /\ Cardinality(EntriesOf(q, n) \cup {last}) \in Nat
    BY <1>1, <2>1, <2>2, FS_Subset, FS_CardinalityType, EntriesFinite
  <2> QED BY <1>3, <1>4, <2>1, <2>3 DEF r
<1>5. CASE m # n
  <2>1. EntriesOf(r, n) \in SUBSET EntriesOf(q, n)
    BY <1>2, <1>5
  <2>2. Cardinality(EntriesOf(r, n)) <= Cardinality(EntriesOf(q, n))
    BY <1>3, <2>1, FS_Subset
  <2>3. Cardinality(EntriesOf(r, n)) \in Nat
    BY <1>1, EntriesFinite
  <2> QED BY <1>3, <1>5, <2>2, <2>3 DEF r
<1> QED BY <1>4, <1>5

\* Without its head a queue has an entry less of the id at its head.
LEMMA EntriesPopped ==
  ASSUME NEW q \in [Workers -> Seq(Nat)], NEW w \in Workers, q[w] # <<>>, NEW n \in Nat
  PROVE  Cardinality(EntriesOf([q EXCEPT ![w] = Tail(@)], n))
           <= Cardinality(EntriesOf(q, n)) - (IF Head(q[w]) = n THEN 1 ELSE 0)
<1> DEFINE r == [q EXCEPT ![w] = Tail(@)]
           first == <<w, 1>>
           T == EntriesOf(q, n) \ {first}
           f == [e \in EntriesOf(r, n) |-> IF e[1] = w THEN <<w, e[2] + 1>> ELSE e]
<1>1. /\ \A v \in Workers \ {w} : r[v] = q[v]
      /\ \A i \in DOMAIN r[w] : i \in Nat /\ i + 1 \in DOMAIN q[w] /\ i + 1 # 1 /\ r[w][i] = q[w][i + 1]
      /\ 1 \in DOMAIN q[w] /\ q[w][1] = Head(q[w])
  <2>1. q[w] \in Seq(Nat) /\ r[w] = Tail(q[w])
    OBVIOUS
  <2>2. /\ Tail(q[w]) \in Seq(Nat) /\ Len(Tail(q[w])) = Len(q[w]) - 1
        /\ \A i \in 1 .. Len(Tail(q[w])) : Tail(q[w])[i] = q[w][i + 1]
    BY <2>1, HeadTailProperties
  <2>3. /\ Len(q[w]) \in Nat /\ DOMAIN q[w] = 1 .. Len(q[w]) /\ Len(q[w]) # 0
        /\ DOMAIN Tail(q[w]) = 1 .. Len(Tail(q[w]))
    BY <2>1, <2>2, LenProperties, EmptySeq
  <2>4. q[w][1] = Head(q[w])
    BY <2>1
  <2>5. \A v \in Workers \ {w} : r[v] = q[v]
    OBVIOUS
  <2> HIDE DEF r
  <2> QED BY <2>1, <2>2, <2>3, <2>4, <2>5
<1> HIDE DEF r
<1>2. ASSUME NEW e \in EntriesOf(r, n)
      PROVE  \E v \in Workers : \E i \in DOMAIN r[v] :
               /\ r[v][i] = n /\ e = <<v, i>>
               /\ f[e] = (IF v = w THEN <<w, i + 1>> ELSE <<v, i>>)
               /\ f[e] \in T
  <2>1. PICK v \in Workers : \E i \in DOMAIN r[v] : r[v][i] = n /\ e = <<v, i>>
    BY EntriesAre
  <2>2. PICK i \in DOMAIN r[v] : r[v][i] = n /\ e = <<v, i>>
    BY <2>1
  <2>3. f[e] = (IF v = w THEN <<w, i + 1>> ELSE <<v, i>>)
    BY <2>2
  <2>4. CASE v = w
    <3>1. f[e] = <<w, i + 1>> /\ i + 1 \in DOMAIN q[w] /\ q[w][i + 1] = n /\ i + 1 # 1
      BY <1>1, <2>2, <2>3, <2>4
    <3>2. f[e] \in EntriesOf(q, n)
      BY <3>1, EntriesAre
    <3> QED BY <2>2, <2>3, <3>1, <3>2
  <2>5. CASE v # w
    <3>1. f[e] = <<v, i>> /\ i \in DOMAIN q[v] /\ q[v][i] = n
      BY <1>1, <2>2, <2>3, <2>5
    <3>2. f[e] \in EntriesOf(q, n)
      BY <3>1, EntriesAre
    <3> QED BY <2>2, <2>3, <2>5, <3>1, <3>2
  <2> QED BY <2>4, <2>5
<1>3. f \in [EntriesOf(r, n) -> T]
  <2>1. \A e \in EntriesOf(r, n) : f[e] \in T
    BY <1>2
  <2> QED BY <2>1
<1>4. ASSUME NEW a \in EntriesOf(r, n), NEW b \in EntriesOf(r, n), f[a] = f[b] PROVE a = b
  <2> HIDE DEF f, T
  <2>1. PICK v \in Workers : \E i \in DOMAIN r[v] :
          a = <<v, i>> /\ f[a] = (IF v = w THEN <<w, i + 1>> ELSE <<v, i>>)
    BY <1>2
  <2>2. PICK i \in DOMAIN r[v] : a = <<v, i>> /\ f[a] = (IF v = w THEN <<w, i + 1>> ELSE <<v, i>>)
    BY <2>1
  <2>6. PICK u \in Workers : \E j \in DOMAIN r[u] :
          b = <<u, j>> /\ f[b] = (IF u = w THEN <<w, j + 1>> ELSE <<u, j>>)
    BY <1>2
  <2>7. PICK j \in DOMAIN r[u] : b = <<u, j>> /\ f[b] = (IF u = w THEN <<w, j + 1>> ELSE <<u, j>>)
    BY <2>6
  <2>3. u = v
    BY <1>4, <2>2, <2>7
  <2>4. CASE v = w
    BY <1>1, <1>4, <2>2, <2>7, <2>3, <2>4
  <2>5. CASE v # w
    BY <1>4, <2>2, <2>7, <2>3, <2>5
  <2> QED BY <2>4, <2>5
<1>5. f \in Injection(EntriesOf(r, n), T)
  BY <1>3, <1>4 DEF Injection, IsInjective
<1>6. IsFiniteSet(EntriesOf(q, n)) /\ Cardinality(EntriesOf(q, n)) \in Nat
  BY EntriesFinite
<1>7. /\ IsFiniteSet(T) /\ Cardinality(T) \in Nat
      /\ Cardinality(T) = Cardinality(EntriesOf(q, n)) - IF first \in EntriesOf(q, n) THEN 1 ELSE 0
  <2>1. IsFiniteSet(T) /\ Cardinality(T) = IF first \in EntriesOf(q, n)
                                           THEN Cardinality(EntriesOf(q, n)) - 1
                                           ELSE Cardinality(EntriesOf(q, n))
    BY <1>6, FS_RemoveElement
  <2> QED BY <1>6, <2>1, FS_CardinalityType
<1>8. Cardinality(EntriesOf(r, n)) <= Cardinality(T) /\ Cardinality(EntriesOf(r, n)) \in Nat
  <2> HIDE DEF f, T
  <2> QED BY <1>5, <1>7, FS_Injection, FS_CardinalityType
<1>9. Head(q[w]) = n => first \in EntriesOf(q, n)
  BY <1>1, EntriesAre
<1> HIDE DEF T, f, first
<1> QED BY <1>6, <1>7, <1>8, <1>9 DEF r

LEMMA KernelInteger ==
  ASSUME TypeInv, NEW c \in Clients
  PROVE  InKernelOf(c) \in Nat
  BY DEF TypeInv, TypeOK, KernelType, Kinds, InKernelOf

LEMMA PassesStep ==
  ASSUME TypeInv, TypeInv', NEW t \in Threads, OthersIdle(t), NEW c \in Clients, Passes(t, c)
  PROVE  Custodians(c)' <= Custodians(c)
<1> DEFINE R == {u \in Threads : Receiving(u, c)}
<1>1. R \ {t} = R' \ {t}
  BY DEF Receiving, OthersIdle, Passes
<1>2. /\ Cardinality(R) \in Nat /\ Cardinality(R') \in Nat
      /\ Cardinality(R') = Cardinality(R) + (IF t \in R' THEN 1 ELSE 0) - (IF t \in R THEN 1 ELSE 0)
  BY <1>1, CardinalityChange
<1>3. (t \in R <=> Receiving(t, c)) /\ (t \in R' <=> Receiving(t, c)')
  OBVIOUS
<1>4. /\ Custodians(c) = InKernelOf(c) + Cardinality(Entries(c)) + Cardinality(R)
      /\ Custodians(c)' = InKernelOf(c)' + Cardinality(Entries(c)') + Cardinality(R')
  BY DEF Custodians, InKernelOf
<1>5. /\ InKernelOf(c) \in Nat /\ InKernelOf(c)' \in Nat
      /\ Cardinality(Entries(c)) \in Nat /\ Cardinality(Entries(c)') \in Nat
  <2>1. InKernelOf(c) \in Nat
    BY KernelInteger
  <2>2. InKernelOf(c)' \in Nat
    BY DEF TypeInv, TypeOK, KernelType, Kinds, InKernelOf
  <2>3. /\ assembling \in [Workers -> Seq(Nat)] /\ assembling' \in [Workers -> Seq(Nat)]
        /\ Entries(c) = EntriesOf(assembling, cid[c])
        /\ Entries(c)' = EntriesOf(assembling', cid'[c])
    BY DEF TypeInv, TypeOK, QueuesType, Entries, EntriesOf
  <2> QED BY <2>1, <2>2, <2>3, EntriesFinite
<1> HIDE DEF R
<1> QED BY <1>2, <1>3, <1>4, <1>5 DEF Passes, Has

LEMMA CustodiansInteger ==
  ASSUME TypeInv, TypeInv', NEW c \in Clients
  PROVE  Custodians(c) \in Int /\ Custodians(c)' \in Int
<1>1. InKernelOf(c) \in Nat /\ InKernelOf(c)' \in Nat
  BY DEF TypeInv, TypeOK, KernelType, Kinds, InKernelOf
<1>2. /\ assembling \in [Workers -> Seq(Nat)] /\ assembling' \in [Workers -> Seq(Nat)]
      /\ Entries(c) = EntriesOf(assembling, cid[c])
      /\ Entries(c)' = EntriesOf(assembling', cid'[c])
  BY DEF TypeInv, TypeOK, QueuesType, Entries, EntriesOf
<1>3. Cardinality(Entries(c)) \in Nat /\ Cardinality(Entries(c)') \in Nat
  BY <1>2, EntriesFinite
<1> DEFINE R == {t \in Threads : Receiving(t, c)}
<1>4. IsFiniteSet(R) /\ IsFiniteSet(R')
  BY ThreadsFinite, FS_Subset
<1>5. Cardinality(R) \in Nat /\ Cardinality(R') \in Nat
  BY <1>4, FS_CardinalityType
<1>6. /\ Custodians(c) = InKernelOf(c) + Cardinality(Entries(c)) + Cardinality(R)
      /\ Custodians(c)' = InKernelOf(c)' + Cardinality(Entries(c)') + Cardinality(R')
  BY DEF Custodians, InKernelOf
<1> HIDE DEF R
<1> QED BY <1>1, <1>3, <1>5, <1>6

\* A step of thread t that takes no client into its custody, and no id from a queue.
Harmless(t) ==
  /\ UNCHANGED <<cid, rx, packets, assembling>>
  /\ \A c \in Clients : tx'[c] = tx[c] \/ ptr[t] = c
  /\ \A c \in Clients : Receiving(t, c)' => Receiving(t, c)
  /\ \A c \in Clients : ptr'[t] = c \/ outer'[t] = c
                          => ptr[t] = c \/ outer[t] = c \/ mem[c] # "unborn"
  /\ ~(fn'[t] = "worker" /\ pc'[t] = "getClient")
  /\ \A u \in Threads \ {t} : job'[u] = job[u]

LEMMA postAcceptExEventHarmless ==
  ASSUME TypeInv, postAcceptExEvent
  PROVE  Harmless(Listener)
<1> USE Thread, ClientsAssumption, ThreadsAssumption DEF postAcceptExEvent, Finish, objects, queues
<1>0. ThreadsType /\ ControlAt(Listener) /\ KernelType
  BY DEF TypeInv, TypeOK, ControlOK
<1>3. UNCHANGED <<cid, rx, packets, assembling>>
  OBVIOUS
<1>4. ~(fn'[Listener] = "worker" /\ pc'[Listener] = "getClient") /\ \A u \in Threads \ {Listener} : job'[u] = job[u]
  BY <1>0 DEF ThreadsType, ControlAt
<1>5. ASSUME NEW c \in Clients
      PROVE  ptr'[Listener] = c \/ outer'[Listener] = c => ptr[Listener] = c \/ outer[Listener] = c \/ mem[c] # "unborn"
  BY <1>0 DEF ThreadsType
<1>6. ASSUME NEW c \in Clients PROVE Receiving(Listener, c)' => Receiving(Listener, c)
  BY <1>0, <1>3 DEF Receiving, ThreadsType, ControlAt
<1>7. ASSUME NEW c \in Clients PROVE tx'[c] = tx[c] \/ ptr[Listener] = c
  BY <1>0 DEF KernelType
<1> QED BY <1>3, <1>4, <1>5, <1>6, <1>7 DEF Harmless

LEMMA DispatchHarmless ==
  ASSUME TypeInv, Dispatch
  PROVE  Harmless(Listener)
<1> USE Thread, ClientsAssumption, ThreadsAssumption DEF Dispatch, Goto, LastReference, objects, queues, kernel
<1>0. ThreadsType /\ ControlAt(Listener) /\ KernelType
  BY DEF TypeInv, TypeOK, ControlOK
<1>3. UNCHANGED <<cid, rx, packets, assembling>>
  OBVIOUS
<1>4. ~(fn'[Listener] = "worker" /\ pc'[Listener] = "getClient") /\ \A u \in Threads \ {Listener} : job'[u] = job[u]
  BY <1>0 DEF ThreadsType, ControlAt
<1>5. ASSUME NEW c \in Clients
      PROVE  ptr'[Listener] = c \/ outer'[Listener] = c => ptr[Listener] = c \/ outer[Listener] = c \/ mem[c] # "unborn"
  BY <1>0 DEF ThreadsType
<1>6. ASSUME NEW c \in Clients PROVE Receiving(Listener, c)' => Receiving(Listener, c)
  BY <1>0, <1>3 DEF Receiving, ThreadsType, ControlAt
<1>7. ASSUME NEW c \in Clients PROVE tx'[c] = tx[c] \/ ptr[Listener] = c
  BY <1>0 DEF KernelType
<1> QED BY <1>3, <1>4, <1>5, <1>6, <1>7 DEF Harmless

LEMMA HangUpHarmless ==
  ASSUME TypeInv, HangUp
  PROVE  Harmless(Listener)
<1> USE Thread, ClientsAssumption, ThreadsAssumption DEF HangUp, Goto, queues, kernel
<1>0. ThreadsType /\ ControlAt(Listener) /\ KernelType
  BY DEF TypeInv, TypeOK, ControlOK
<1>3. UNCHANGED <<cid, rx, packets, assembling>>
  OBVIOUS
<1>4. ~(fn'[Listener] = "worker" /\ pc'[Listener] = "getClient") /\ \A u \in Threads \ {Listener} : job'[u] = job[u]
  BY <1>0 DEF ThreadsType, ControlAt
<1>5. ASSUME NEW c \in Clients
      PROVE  ptr'[Listener] = c \/ outer'[Listener] = c => ptr[Listener] = c \/ outer[Listener] = c \/ mem[c] # "unborn"
  BY <1>0 DEF ThreadsType
<1>6. ASSUME NEW c \in Clients PROVE Receiving(Listener, c)' => Receiving(Listener, c)
  BY <1>0, <1>3 DEF Receiving, ThreadsType, ControlAt
<1>7. ASSUME NEW c \in Clients PROVE tx'[c] = tx[c] \/ ptr[Listener] = c
  BY <1>0 DEF KernelType
<1> QED BY <1>3, <1>4, <1>5, <1>6, <1>7 DEF Harmless

LEMMA CompleteSendHarmless ==
  ASSUME TypeInv, CompleteSend
  PROVE  Harmless(Listener)
<1> USE Thread, ClientsAssumption, ThreadsAssumption DEF CompleteSend, Goto, queues, kernel
<1>0. ThreadsType /\ ControlAt(Listener) /\ KernelType
  BY DEF TypeInv, TypeOK, ControlOK
<1>3. UNCHANGED <<cid, rx, packets, assembling>>
  OBVIOUS
<1>4. ~(fn'[Listener] = "worker" /\ pc'[Listener] = "getClient") /\ \A u \in Threads \ {Listener} : job'[u] = job[u]
  BY <1>0 DEF ThreadsType, ControlAt
<1>5. ASSUME NEW c \in Clients
      PROVE  ptr'[Listener] = c \/ outer'[Listener] = c => ptr[Listener] = c \/ outer[Listener] = c \/ mem[c] # "unborn"
  BY <1>0 DEF ThreadsType
<1>6. ASSUME NEW c \in Clients PROVE Receiving(Listener, c)' => Receiving(Listener, c)
  BY <1>0, <1>3 DEF Receiving, ThreadsType, ControlAt
<1>7. ASSUME NEW c \in Clients PROVE tx'[c] = tx[c] \/ ptr[Listener] = c
  BY <1>0 DEF KernelType
<1> QED BY <1>3, <1>4, <1>5, <1>6, <1>7 DEF Harmless

LEMMA NextRequestHarmless ==
  ASSUME TypeInv, NEW a \in Apps, NextRequest(a)
  PROVE  Harmless(a)
<1> USE Thread, ClientsAssumption, ThreadsAssumption DEF NextRequest, Goto, objects, kernel
<1>0. ThreadsType /\ ControlAt(a) /\ KernelType
  BY DEF TypeInv, TypeOK, ControlOK
<1>3. UNCHANGED <<cid, rx, packets, assembling>>
  OBVIOUS
<1>4. ~(fn'[a] = "worker" /\ pc'[a] = "getClient") /\ \A u \in Threads \ {a} : job'[u] = job[u]
  BY <1>0 DEF ThreadsType, ControlAt
<1>5. ASSUME NEW c \in Clients
      PROVE  ptr'[a] = c \/ outer'[a] = c => ptr[a] = c \/ outer[a] = c \/ mem[c] # "unborn"
  BY <1>0 DEF ThreadsType
<1>6. ASSUME NEW c \in Clients PROVE Receiving(a, c)' => Receiving(a, c)
  BY <1>0, <1>3 DEF Receiving, ThreadsType, ControlAt
<1>7. ASSUME NEW c \in Clients PROVE tx'[c] = tx[c] \/ ptr[a] = c
  BY <1>0 DEF KernelType
<1> QED BY <1>3, <1>4, <1>5, <1>6, <1>7 DEF Harmless

LEMMA FeedHarmless ==
  ASSUME TypeInv, NEW w \in Workers, Feed(w)
  PROVE  Harmless(w)
<1> USE Thread, ClientsAssumption, ThreadsAssumption DEF Feed, Goto, AfterFeed, queues, kernel
<1>0. ThreadsType /\ ControlAt(w) /\ KernelType
  BY DEF TypeInv, TypeOK, ControlOK
<1>3. UNCHANGED <<cid, rx, packets, assembling>>
  OBVIOUS
<1>4. ~(fn'[w] = "worker" /\ pc'[w] = "getClient") /\ \A u \in Threads \ {w} : job'[u] = job[u]
  BY <1>0 DEF ThreadsType, ControlAt
<1>5. ASSUME NEW c \in Clients
      PROVE  ptr'[w] = c \/ outer'[w] = c => ptr[w] = c \/ outer[w] = c \/ mem[c] # "unborn"
  BY <1>0 DEF ThreadsType
<1>6. ASSUME NEW c \in Clients PROVE Receiving(w, c)' => Receiving(w, c)
  BY <1>0, <1>3 DEF Receiving, ThreadsType, ControlAt
<1>7. ASSUME NEW c \in Clients PROVE tx'[c] = tx[c] \/ ptr[w] = c
  BY <1>0 DEF KernelType
<1> QED BY <1>3, <1>4, <1>5, <1>6, <1>7 DEF Harmless

LEMMA createRequestHarmless ==
  ASSUME TypeInv, NEW w \in Workers, createRequest(w)
  PROVE  Harmless(w)
<1> USE Thread, ClientsAssumption, ThreadsAssumption DEF createRequest, Goto, objects, kernel
<1>0. ThreadsType /\ ControlAt(w) /\ KernelType
  BY DEF TypeInv, TypeOK, ControlOK
<1>3. UNCHANGED <<cid, rx, packets, assembling>>
  OBVIOUS
<1>4. ~(fn'[w] = "worker" /\ pc'[w] = "getClient") /\ \A u \in Threads \ {w} : job'[u] = job[u]
  BY <1>0 DEF ThreadsType, ControlAt
<1>5. ASSUME NEW c \in Clients
      PROVE  ptr'[w] = c \/ outer'[w] = c => ptr[w] = c \/ outer[w] = c \/ mem[c] # "unborn"
  BY <1>0 DEF ThreadsType
<1>6. ASSUME NEW c \in Clients PROVE Receiving(w, c)' => Receiving(w, c)
  BY <1>0, <1>3 DEF Receiving, ThreadsType, ControlAt
<1>7. ASSUME NEW c \in Clients PROVE tx'[c] = tx[c] \/ ptr[w] = c
  BY <1>0 DEF KernelType
<1> QED BY <1>3, <1>4, <1>5, <1>6, <1>7 DEF Harmless

LEMMA DisconnectFaultyHarmless ==
  ASSUME TypeInv, NEW w \in Workers, DisconnectFaulty(w)
  PROVE  Harmless(w)
<1> USE Thread, ClientsAssumption, ThreadsAssumption DEF DisconnectFaulty, Goto, queues, kernel
<1>0. ThreadsType /\ ControlAt(w) /\ KernelType
  BY DEF TypeInv, TypeOK, ControlOK
<1>3. UNCHANGED <<cid, rx, packets, assembling>>
  OBVIOUS
<1>4. ~(fn'[w] = "worker" /\ pc'[w] = "getClient") /\ \A u \in Threads \ {w} : job'[u] = job[u]
  BY <1>0 DEF ThreadsType, ControlAt
<1>5. ASSUME NEW c \in Clients
      PROVE  ptr'[w] = c \/ outer'[w] = c => ptr[w] = c \/ outer[w] = c \/ mem[c] # "unborn"
  BY <1>0 DEF ThreadsType
<1>6. ASSUME NEW c \in Clients PROVE Receiving(w, c)' => Receiving(w, c)
  BY <1>0, <1>3 DEF Receiving, ThreadsType, ControlAt
<1>7. ASSUME NEW c \in Clients PROVE tx'[c] = tx[c] \/ ptr[w] = c
  BY <1>0 DEF KernelType
<1> QED BY <1>3, <1>4, <1>5, <1>6, <1>7 DEF Harmless

LEMMA EnqueueHarmless ==
  ASSUME TypeInv, NEW t \in Threads, Enqueue(t)
  PROVE  Harmless(t)
<1> USE Thread, ClientsAssumption, ThreadsAssumption DEF Enqueue, Goto, queues, kernel
<1>0. ThreadsType /\ ControlAt(t) /\ KernelType
  BY DEF TypeInv, TypeOK, ControlOK
<1>3. UNCHANGED <<cid, rx, packets, assembling>>
  OBVIOUS
<1>4. ~(fn'[t] = "worker" /\ pc'[t] = "getClient") /\ \A u \in Threads \ {t} : job'[u] = job[u]
  BY <1>0 DEF ThreadsType, ControlAt
<1>5. ASSUME NEW c \in Clients
      PROVE  ptr'[t] = c \/ outer'[t] = c => ptr[t] = c \/ outer[t] = c \/ mem[c] # "unborn"
  BY <1>0 DEF ThreadsType
<1>6. ASSUME NEW c \in Clients PROVE Receiving(t, c)' => Receiving(t, c)
  BY <1>0, <1>3 DEF Receiving, ThreadsType, ControlAt
<1>7. ASSUME NEW c \in Clients PROVE tx'[c] = tx[c] \/ ptr[t] = c
  BY <1>0 DEF KernelType
<1> QED BY <1>3, <1>4, <1>5, <1>6, <1>7 DEF Harmless

LEMMA getClientHarmless ==
  ASSUME TypeInv, ListInv, NEW t \in Threads, getClient(t)
  PROVE  Harmless(t)
<1> USE Thread, ClientsAssumption, ThreadsAssumption DEF getClient, Goto, Finish, ReturnFromSend, Registered, objects, queues, kernel
<1>0. ThreadsType /\ ControlAt(t) /\ KernelType
  BY DEF TypeInv, TypeOK, ControlOK
<1>1. \A c \in Clients, p \in DOMAIN client_list :
        client_list[p] = c => mem[c] = "live" /\ cid[c] = p
  BY DEF ListInv, FreeListExact
<1>2. \A p \in DOMAIN client_list : client_list[p] \in Clients \cup {NoClient}
  BY DEF TypeInv, TypeOK, ListsType
<1>3. UNCHANGED <<cid, rx, packets, assembling>>
  OBVIOUS
<1>4. ~(fn'[t] = "worker" /\ pc'[t] = "getClient") /\ \A u \in Threads \ {t} : job'[u] = job[u]
  BY <1>0 DEF ThreadsType, ControlAt
<1>5. ASSUME NEW c \in Clients
      PROVE  ptr'[t] = c \/ outer'[t] = c => ptr[t] = c \/ outer[t] = c \/ mem[c] # "unborn"
  BY <1>1, <1>2, <1>0 DEF ThreadsType
<1>6. ASSUME NEW c \in Clients PROVE Receiving(t, c)' => Receiving(t, c)
  BY <1>1, <1>2, <1>0, <1>3 DEF Receiving, ThreadsType, ControlAt
<1>7. ASSUME NEW c \in Clients PROVE tx'[c] = tx[c] \/ ptr[t] = c
  BY <1>0 DEF KernelType
<1> QED BY <1>3, <1>4, <1>5, <1>6, <1>7 DEF Harmless

LEMMA postSendEventHarmless ==
  ASSUME TypeInv, NEW t \in Threads, postSendEvent(t)
  PROVE  Harmless(t)
<1> USE Thread, ClientsAssumption, ThreadsAssumption DEF postSendEvent, Goto, objects, queues
<1>0. ThreadsType /\ ControlAt(t) /\ KernelType
  BY DEF TypeInv, TypeOK, ControlOK
<1>3. UNCHANGED <<cid, rx, packets, assembling>>
  OBVIOUS
<1>4. ~(fn'[t] = "worker" /\ pc'[t] = "getClient") /\ \A u \in Threads \ {t} : job'[u] = job[u]
  BY <1>0 DEF ThreadsType, ControlAt
<1>5. ASSUME NEW c \in Clients
      PROVE  ptr'[t] = c \/ outer'[t] = c => ptr[t] = c \/ outer[t] = c \/ mem[c] # "unborn"
  BY <1>0 DEF ThreadsType
<1>6. ASSUME NEW c \in Clients PROVE Receiving(t, c)' => Receiving(t, c)
  BY <1>0, <1>3 DEF Receiving, ThreadsType, ControlAt
<1>7. ASSUME NEW c \in Clients PROVE tx'[c] = tx[c] \/ ptr[t] = c
  BY <1>0 DEF KernelType
<1> QED BY <1>3, <1>4, <1>5, <1>6, <1>7 DEF Harmless

LEMMA CountPostedHarmless ==
  ASSUME TypeInv, NEW t \in Threads, CountPosted(t)
  PROVE  Harmless(t)
<1> USE Thread, ClientsAssumption, ThreadsAssumption DEF CountPosted, Goto, queues, kernel
<1>0. ThreadsType /\ ControlAt(t) /\ KernelType
  BY DEF TypeInv, TypeOK, ControlOK
<1>3. UNCHANGED <<cid, rx, packets, assembling>>
  OBVIOUS
<1>4. ~(fn'[t] = "worker" /\ pc'[t] = "getClient") /\ \A u \in Threads \ {t} : job'[u] = job[u]
  BY <1>0 DEF ThreadsType, ControlAt
<1>5. ASSUME NEW c \in Clients
      PROVE  ptr'[t] = c \/ outer'[t] = c => ptr[t] = c \/ outer[t] = c \/ mem[c] # "unborn"
  BY <1>0 DEF ThreadsType
<1>6. ASSUME NEW c \in Clients PROVE Receiving(t, c)' => Receiving(t, c)
  BY <1>0, <1>3 DEF Receiving, ThreadsType, ControlAt
<1>7. ASSUME NEW c \in Clients PROVE tx'[c] = tx[c] \/ ptr[t] = c
  BY <1>0 DEF KernelType
<1> QED BY <1>3, <1>4, <1>5, <1>6, <1>7 DEF Harmless

LEMMA PostFailedHarmless ==
  ASSUME TypeInv, NEW t \in Threads, PostFailed(t)
  PROVE  Harmless(t)
<1> USE Thread, ClientsAssumption, ThreadsAssumption DEF PostFailed, Goto, queues, kernel
<1>0. ThreadsType /\ ControlAt(t) /\ KernelType
  BY DEF TypeInv, TypeOK, ControlOK
<1>3. UNCHANGED <<cid, rx, packets, assembling>>
  OBVIOUS
<1>4. ~(fn'[t] = "worker" /\ pc'[t] = "getClient") /\ \A u \in Threads \ {t} : job'[u] = job[u]
  BY <1>0 DEF ThreadsType, ControlAt
<1>5. ASSUME NEW c \in Clients
      PROVE  ptr'[t] = c \/ outer'[t] = c => ptr[t] = c \/ outer[t] = c \/ mem[c] # "unborn"
  BY <1>0 DEF ThreadsType
<1>6. ASSUME NEW c \in Clients PROVE Receiving(t, c)' => Receiving(t, c)
  BY <1>0, <1>3 DEF Receiving, ThreadsType, ControlAt
<1>7. ASSUME NEW c \in Clients PROVE tx'[c] = tx[c] \/ ptr[t] = c
  BY <1>0 DEF KernelType
<1> QED BY <1>3, <1>4, <1>5, <1>6, <1>7 DEF Harmless

LEMMA DropGuardHarmless ==
  ASSUME TypeInv, NEW t \in Threads, DropGuard(t)
  PROVE  Harmless(t)
<1> USE Thread, ClientsAssumption, ThreadsAssumption DEF DropGuard, Goto, objects, queues, kernel
<1>0. ThreadsType /\ ControlAt(t) /\ KernelType
  BY DEF TypeInv, TypeOK, ControlOK
<1>3. UNCHANGED <<cid, rx, packets, assembling>>
  OBVIOUS
<1>4. ~(fn'[t] = "worker" /\ pc'[t] = "getClient") /\ \A u \in Threads \ {t} : job'[u] = job[u]
  BY <1>0 DEF ThreadsType, ControlAt
<1>5. ASSUME NEW c \in Clients
      PROVE  ptr'[t] = c \/ outer'[t] = c => ptr[t] = c \/ outer[t] = c \/ mem[c] # "unborn"
  BY <1>0 DEF ThreadsType
<1>6. ASSUME NEW c \in Clients PROVE Receiving(t, c)' => Receiving(t, c)
  BY <1>0, <1>3 DEF Receiving, ThreadsType, ControlAt
<1>7. ASSUME NEW c \in Clients PROVE tx'[c] = tx[c] \/ ptr[t] = c
  BY <1>0 DEF KernelType
<1> QED BY <1>3, <1>4, <1>5, <1>6, <1>7 DEF Harmless

LEMMA ReleaseHarmless ==
  ASSUME TypeInv, NEW t \in Threads, Release(t)
  PROVE  Harmless(t)
<1> USE Thread, ClientsAssumption, ThreadsAssumption DEF Release, Goto, objects, queues, kernel
<1>0. ThreadsType /\ ControlAt(t) /\ KernelType
  BY DEF TypeInv, TypeOK, ControlOK
<1>3. UNCHANGED <<cid, rx, packets, assembling>>
  OBVIOUS
<1>4. ~(fn'[t] = "worker" /\ pc'[t] = "getClient") /\ \A u \in Threads \ {t} : job'[u] = job[u]
  BY <1>0 DEF ThreadsType, ControlAt
<1>5. ASSUME NEW c \in Clients
      PROVE  ptr'[t] = c \/ outer'[t] = c => ptr[t] = c \/ outer[t] = c \/ mem[c] # "unborn"
  BY <1>0 DEF ThreadsType
<1>6. ASSUME NEW c \in Clients PROVE Receiving(t, c)' => Receiving(t, c)
  BY <1>0, <1>3 DEF Receiving, ThreadsType, ControlAt
<1>7. ASSUME NEW c \in Clients PROVE tx'[c] = tx[c] \/ ptr[t] = c
  BY <1>0 DEF KernelType
<1> QED BY <1>3, <1>4, <1>5, <1>6, <1>7 DEF Harmless

LEMMA CheckLastHarmless ==
  ASSUME TypeInv, NEW t \in Threads, CheckLast(t)
  PROVE  Harmless(t)
<1> USE Thread, ClientsAssumption, ThreadsAssumption DEF CheckLast, Goto, Finish, AfterCheck, objects, queues, kernel
<1>0. ThreadsType /\ ControlAt(t) /\ KernelType
  BY DEF TypeInv, TypeOK, ControlOK
<1>3. UNCHANGED <<cid, rx, packets, assembling>>
  OBVIOUS
<1>4. ~(fn'[t] = "worker" /\ pc'[t] = "getClient") /\ \A u \in Threads \ {t} : job'[u] = job[u]
  BY <1>0 DEF ThreadsType, ControlAt
<1>5. ASSUME NEW c \in Clients
      PROVE  ptr'[t] = c \/ outer'[t] = c => ptr[t] = c \/ outer[t] = c \/ mem[c] # "unborn"
  BY <1>0 DEF ThreadsType
<1>6. ASSUME NEW c \in Clients PROVE Receiving(t, c)' => Receiving(t, c)
  BY <1>0, <1>3 DEF Receiving, ThreadsType, ControlAt
<1>7. ASSUME NEW c \in Clients PROVE tx'[c] = tx[c] \/ ptr[t] = c
  BY <1>0 DEF KernelType
<1> QED BY <1>3, <1>4, <1>5, <1>6, <1>7 DEF Harmless

LEMMA terminateClientHarmless ==
  ASSUME TypeInv, NEW t \in Threads, terminateClient(t)
  PROVE  Harmless(t)
<1> USE Thread, ClientsAssumption, ThreadsAssumption DEF terminateClient, Goto, Finish, AfterCheck, queues, kernel
<1>0. ThreadsType /\ ControlAt(t) /\ KernelType
  BY DEF TypeInv, TypeOK, ControlOK
<1>3. UNCHANGED <<cid, rx, packets, assembling>>
  OBVIOUS
<1>4. ~(fn'[t] = "worker" /\ pc'[t] = "getClient") /\ \A u \in Threads \ {t} : job'[u] = job[u]
  BY <1>0 DEF ThreadsType, ControlAt
<1>5. ASSUME NEW c \in Clients
      PROVE  ptr'[t] = c \/ outer'[t] = c => ptr[t] = c \/ outer[t] = c \/ mem[c] # "unborn"
  BY <1>0 DEF ThreadsType
<1>6. ASSUME NEW c \in Clients PROVE Receiving(t, c)' => Receiving(t, c)
  BY <1>0, <1>3 DEF Receiving, ThreadsType, ControlAt
<1>7. ASSUME NEW c \in Clients PROVE tx'[c] = tx[c] \/ ptr[t] = c
  BY <1>0 DEF KernelType
<1> QED BY <1>3, <1>4, <1>5, <1>6, <1>7 DEF Harmless

LEMMA UnlockHarmless ==
  ASSUME TypeInv, NEW t \in Threads, Unlock(t)
  PROVE  Harmless(t)
<1> USE Thread, ClientsAssumption, ThreadsAssumption DEF Unlock, Finish, ReturnFromSend, objects, queues, kernel
<1>0. ThreadsType /\ ControlAt(t) /\ KernelType
  BY DEF TypeInv, TypeOK, ControlOK
<1>3. UNCHANGED <<cid, rx, packets, assembling>>
  OBVIOUS
<1>4. ~(fn'[t] = "worker" /\ pc'[t] = "getClient") /\ \A u \in Threads \ {t} : job'[u] = job[u]
  BY <1>0 DEF ThreadsType, ControlAt
<1>5. ASSUME NEW c \in Clients
      PROVE  ptr'[t] = c \/ outer'[t] = c => ptr[t] = c \/ outer[t] = c \/ mem[c] # "unborn"
  BY <1>0 DEF ThreadsType
<1>6. ASSUME NEW c \in Clients PROVE Receiving(t, c)' => Receiving(t, c)
  BY <1>0, <1>3 DEF Receiving, ThreadsType, ControlAt
<1>7. ASSUME NEW c \in Clients PROVE tx'[c] = tx[c] \/ ptr[t] = c
  BY <1>0 DEF KernelType
<1> QED BY <1>3, <1>4, <1>5, <1>6, <1>7 DEF Harmless

LEMMA HarmlessPasses ==
  ASSUME TypeInv, NEW t \in Threads, NEW c \in Clients, Harmless(t)
  PROVE  Passes(t, c)
<1>1. UNCHANGED <<cid, rx, packets, assembling>> /\ (Receiving(t, c)' => Receiving(t, c))
  BY DEF Harmless
<1>2. InKernelOf(c)' = InKernelOf(c) /\ Entries(c)' = Entries(c)
  BY <1>1 DEF InKernelOf, Entries
<1>3. Has(t, c)' <= Has(t, c)
  BY <1>1 DEF Has
<1>4. InKernelOf(c) \in Nat /\ Cardinality(Entries(c)) \in Nat
  <2>1. assembling \in [Workers -> Seq(Nat)] /\ Entries(c) = EntriesOf(assembling, cid[c])
    BY DEF TypeInv, TypeOK, QueuesType, Entries, EntriesOf
  <2> QED BY <2>1, KernelInteger, EntriesFinite
<1>5. Has(t, c) \in Nat /\ Has(t, c)' \in Nat
  BY DEF Has
<1>6. /\ InKernelOf(c)' = InKernelOf(c) /\ Cardinality(Entries(c)') = Cardinality(Entries(c))
      /\ \A u \in Threads \ {t} : job'[u] = job[u]
  BY <1>2 DEF Harmless
<1>7. InKernelOf(c)' + Cardinality(Entries(c)') + Has(t, c)'
        <= InKernelOf(c) + Cardinality(Entries(c)) + Has(t, c)
  BY <1>3, <1>4, <1>5, <1>6
<1> QED BY <1>1, <1>6, <1>7 DEF Passes

LEMMA IdsStayKnown ==
  ASSUME LivesOn, NEW n, IdKnown(n)
  PROVE  IdKnown(n)'
  BY DEF LivesOn, IdKnown

LEMMA HarmlessKnown ==
  ASSUME TypeInv, Known, NEW t \in Threads, OthersIdle(t), LivesOn, Harmless(t)
  PROVE  Known'
<1>1. ASSUME NEW c \in Clients, mem'[c] = "unborn" PROVE Untouched(c)'
  <2>1. Untouched(c) /\ mem[c] = "unborn"
    BY <1>1 DEF Known, LivesOn
  <2>2. rx'[c] = 0 /\ tx'[c] = 0 /\ \A k \in Kinds : packets'[c][k] = 0
    BY <2>1 DEF Untouched, Harmless
  <2>3. \A u \in Threads : ptr'[u] # c /\ outer'[u] # c
    BY <2>1 DEF Untouched, Harmless, OthersIdle
  <2> QED BY <2>2, <2>3 DEF Untouched
<1>2. ASSUME NEW w \in Workers, NEW i \in DOMAIN assembling'[w] PROVE IdKnown(assembling[w][i])'
  <2>1. assembling' = assembling
    BY DEF Harmless
  <2>2. IdKnown(assembling[w][i])
    BY <1>2, <2>1 DEF Known
  <2> QED BY <2>1, <2>2 DEF LivesOn, IdKnown
<1>3. ASSUME NEW u \in Threads, fn'[u] = "worker" /\ pc'[u] = "getClient" PROVE IdKnown(job[u].id)' /\ job'[u] = job[u]
  <2>1. u # t
    BY <1>3 DEF Harmless
  <2>2. fn[u] = "worker" /\ pc[u] = "getClient" /\ job'[u] = job[u]
    BY <1>3, <2>1 DEF Harmless, OthersIdle
  <2>3. IdKnown(job[u].id)
    BY <2>2 DEF Known
  <2> QED BY <2>2, <2>3 DEF LivesOn, IdKnown
<1>4. \A u \in Threads : fn'[u] = "worker" /\ pc'[u] = "getClient" => IdKnown(job[u].id)'
  BY <1>3
<1> QED BY <1>1, <1>2, <1>4 DEF Known

\* Ids in the queues stay known, and so does the one that thread t looks up.
LEMMA KnownStep ==
  ASSUME Known, NEW t \in Threads, OthersIdle(t), LivesOn,
         \A c \in Clients : mem[c] = "unborn" =>
           /\ rx'[c] = 0 /\ tx'[c] = 0 /\ \A k \in Kinds : packets'[c][k] = 0
           /\ ptr'[t] # c /\ outer'[t] # c,
         \A w \in Workers : \A i \in DOMAIN assembling'[w] : IdKnown(assembling'[w][i]),
         fn'[t] = "worker" /\ pc'[t] = "getClient" => IdKnown(job'[t].id),
         \A u \in Threads \ {t} : job'[u] = job[u]
  PROVE  Known'
<1>1. ASSUME NEW c \in Clients, mem'[c] = "unborn" PROVE Untouched(c)'
  BY <1>1 DEF Known, LivesOn, Untouched, OthersIdle
<1>2. ASSUME NEW w \in Workers, NEW i \in DOMAIN assembling'[w] PROVE IdKnown(assembling[w][i])'
  BY <1>2 DEF LivesOn, IdKnown
<1>3. \A u \in Threads : fn'[u] = "worker" /\ pc'[u] = "getClient" => IdKnown(job[u].id)'
  <2> SUFFICES ASSUME NEW u \in Threads, fn'[u] = "worker" /\ pc'[u] = "getClient"
               PROVE  IdKnown(job'[u].id)
    BY DEF LivesOn, IdKnown
  <2>1. CASE u = t
    BY <2>1
  <2>2. CASE u # t
    BY <2>2 DEF Known, OthersIdle
  <2> QED BY <2>1, <2>2
<1> QED BY <1>1, <1>2, <1>3 DEF Known

LEMMA OthersLiveOn ==
  ASSUME TypeInv, ListInv, NEW t \in Threads, ThreadNext(t), ~addClient
  PROVE  LivesOn
<1>1. cid' = cid
  <2>1. CASE t = Listener /\ ListenerNext
    BY <2>1 DEF ListenerNext, postAcceptExEvent, Dequeue, Dispatch, PushToAssembler, HangUp,
                CompleteSend, objects
  <2>2. CASE t \in Workers /\ WorkerNext(t)
    BY <2>2 DEF WorkerNext, PopClientId, Feed, createRequest, DisconnectFaulty, objects
  <2>3. CASE t \in Apps /\ NextRequest(t)
    BY <2>3 DEF NextRequest, objects
  <2>4. CASE \/ getClient(t) \/ Enqueue(t)
             \/ postReceiveEvent(t) \/ postSendEvent(t) \/ CountPosted(t) \/ PostFailed(t)
    BY <2>4 DEF getClient, Enqueue, postReceiveEvent, postSendEvent, CountPosted, PostFailed, objects
  <2>5. CASE DropGuard(t) \/ Release(t) \/ CheckLast(t) \/ terminateClient(t) \/ Unlock(t)
    BY <2>5 DEF DropGuard, Release, CheckLast, terminateClient, Unlock, objects
  <2> QED BY <2>1, <2>2, <2>3, <2>4, <2>5 DEF ThreadNext
<1>2. mem' = mem \/ \E d \in Clients : mem[d] = "live" /\ mem' = [mem EXCEPT ![d] = "freed"]
  <2>1. CASE t = Listener /\ ListenerNext
    BY <2>1 DEF ListenerNext, postAcceptExEvent, Dequeue, Dispatch, PushToAssembler, HangUp,
                CompleteSend, objects
  <2>2. CASE t \in Workers /\ WorkerNext(t)
    BY <2>2 DEF WorkerNext, PopClientId, Feed, createRequest, DisconnectFaulty, objects
  <2>3. CASE t \in Apps /\ NextRequest(t)
    BY <2>3 DEF NextRequest, objects
  <2>4. CASE \/ getClient(t) \/ Enqueue(t)
             \/ postReceiveEvent(t) \/ postSendEvent(t) \/ CountPosted(t) \/ PostFailed(t)
    BY <2>4 DEF getClient, Enqueue, postReceiveEvent, postSendEvent, CountPosted, PostFailed, objects
  <2>5. CASE DropGuard(t) \/ Release(t) \/ CheckLast(t) \/ Unlock(t)
    BY <2>5 DEF DropGuard, Release, CheckLast, Unlock, objects
  <2>6. CASE terminateClient(t)
    <3> DEFINE id == cid[ptr[t]]
    <3>1. CASE Registered(id)
      <4>1. id \in DOMAIN client_list /\ client_list[id] \in Clients
        BY <3>1 DEF Registered, TypeInv, TypeOK, ListsType
      <4>2. mem[client_list[id]] = "live"
        BY <4>1 DEF ListInv, FreeListExact
      <4> QED BY <2>6, <3>1, <4>1, <4>2 DEF terminateClient
    <3>2. CASE ~Registered(id)
      BY <2>6, <3>2 DEF terminateClient
    <3> QED BY <3>1, <3>2
  <2> QED BY <2>1, <2>2, <2>3, <2>4, <2>5, <2>6 DEF ThreadNext
<1>3. mem \in [Clients -> {"unborn", "live", "freed"}]
  BY DEF TypeInv, TypeOK, ObjectsType
<1> QED BY <1>1, <1>2, <1>3 DEF LivesOn

\* What a step takes from one party and gives to another.
Custody(t) == Known' /\ \A c \in Clients : mem[c] = "live" /\ Alone(c) => Passes(t, c)

LEMMA HarmlessCustody ==
  ASSUME TypeInv, Known, NEW t \in Threads, OthersIdle(t), LivesOn, Harmless(t)
  PROVE  Custody(t)
  BY HarmlessKnown, HarmlessPasses DEF Custody

LEMMA CustodyIntegers ==
  ASSUME TypeInv, NEW c \in Clients
  PROVE  /\ InKernelOf(c) \in Nat /\ Cardinality(Entries(c)) \in Nat
         /\ assembling \in [Workers -> Seq(Nat)] /\ cid[c] \in Nat
         /\ Entries(c) = EntriesOf(assembling, cid[c])
<1>1. /\ assembling \in [Workers -> Seq(Nat)] /\ cid[c] \in Nat
      /\ Entries(c) = EntriesOf(assembling, cid[c])
  BY DEF TypeInv, TypeOK, QueuesType, ObjectsType, Entries, EntriesOf
<1> QED BY <1>1, KernelInteger, EntriesFinite

LEMMA DequeueCustody ==
  ASSUME TypeInv, Known, OthersIdle(Listener), LivesOn,
         NEW d \in Clients, NEW k \in Kinds, Dequeue(d, k)
  PROVE  Custody(Listener)
<1> USE Thread, ClientsAssumption, ThreadsAssumption DEF Dequeue, Goto
<1>0. ThreadsType /\ ControlAt(Listener) /\ KernelType
  BY DEF TypeInv, TypeOK, ControlOK
<1>1. /\ ptr'[Listener] = d /\ outer'[Listener] = outer[Listener] /\ outer[Listener] = NoClient
      /\ fn'[Listener] = k /\ pc'[Listener] = "dispatch"
      /\ job' = job /\ assembling' = assembling /\ cid' = cid /\ rx' = rx /\ tx' = tx
  BY <1>0 DEF ThreadsType, ControlAt, objects, queues
<1>2. \A c \in Clients, j \in Kinds :
        packets'[c][j] = packets[c][j] - (IF c = d /\ j = k THEN 1 ELSE 0) /\ packets[c][j] \in Nat
  BY <1>0 DEF KernelType
<1>3. packets[d][k] > 0
  OBVIOUS
<1> HIDE DEF Dequeue, Goto
<1>4. mem[d] # "unborn"
  BY <1>3 DEF Known, Untouched
<1>5. Known'
  <2>1. \A c \in Clients : mem[c] = "unborn" =>
           /\ rx'[c] = 0 /\ tx'[c] = 0 /\ \A j \in Kinds : packets'[c][j] = 0
           /\ ptr'[Listener] # c /\ outer'[Listener] # c
    <3> SUFFICES ASSUME NEW c \in Clients, mem[c] = "unborn"
                 PROVE  /\ rx'[c] = 0 /\ tx'[c] = 0 /\ \A j \in Kinds : packets'[c][j] = 0
                        /\ ptr'[Listener] # c /\ outer'[Listener] # c
      OBVIOUS
    <3>1. Untouched(c) /\ c # d
      BY <1>4 DEF Known
    <3>2. \A j \in Kinds : packets'[c][j] = 0
      BY <1>2, <3>1 DEF Untouched
    <3> QED BY <1>1, <3>1, <3>2 DEF Untouched
  <2>2. \A w \in Workers : \A i \in DOMAIN assembling'[w] : IdKnown(assembling'[w][i])
    BY <1>1 DEF Known
  <2> QED BY <1>1, <2>1, <2>2, KnownStep
<1>6. ASSUME NEW c \in Clients PROVE Passes(Listener, c)
  <2>1. ~Receiving(Listener, c)
    <3>1. pc[Listener] = "idle" /\ ptr[Listener] = NoClient
      BY <1>0 DEF Dequeue, ControlAt
    <3> QED BY <1>0, <1>1, <3>1 DEF Receiving, ControlAt
  <2>2. Receiving(Listener, c)' => c = d /\ k \in {"data", "closed"}
    BY <1>1 DEF Receiving, Kinds
  <2>3. /\ InKernelOf(c)' = rx[c] + packets'[c]["data"] + packets'[c]["closed"]
        /\ Cardinality(Entries(c)') = Cardinality(Entries(c))
    BY <1>1 DEF InKernelOf, Entries
  <2>4. rx[c] \in Nat
    BY <1>0 DEF KernelType
  <2>5. InKernelOf(c)' + Has(Listener, c)' <= InKernelOf(c)
    <3>1. CASE c = d /\ k \in {"data", "closed"}
      BY <1>2, <1>3, <2>3, <2>4, <3>1 DEF InKernelOf, Has, Kinds
    <3>2. CASE ~(c = d /\ k \in {"data", "closed"})
      BY <1>2, <2>2, <2>3, <2>4, <3>2 DEF InKernelOf, Has, Kinds
    <3> QED BY <3>1, <3>2
  <2>6. Has(Listener, c) = 0 /\ Has(Listener, c)' \in Nat /\ InKernelOf(c)' \in Int
    BY <1>2, <2>1, <2>3, <2>4 DEF Has, Kinds
  <2>7. InKernelOf(c)' + Cardinality(Entries(c)') + Has(Listener, c)'
          <= InKernelOf(c) + Cardinality(Entries(c)) + Has(Listener, c)
    BY <2>3, <2>5, <2>6, CustodyIntegers
  <2> QED BY <1>1, <2>7 DEF Passes
<1> QED BY <1>5, <1>6 DEF Custody

LEMMA PushToAssemblerCustody ==
  ASSUME TypeInv, Known, OthersIdle(Listener), LivesOn, PushToAssembler
  PROVE  Custody(Listener)
<1> USE Thread, ClientsAssumption, ThreadsAssumption
<1>0. ThreadsType /\ ControlAt(Listener) /\ ObjectsType /\ QueuesType
  BY DEF TypeInv, TypeOK, ControlOK
<1>1. PICK d \in Clients : d = ptr[Listener]
  BY <1>0 DEF PushToAssembler, ControlAt, ThreadsType
<1> DEFINE v == (cid[d] - 1) % NumWorkers
<1>2. v \in Workers
  <2>1. cid[d] - 1 \in Int
    BY <1>0 DEF ObjectsType
  <2> QED BY <2>1 DEF Workers
<1>3. /\ ptr'[Listener] = NoClient /\ outer'[Listener] = outer[Listener] /\ outer[Listener] = NoClient
      /\ fn'[Listener] = "none" /\ job' = job /\ UNCHANGED <<rx, tx, packets>> /\ cid' = cid
      /\ pc[Listener] = "handle" /\ fn[Listener] = "data"
      /\ assembling' = [assembling EXCEPT ![v] = Append(@, cid[d])]
  BY <1>0, <1>1 DEF PushToAssembler, NotifyWorker, Finish, ThreadsType, ControlAt, kernel
<1>4. assembling \in [Workers -> Seq(Nat)] /\ cid \in [Clients -> Nat]
  BY <1>0 DEF QueuesType, ObjectsType
<1>5. IdKnown(cid[d])
  BY <1>1 DEF Known, Untouched, IdKnown
<1> HIDE DEF v
<1>6. \A w \in Workers : \A i \in DOMAIN assembling'[w] : IdKnown(assembling'[w][i])
  <2> SUFFICES ASSUME NEW w \in Workers, NEW i \in DOMAIN assembling'[w]
               PROVE  IdKnown(assembling'[w][i])
    OBVIOUS
  <2>1. CASE w # v
    <3>1. assembling'[w] = assembling[w]
      BY <1>3, <1>4, <2>1
    <3> QED BY <3>1 DEF Known
  <2>2. CASE w = v
    <3>1. assembling[v] \in Seq(Nat) /\ assembling'[v] = Append(assembling[v], cid[d]) /\ cid[d] \in Nat
      BY <1>2, <1>3, <1>4
    <3>2. /\ Len(assembling[v]) \in Nat /\ DOMAIN assembling[v] = 1 .. Len(assembling[v])
          /\ DOMAIN assembling'[v] = 1 .. Len(assembling[v]) + 1
      BY <3>1, AppendProperties, LenProperties
    <3>3. CASE i = Len(assembling[v]) + 1
      <4>1. assembling'[w][i] = cid[d]
        BY <2>2, <3>1, <3>3, AppendProperties
      <4> QED BY <1>5, <4>1
    <3>4. CASE i # Len(assembling[v]) + 1
      <4>1. i \in 1 .. Len(assembling[v])
        BY <2>2, <3>2, <3>4
      <4>2. assembling'[w][i] = assembling[w][i] /\ i \in DOMAIN assembling[w]
        BY <2>2, <3>1, <3>2, <4>1, AppendProperties
      <4> QED BY <4>2 DEF Known
    <3> QED BY <3>3, <3>4
  <2> QED BY <2>1, <2>2
<1>7. Known'
  <2>1. \A c \in Clients : mem[c] = "unborn" =>
           /\ rx'[c] = 0 /\ tx'[c] = 0 /\ \A j \in Kinds : packets'[c][j] = 0
           /\ ptr'[Listener] # c /\ outer'[Listener] # c
    BY <1>3 DEF Known, Untouched
  <2> QED BY <1>3, <1>6, <2>1, KnownStep
<1>8. ASSUME NEW c \in Clients, Alone(c) PROVE Passes(Listener, c)
  <2>1. InKernelOf(c)' = InKernelOf(c) /\ Has(Listener, c)' = 0
    BY <1>3 DEF InKernelOf, Has, Receiving
  <2>2. Has(Listener, c) = IF c = d THEN 1 ELSE 0
    BY <1>1, <1>3 DEF Has, Receiving
  <2>3. Entries(c) = EntriesOf(assembling, cid[c]) /\ Entries(c)' = EntriesOf(assembling', cid[c])
    BY <1>3 DEF Entries, EntriesOf
  <2>4. Cardinality(Entries(c)') <= Cardinality(Entries(c)) + (IF cid[d] = cid[c] THEN 1 ELSE 0)
    BY <1>2, <1>3, <1>4, <2>3, EntriesAppended
  <2>5. cid[d] = cid[c] => c = d
    BY <1>1, <1>8 DEF Known, Untouched, Alone
  <2>6. assembling' \in [Workers -> Seq(Nat)]
    BY <1>2, <1>3, <1>4, AppendProperties
  <2>7. Cardinality(Entries(c)') \in Nat
    BY <2>3, <2>6, EntriesFinite
  <2>8. InKernelOf(c)' + Cardinality(Entries(c)') + Has(Listener, c)'
          <= InKernelOf(c) + Cardinality(Entries(c)) + Has(Listener, c)
    BY <2>1, <2>2, <2>4, <2>5, <2>7, CustodyIntegers
  <2> QED BY <1>3, <2>8 DEF Passes
<1> QED BY <1>7, <1>8 DEF Custody

LEMMA PopClientIdCustody ==
  ASSUME TypeInv, Known, NEW w \in Workers, OthersIdle(w), LivesOn, PopClientId(w)
  PROVE  Custody(w)
<1> USE Thread, ClientsAssumption, ThreadsAssumption
<1>0. ThreadsType /\ ControlAt(w) /\ QueuesType
  BY DEF TypeInv, TypeOK, ControlOK
<1>1. /\ ptr'[w] = NoClient /\ outer'[w] = outer[w] /\ outer[w] = NoClient
      /\ ptr[w] = NoClient /\ fn[w] = "none" /\ pc[w] = "idle"
      /\ fn'[w] = "worker" /\ pc'[w] = "getClient"
      /\ UNCHANGED <<rx, tx, packets>> /\ cid' = cid
      /\ job'[w].id = Head(assembling[w]) /\ \A u \in Threads \ {w} : job'[u] = job[u]
      /\ assembling[w] # <<>> /\ assembling' = [assembling EXCEPT ![w] = Tail(@)]
  BY <1>0 DEF PopClientId, Goto, ThreadsType, ControlAt, kernel, objects
<1>2. /\ assembling[w] \in Seq(Nat) /\ assembling \in [Workers -> Seq(Nat)]
      /\ assembling'[w] = Tail(assembling[w])
      /\ \A v \in Workers \ {w} : assembling'[v] = assembling[v]
  BY <1>0, <1>1 DEF QueuesType
<1>3. /\ Tail(assembling[w]) \in Seq(Nat) /\ Len(Tail(assembling[w])) = Len(assembling[w]) - 1
      /\ \A i \in 1 .. Len(Tail(assembling[w])) : Tail(assembling[w])[i] = assembling[w][i + 1]
  BY <1>1, <1>2, HeadTailProperties
<1>4. /\ DOMAIN Tail(assembling[w]) = 1 .. Len(Tail(assembling[w]))
      /\ DOMAIN assembling[w] = 1 .. Len(assembling[w])
      /\ Len(assembling[w]) \in Nat /\ Len(assembling[w]) # 0 /\ Head(assembling[w]) = assembling[w][1]
  BY <1>1, <1>2, <1>3, LenProperties, EmptySeq
<1>5. IdKnown(Head(assembling[w]))
  BY <1>4 DEF Known
<1>6. \A v \in Workers : \A i \in DOMAIN assembling'[v] : IdKnown(assembling'[v][i])
  <2> SUFFICES ASSUME NEW v \in Workers, NEW i \in DOMAIN assembling'[v]
               PROVE  IdKnown(assembling'[v][i])
    OBVIOUS
  <2>1. CASE v # w
    BY <1>2, <2>1 DEF Known
  <2>2. CASE v = w
    <3>1. i \in 1 .. Len(Tail(assembling[w]))
      BY <1>2, <1>4, <2>2
    <3>2. assembling'[v][i] = assembling[w][i + 1]
      BY <1>2, <1>3, <2>2, <3>1
    <3>3. i + 1 \in DOMAIN assembling[w]
      BY <1>3, <1>4, <3>1
    <3> QED BY <3>2, <3>3 DEF Known
  <2> QED BY <2>1, <2>2
<1>7. Known'
  <2>1. \A c \in Clients : mem[c] = "unborn" =>
           /\ rx'[c] = 0 /\ tx'[c] = 0 /\ \A j \in Kinds : packets'[c][j] = 0
           /\ ptr'[w] # c /\ outer'[w] # c
    BY <1>1 DEF Known, Untouched
  <2> QED BY <1>1, <1>5, <1>6, <2>1, KnownStep
<1>8. ASSUME NEW c \in Clients PROVE Passes(w, c)
  <2>1. InKernelOf(c)' = InKernelOf(c) /\ Has(w, c) = 0
    BY <1>1 DEF InKernelOf, Has, Receiving
  <2>2. Has(w, c)' = IF Head(assembling[w]) = cid[c] THEN 1 ELSE 0
    BY <1>1 DEF Has, Receiving
  <2>3. Entries(c) = EntriesOf(assembling, cid[c]) /\ Entries(c)' = EntriesOf(assembling', cid[c])
    BY <1>1 DEF Entries, EntriesOf
  <2>4. Cardinality(Entries(c)') <= Cardinality(Entries(c)) - (IF Head(assembling[w]) = cid[c] THEN 1 ELSE 0)
    BY <1>1, <1>2, <2>3, EntriesPopped, CustodyIntegers, ZenonT(30)
  <2>5. assembling' \in [Workers -> Seq(Nat)]
    BY <1>1, <1>2, <1>3
  <2>6. Cardinality(Entries(c)') \in Nat
    BY <2>3, <2>5, EntriesFinite
  <2>7. InKernelOf(c)' + Cardinality(Entries(c)') + Has(w, c)'
          <= InKernelOf(c) + Cardinality(Entries(c)) + Has(w, c)
    BY <2>1, <2>2, <2>4, <2>6, CustodyIntegers
  <2> QED BY <1>1, <2>7 DEF Passes
<1> QED BY <1>7, <1>8 DEF Custody

LEMMA postReceiveEventCustody ==
  ASSUME TypeInv, Known, NEW t \in Threads, OthersIdle(t), LivesOn, postReceiveEvent(t)
  PROVE  Custody(t)
<1> USE Thread, ClientsAssumption, ThreadsAssumption
<1>0. ThreadsType /\ ControlAt(t) /\ KernelType
  BY DEF TypeInv, TypeOK, ControlOK
<1>1. PICK d \in Clients : d = ptr[t]
  BY <1>0 DEF postReceiveEvent, ControlAt, ThreadsType
<1>2. /\ ptr' = ptr /\ outer' = outer /\ outer[t] = NoClient /\ fn' = fn
      /\ pc[t] = "post" /\ fn[t] \in {"accept", "worker"}
      /\ job' = job /\ assembling' = assembling /\ cid' = cid /\ tx' = tx /\ packets' = packets
      /\ \/ pc'[t] = "posted" /\ rx' = [rx EXCEPT ![d] = @ + 1]
         \/ pc'[t] = "failed" /\ rx' = rx
  BY <1>0, <1>1 DEF postReceiveEvent, Goto, ThreadsType, ControlAt, objects, queues
<1>3. mem[d] # "unborn"
  BY <1>1 DEF Known, Untouched
<1>4. rx \in [Clients -> Nat]
  BY <1>0 DEF KernelType
<1>5. Known'
  <2>1. \A c \in Clients : mem[c] = "unborn" =>
           /\ rx'[c] = 0 /\ tx'[c] = 0 /\ \A j \in Kinds : packets'[c][j] = 0
           /\ ptr'[t] # c /\ outer'[t] # c
    BY <1>2, <1>3, <1>4 DEF Known, Untouched
  <2>2. \A w \in Workers : \A i \in DOMAIN assembling'[w] : IdKnown(assembling'[w][i])
    BY <1>2 DEF Known
  <2> QED BY <1>2, <2>1, <2>2, KnownStep
<1>6. ASSUME NEW c \in Clients PROVE Passes(t, c)
  <2>1. Has(t, c) = IF c = d THEN 1 ELSE 0
    BY <1>1, <1>2 DEF Has, Receiving
  <2>2. Entries(c)' = Entries(c)
    BY <1>2 DEF Entries
  <2>3. packets[c]["data"] \in Nat /\ packets[c]["closed"] \in Nat
    BY <1>0 DEF KernelType, Kinds
  <2>4. InKernelOf(c)' + Has(t, c)' <= InKernelOf(c) + Has(t, c)
    <3>1. CASE pc'[t] = "posted" /\ rx' = [rx EXCEPT ![d] = @ + 1]
      <4>1. Has(t, c)' = 0
        BY <1>2, <3>1 DEF Has, Receiving
      <4>2. rx'[c] = rx[c] + (IF c = d THEN 1 ELSE 0) /\ rx[c] \in Nat
        BY <1>4, <3>1
      <4> QED BY <1>2, <2>1, <2>3, <4>1, <4>2 DEF InKernelOf
    <3>2. CASE pc'[t] = "failed" /\ rx' = rx
      <4>1. Has(t, c)' = IF c = d THEN 1 ELSE 0
        BY <1>1, <1>2, <3>2 DEF Has, Receiving
      <4> QED BY <1>2, <1>4, <2>1, <2>3, <3>2, <4>1 DEF InKernelOf
    <3> QED BY <1>2, <3>1, <3>2
  <2>5. InKernelOf(c)' \in Nat /\ Has(t, c)' \in Nat /\ Has(t, c) \in Nat
    BY <1>2, <1>4, <2>3 DEF InKernelOf, Has
  <2>6. InKernelOf(c)' + Cardinality(Entries(c)') + Has(t, c)'
          <= InKernelOf(c) + Cardinality(Entries(c)) + Has(t, c)
    BY <2>2, <2>4, <2>5, CustodyIntegers
  <2> QED BY <1>2, <2>6 DEF Passes
<1> QED BY <1>5, <1>6 DEF Custody

\* A new client has nobody's id, and is in nobody's custody yet but the listener's.
LEMMA addClientCustody ==
  ASSUME TypeInv, TypeInv', ListInv, Known, OneCustodian, addClient
  PROVE  Known' /\ OneCustodian'
<1> USE Thread, ClientsAssumption, ThreadsAssumption
<1>0. ThreadsType /\ ControlAt(Listener) /\ ObjectsType /\ QueuesType
  BY DEF TypeInv, TypeOK, ControlOK
<1>1. PICK n \in Clients : n = accept
  BY DEF addClient
<1>2. /\ cid' = [cid EXCEPT ![n] = NewPosition] /\ mem' = [mem EXCEPT ![n] = "live"]
      /\ ptr' = [ptr EXCEPT ![Listener] = n]
      /\ UNCHANGED <<rx, tx, packets, assembling, job, outer>>
      /\ fn' = [fn EXCEPT ![Listener] = "accept"] /\ pc' = [pc EXCEPT ![Listener] = "post"]
      /\ pc[Listener] = "idle" /\ ptr[Listener] = NoClient
  BY <1>0, <1>1 DEF addClient, Goto, queues, ControlAt
<1>3. OthersIdle(Listener)
  BY addClientType
<1>4. mem[n] = "unborn" /\ Untouched(n)
  BY <1>1 DEF ListInv, Unborn, Known
<1>5. \A d \in Clients \ {n} : cid'[d] = cid[d] /\ mem'[d] = mem[d]
  BY <1>2 DEF addClient
<1>6. \A m : IdKnown(m) => \E d \in Clients \ {n} : mem[d] # "unborn" /\ cid[d] = m
  BY <1>4 DEF IdKnown
<1>7. \A m : IdKnown(m) => IdKnown(m)'
  BY <1>5, <1>6 DEF IdKnown
<1>8. Known'
  <2>1. ASSUME NEW c \in Clients, mem'[c] = "unborn" PROVE Untouched(c)'
    <3>1. c # n /\ mem[c] = "unborn"
      BY <1>0, <1>2, <1>5, <2>1 DEF ObjectsType
    <3>2. Untouched(c)
      BY <3>1 DEF Known
    <3>3. \A t \in Threads : ptr'[t] # c /\ outer'[t] # c
      BY <1>0, <1>2, <3>1, <3>2 DEF Untouched, ThreadsType
    <3> QED BY <1>2, <3>2, <3>3 DEF Untouched
  <2>2. ASSUME NEW w \in Workers, NEW i \in DOMAIN assembling'[w] PROVE IdKnown(assembling[w][i])'
    <3>1. IdKnown(assembling[w][i]) /\ assembling'[w][i] = assembling[w][i]
      BY <1>2 DEF Known
    <3> QED BY <1>7, <3>1 DEF IdKnown
  <2>3. ASSUME NEW t \in Threads, fn'[t] = "worker" /\ pc'[t] = "getClient" PROVE IdKnown(job[t].id)'
    <3>1. t # Listener
      BY <1>0, <1>2, <2>3 DEF ThreadsType
    <3>2. IdKnown(job[t].id) /\ job'[t].id = job[t].id
      BY <1>2, <1>3, <2>3, <3>1 DEF Known, OthersIdle
    <3> QED BY <1>7, <3>2 DEF IdKnown
  <2> QED BY <2>1, <2>2, <2>3 DEF Known
<1>9. ASSUME NEW c \in Clients, mem'[c] = "live", Alone(c)' PROVE Custodians(c)' <= 1
  <2>1. CASE c = n
    <3>1. InKernelOf(c)' = 0
      BY <1>2, <1>4, <2>1 DEF InKernelOf, Untouched, Kinds
    <3>2. \A m : IdKnown(m) => m # cid'[c]
      <4> SUFFICES ASSUME NEW m, IdKnown(m) PROVE m # cid'[c]
        OBVIOUS
      <4>1. PICK d \in Clients \ {n} : mem[d] # "unborn" /\ cid[d] = m
        BY <1>6
      <4> QED BY <1>5, <1>9, <2>1, <4>1 DEF Alone
    <3>3. Entries(c)' = {}
      <4>1. \A w \in Workers : \A i \in DOMAIN assembling[w] : assembling[w][i] # cid'[c]
        BY <3>2 DEF Known
      <4>2. Entries(c)' = EntriesOf(assembling, cid'[c])
        BY <1>2 DEF Entries, EntriesOf
      <4> QED BY <4>1, <4>2, EntriesAre
    <3>4. {t \in Threads : Receiving(t, c)'} \subseteq {Listener}
      <4> SUFFICES ASSUME NEW t \in Threads, t # Listener, Receiving(t, c)' PROVE FALSE
        OBVIOUS
      <4>1. ptr'[t] # c /\ outer'[t] # c
        BY <1>0, <1>2, <1>4, <2>1 DEF Untouched, ThreadsType
      <4>2. fn[t] = "worker" /\ pc[t] = "getClient" /\ job[t].id = cid'[c]
        BY <1>2, <1>3, <4>1 DEF Receiving, OthersIdle
      <4> QED BY <3>2, <4>2 DEF Known
    <3>5. Cardinality({t \in Threads : Receiving(t, c)'}) <= 1
      <4> DEFINE R == {t \in Threads : Receiving(t, c)'}
      <4>1. R = {} \/ R = {Listener}
        BY <3>4
      <4> HIDE DEF R
      <4>2. Cardinality(R) = 0 \/ Cardinality(R) = 1
        BY <4>1, FS_EmptySet, FS_Singleton
      <4> QED BY <4>2 DEF R
    <3>6. Cardinality({t \in Threads : Receiving(t, c)'}) \in Nat
      <4>1. IsFiniteSet({t \in Threads : Receiving(t, c)'})
        BY ThreadsFinite, FS_Subset
      <4> QED BY <4>1, FS_CardinalityType
    <3>7. Cardinality(Entries(c)') = 0
      BY <3>3, FS_EmptySet
    <3>8. Custodians(c)' = InKernelOf(c)' + Cardinality(Entries(c)')
                           + Cardinality({t \in Threads : Receiving(t, c)'})
      BY DEF Custodians, InKernelOf
    <3> QED BY <3>1, <3>5, <3>6, <3>7, <3>8
  <2>2. CASE c # n
    <3>1. mem[c] = "live" /\ cid'[c] = cid[c]
      BY <1>5, <1>9, <2>2
    <3>2. Alone(c)
      BY <1>4, <1>5, <1>9, <3>1 DEF Alone
    <3>3. Custodians(c) <= 1
      BY <3>1, <3>2 DEF OneCustodian, Alone
    <3>4. Has(Listener, c)' = 0
      BY <1>0, <1>2, <2>2 DEF Has, Receiving, ThreadsType, ControlAt
    <3>5. InKernelOf(c)' = InKernelOf(c) /\ Entries(c)' = Entries(c)
      BY <1>2, <3>1 DEF InKernelOf, Entries
    <3>6. Has(Listener, c) \in Nat
      BY DEF Has
    <3>7. InKernelOf(c)' + Cardinality(Entries(c)') + Has(Listener, c)'
            <= InKernelOf(c) + Cardinality(Entries(c)) + Has(Listener, c)
      BY <3>4, <3>5, <3>6, CustodyIntegers
    <3>8. Passes(Listener, c)
      BY <1>2, <3>1, <3>7 DEF Passes
    <3>9. Custodians(c)' <= Custodians(c)
      BY <1>3, <3>8, PassesStep
    <3>10. Custodians(c)' \in Int /\ Custodians(c) \in Int
      BY CustodiansInteger
    <3> QED BY <3>3, <3>9, <3>10
  <2> QED BY <2>1, <2>2
<1>10. OneCustodian'
  BY <1>9 DEF OneCustodian, Alone
<1> QED BY <1>8, <1>10

LEMMA ThreadNextCustody ==
  ASSUME TypeInv, TypeInv', ListInv, Known, OneCustodian, NEW t \in Threads, ThreadNext(t)
  PROVE  Known' /\ OneCustodian'
<1>0. OthersIdle(t)
  BY ThreadNextType
<1>1. CASE addClient
  BY <1>1, addClientCustody
<1>2. CASE ~addClient
  <2>0. LivesOn
    BY <1>2, OthersLiveOn
  <2>1. ASSUME t = Listener, ListenerNext PROVE Custody(t)
    <3>1. CASE postAcceptExEvent \/ Dispatch \/ HangUp \/ CompleteSend
      BY <1>0, <2>0, <2>1, <3>1, HarmlessCustody, postAcceptExEventHarmless, DispatchHarmless,
         HangUpHarmless, CompleteSendHarmless
    <3>2. CASE PushToAssembler
      BY <1>0, <2>0, <2>1, <3>2, PushToAssemblerCustody
    <3>3. CASE \E c \in Clients, k \in Kinds : Dequeue(c, k)
      BY <1>0, <2>0, <2>1, <3>3, DequeueCustody
    <3> QED BY <1>2, <2>1, <3>1, <3>2, <3>3 DEF ListenerNext
  <2>2. ASSUME t \in Workers, WorkerNext(t) PROVE Custody(t)
    <3>1. CASE PopClientId(t)
      BY <1>0, <2>0, <2>2, <3>1, PopClientIdCustody
    <3>2. CASE Feed(t) \/ createRequest(t) \/ DisconnectFaulty(t)
      BY <1>0, <2>0, <2>2, <3>2, HarmlessCustody, FeedHarmless, createRequestHarmless,
         DisconnectFaultyHarmless
    <3> QED BY <2>2, <3>1, <3>2 DEF WorkerNext
  <2>3. ASSUME t \in Apps, NextRequest(t) PROVE Custody(t)
    BY <1>0, <2>0, <2>3, HarmlessCustody, NextRequestHarmless
  <2>4. ASSUME postReceiveEvent(t) PROVE Custody(t)
    BY <1>0, <2>0, <2>4, postReceiveEventCustody
  <2>5. ASSUME getClient(t) \/ Enqueue(t) \/ postSendEvent(t) \/ CountPosted(t) \/ PostFailed(t)
        PROVE  Harmless(t)
    BY <2>5, getClientHarmless, EnqueueHarmless, postSendEventHarmless, CountPostedHarmless,
       PostFailedHarmless
  <2>6. ASSUME DropGuard(t) \/ Release(t) \/ CheckLast(t) \/ terminateClient(t) \/ Unlock(t)
        PROVE  Harmless(t)
    BY <2>6, DropGuardHarmless, ReleaseHarmless, CheckLastHarmless, terminateClientHarmless,
       UnlockHarmless
  <2>7. Harmless(t) => Custody(t)
    BY <1>0, <2>0, HarmlessCustody
  <2>8. Custody(t)
    BY <2>1, <2>2, <2>3, <2>4, <2>5, <2>6, <2>7 DEF ThreadNext
  <2>9. ASSUME NEW c \in Clients, mem'[c] = "live", Alone(c)' PROVE Custodians(c)' <= 1
    <3>1. mem[c] = "live" /\ Alone(c)
      BY <2>0, <2>9 DEF LivesOn, Alone
    <3>2. Custodians(c) <= 1
      BY <3>1 DEF OneCustodian, Alone
    <3>3. Custodians(c)' <= Custodians(c)
      BY <1>0, <2>8, <3>1, PassesStep DEF Custody
    <3>4. Custodians(c)' \in Int /\ Custodians(c) \in Int
      BY CustodiansInteger
    <3> QED BY <3>2, <3>3, <3>4
  <2>10. OneCustodian'
    BY <2>9 DEF OneCustodian, Alone
  <2> QED BY <2>8, <2>10 DEF Custody
<1> QED BY <1>1, <1>2

\* The kernel completes what it holds.
LEMMA KernelNextCustody ==
  ASSUME TypeInv, TypeInv', Known, OneCustodian, KernelNext
  PROVE  Known' /\ OneCustodian'
<1>1. PICK d \in Clients : \/ Connect(d) \/ PeerCloses(d)
                           \/ ReceiveCompletes(d) \/ ReceiveEnds(d) \/ SendCompletes(d)
  BY DEF KernelNext
<1>2. UNCHANGED <<objects, assembling, threads>>
  BY <1>1 DEF Connect, PeerCloses, ReceiveCompletes, ReceiveEnds, SendCompletes, queues
<1>3. /\ rx \in [Clients -> Nat] /\ tx \in [Clients -> Nat] /\ packets \in [Clients -> [Kinds -> Nat]]
  BY DEF TypeInv, TypeOK, KernelType
<1>4. ASSUME NEW c \in Clients
      PROVE  /\ InKernelOf(c)' = InKernelOf(c)
             /\ Untouched(c) => rx'[c] = 0 /\ tx'[c] = 0 /\ \A k \in Kinds : packets'[c][k] = 0
  <2>1. CASE Connect(d) \/ PeerCloses(d)
    BY <2>1 DEF Connect, PeerCloses, InKernelOf, Untouched
  <2>2. CASE ReceiveCompletes(d)
    BY <1>3, <2>2 DEF ReceiveCompletes, InKernelOf, Kinds, Untouched
  <2>3. CASE ReceiveEnds(d)
    BY <1>3, <2>3 DEF ReceiveEnds, InKernelOf, Kinds, Untouched
  <2>4. CASE SendCompletes(d)
    BY <1>3, <2>4 DEF SendCompletes, InKernelOf, Kinds, Untouched
  <2> QED BY <1>1, <2>1, <2>2, <2>3, <2>4
<1>5. Known'
  <2>1. ASSUME NEW c \in Clients, mem'[c] = "unborn" PROVE Untouched(c)'
    BY <1>2, <1>4, <2>1 DEF Known, Untouched, objects, threads
  <2>2. ASSUME NEW w \in Workers, NEW i \in DOMAIN assembling'[w] PROVE IdKnown(assembling[w][i])'
    BY <1>2, <2>2 DEF Known, IdKnown, objects
  <2>3. ASSUME NEW t \in Threads, fn'[t] = "worker" /\ pc'[t] = "getClient" PROVE IdKnown(job[t].id)'
    BY <1>2, <2>3 DEF Known, IdKnown, objects, threads
  <2> QED BY <2>1, <2>2, <2>3 DEF Known
<1>6. ASSUME NEW c \in Clients PROVE Custodians(c)' = Custodians(c)
  <2>1. Entries(c)' = Entries(c) /\ \A t \in Threads : Receiving(t, c)' <=> Receiving(t, c)
    BY <1>2 DEF Entries, Receiving, objects, threads
  <2>2. {t \in Threads : Receiving(t, c)'} = {t \in Threads : Receiving(t, c)}
    BY <2>1
  <2>3. /\ Custodians(c) = InKernelOf(c) + Cardinality(Entries(c))
                           + Cardinality({t \in Threads : Receiving(t, c)})
        /\ Custodians(c)' = InKernelOf(c)' + Cardinality(Entries(c)')
                           + Cardinality({t \in Threads : Receiving(t, c)'})
    BY DEF Custodians, InKernelOf
  <2> QED BY <1>4, <2>1, <2>2, <2>3
<1>7. OneCustodian'
  BY <1>2, <1>6 DEF OneCustodian, objects
<1> QED BY <1>5, <1>7

\* The receive buffer of a client, which no lock protects, is touched by one party at a
\* time, for any number of clients, workers and application threads, as long as the id of
\* the client was nobody else's before it.
THEOREM BufferInOneHand == Spec => []OneCustodian
<1>1. Init => TypeInv /\ ListInv /\ Known /\ OneCustodian
  <2> SUFFICES ASSUME Init PROVE Known /\ OneCustodian
    BY InitType, InitList
  <2>1. \A t \in Threads : pc[t] = "idle" /\ fn[t] = "none" /\ ptr[t] = NoClient /\ outer[t] = NoClient
    BY DEF Init
  <2>2. \A c \in Clients : Untouched(c) /\ mem[c] = "unborn"
    BY <2>1, ClientsAssumption DEF Init, Untouched
  <2>3. \A w \in Workers : assembling[w] = <<>>
    BY DEF Init
  <2> QED BY <2>1, <2>2, <2>3 DEF Known, OneCustodian
<1>2. TypeInv /\ ListInv /\ Known /\ OneCustodian /\ [Next]_vars
        => TypeInv' /\ ListInv' /\ Known' /\ OneCustodian'
  <2> SUFFICES ASSUME TypeInv, ListInv, Known, OneCustodian, [Next]_vars
               PROVE  Known' /\ OneCustodian'
    BY NextType, NextList
  <2>0. TypeInv'
    BY NextType
  <2>1. CASE KernelNext
    BY <2>0, <2>1, KernelNextCustody
  <2>2. ASSUME NEW t \in Threads, ThreadNext(t) PROVE Known' /\ OneCustodian'
    BY <2>0, <2>2, ThreadNextCustody
  <2>3. CASE UNCHANGED vars
    BY <2>3 DEF vars, objects, queues, kernel, threads, Known, Untouched, IdKnown, OneCustodian,
                Custodians, Entries, Receiving
  <2> QED BY <2>1, <2>2, <2>3 DEF Next
<1> QED BY <1>1, <1>2, PTL DEF Spec
==============================================================================
