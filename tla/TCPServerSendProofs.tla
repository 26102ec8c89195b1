------------------------- MODULE TCPServerSendProofs -------------------------
(* Theorems about the output of a client: one send at a time, and none that *)
(* is forgotten, for any number of clients and threads.                     *)
EXTENDS TCPServerProofs

\* Thread t is in the critical section of m_send_mtx of client c.
Section == {"post", "posted", "failed", "unguard", "release", "check", "terminate", "unlock"}
InSend(t, c) == ptr[t] = c /\ fn[t] \in {"send", "sent"} /\ pc[t] \in Section

\* The labels there at which the state of the pipeline is not settled.
Posting == {"post", "posted", "failed"}
SendingAt(t, c, label) == InSend(t, c) /\ pc[t] = label

SendMutex == \A c \in Clients, t \in Threads : InSend(t, c) <=> send_mtx[c] = t

\* A send is in flight, or a thread is about to post it, or there is nothing to
\* send, or the client is disconnecting; m_is_sending is set as soon as the thread
\* has counted the operation.
PipelineAt(c) ==
  /\ InFlight(c) <= 1
  /\ InFlight(c) = 1 =>
       outq[c] # <<>> /\ (is_sending[c] \/ \E t \in Threads : SendingAt(t, c, "posted"))
  /\ \A t \in Threads : SendingAt(t, c, "post") => InFlight(c) = 0 /\ outq[c] # <<>>
  /\ \A t \in Threads : SendingAt(t, c, "posted") => InFlight(c) = 1 \/ disconnecting[c]
  /\ ~disconnecting[c] /\ InFlight(c) = 0 /\ (is_sending[c] \/ outq[c] # <<>>)
       => \E t \in Threads : SendingAt(t, c, "post") \/ SendingAt(t, c, "failed")

PipelineInv == SendMutex /\ \A c \in Clients : PipelineAt(c)

\* A step of thread t that the pipeline of c does not notice, and one that no
\* pipeline and no m_send_mtx notices.
QuietAt(t, c) ==
  /\ outq'[c] = outq[c] /\ is_sending'[c] = is_sending[c]
  /\ disconnecting[c] => disconnecting'[c]
  /\ InFlight(c)' = InFlight(c)
  /\ \A label \in Posting : SendingAt(t, c, label)' <=> SendingAt(t, c, label)
Quiet(t) ==
  /\ send_mtx' = send_mtx
  /\ \A c \in Clients : QuietAt(t, c) /\ (InSend(t, c)' <=> InSend(t, c))

LEMMA OthersSend ==
  ASSUME NEW t \in Threads, OthersIdle(t), NEW c \in Clients, NEW u \in Threads \ {t}
  PROVE  /\ InSend(u, c)' <=> InSend(u, c)
         /\ \A label \in Posting : SendingAt(u, c, label)' <=> SendingAt(u, c, label)
  BY DEF OthersIdle, InSend, SendingAt

LEMMA InFlightType ==
  ASSUME TypeInv, NEW c \in Clients
  PROVE  InFlight(c) \in Nat /\ packets[c]["sent"] \in Nat /\ tx[c] \in Nat
<1>1. packets[c] \in [Kinds -> Nat] /\ tx[c] \in Nat
  BY DEF TypeInv, TypeOK, KernelType
<1>2. packets[c]["sent"] \in Nat
  BY <1>1 DEF Kinds
<1> QED BY <1>1, <1>2 DEF InFlight

LEMMA QuietPipeline ==
  ASSUME NEW t \in Threads, OthersIdle(t), NEW c \in Clients, PipelineAt(c), QuietAt(t, c)
  PROVE  PipelineAt(c)'
<1>1. /\ InFlight(c)' = InFlight(c) /\ outq'[c] = outq[c] /\ is_sending'[c] = is_sending[c]
      /\ disconnecting[c] => disconnecting'[c]
  BY DEF QuietAt
<1>2. ASSUME NEW u \in Threads
      PROVE  /\ SendingAt(u, c, "post")' <=> SendingAt(u, c, "post")
             /\ SendingAt(u, c, "posted")' <=> SendingAt(u, c, "posted")
             /\ SendingAt(u, c, "failed")' <=> SendingAt(u, c, "failed")
  BY OthersSend DEF QuietAt, Posting
<1> HIDE DEF SendingAt, InFlight
<1> QED BY <1>1, <1>2 DEF PipelineAt

LEMMA QuietStep ==
  ASSUME PipelineInv, NEW t \in Threads, OthersIdle(t), Quiet(t)
  PROVE  PipelineInv'
<1>1. ASSUME NEW c \in Clients, NEW u \in Threads PROVE InSend(u, c)' <=> InSend(u, c)
  BY OthersSend DEF Quiet
<1>2. SendMutex'
  BY <1>1 DEF SendMutex, PipelineInv, Quiet
<1> QED BY <1>2, QuietPipeline DEF PipelineInv, Quiet

LEMMA addClientQuiet ==
  ASSUME TypeInv, addClient
  PROVE  Quiet(Listener)
<1> USE Thread, ClientsAssumption, ThreadsAssumption DEF addClient, Goto, queues
<1>0. ThreadsType /\ ControlAt(Listener) /\ disconnecting \in [Clients -> BOOLEAN]
  BY DEF TypeInv, TypeOK, ControlOK, ObjectsType
<1>1. UNCHANGED <<send_mtx, outq, is_sending>>
  OBVIOUS
<1>2. \A c \in Clients : disconnecting[c] => disconnecting'[c]
  BY <1>0
<1>3. \A c \in Clients : InFlight(c)' = InFlight(c)
  BY <1>0 DEF InFlight, ThreadsType, ControlAt
<1>4. ASSUME NEW c \in Clients
      PROVE  /\ InSend(Listener, c)' <=> InSend(Listener, c)
             /\ \A label \in Posting : SendingAt(Listener, c, label)' <=> SendingAt(Listener, c, label)
  BY <1>0 DEF InSend, SendingAt, Section, Posting, ThreadsType, ControlAt
<1> QED BY <1>1, <1>2, <1>3, <1>4 DEF Quiet, QuietAt

LEMMA postAcceptExEventQuiet ==
  ASSUME TypeInv, postAcceptExEvent
  PROVE  Quiet(Listener)
<1> USE Thread, ClientsAssumption, ThreadsAssumption DEF postAcceptExEvent, Finish, objects
<1>0. ThreadsType /\ ControlAt(Listener) /\ disconnecting \in [Clients -> BOOLEAN]
  BY DEF TypeInv, TypeOK, ControlOK, ObjectsType
<1>1. UNCHANGED <<send_mtx, outq, is_sending>>
  OBVIOUS
<1>2. \A c \in Clients : disconnecting[c] => disconnecting'[c]
  BY <1>0
<1>3. \A c \in Clients : InFlight(c)' = InFlight(c)
  BY <1>0 DEF InFlight, ThreadsType, ControlAt
<1>4. ASSUME NEW c \in Clients
      PROVE  /\ InSend(Listener, c)' <=> InSend(Listener, c)
             /\ \A label \in Posting : SendingAt(Listener, c, label)' <=> SendingAt(Listener, c, label)
  BY <1>0 DEF InSend, SendingAt, Section, Posting, ThreadsType, ControlAt
<1> QED BY <1>1, <1>2, <1>3, <1>4 DEF Quiet, QuietAt

LEMMA PushToAssemblerQuiet ==
  ASSUME TypeInv, PushToAssembler
  PROVE  Quiet(Listener)
<1> USE Thread, ClientsAssumption, ThreadsAssumption DEF PushToAssembler, Finish, kernel
<1>0. ThreadsType /\ ControlAt(Listener) /\ disconnecting \in [Clients -> BOOLEAN]
  BY DEF TypeInv, TypeOK, ControlOK, ObjectsType
<1>1. UNCHANGED <<send_mtx, outq, is_sending>>
  OBVIOUS
<1>2. \A c \in Clients : disconnecting[c] => disconnecting'[c]
  BY <1>0
<1>3. \A c \in Clients : InFlight(c)' = InFlight(c)
  BY <1>0 DEF InFlight, ThreadsType, ControlAt
<1>4. ASSUME NEW c \in Clients
      PROVE  /\ InSend(Listener, c)' <=> InSend(Listener, c)
             /\ \A label \in Posting : SendingAt(Listener, c, label)' <=> SendingAt(Listener, c, label)
  BY <1>0 DEF InSend, SendingAt, Section, Posting, ThreadsType, ControlAt
<1> QED BY <1>1, <1>2, <1>3, <1>4 DEF Quiet, QuietAt

LEMMA HangUpQuiet ==
  ASSUME TypeInv, HangUp
  PROVE  Quiet(Listener)
<1> USE Thread, ClientsAssumption, ThreadsAssumption DEF HangUp, Goto, kernel
<1>0. ThreadsType /\ ControlAt(Listener) /\ disconnecting \in [Clients -> BOOLEAN]
  BY DEF TypeInv, TypeOK, ControlOK, ObjectsType
<1>1. UNCHANGED <<send_mtx, outq, is_sending>>
  OBVIOUS
<1>2. \A c \in Clients : disconnecting[c] => disconnecting'[c]
  BY <1>0
<1>3. \A c \in Clients : InFlight(c)' = InFlight(c)
  BY <1>0 DEF InFlight, ThreadsType, ControlAt
<1>4. ASSUME NEW c \in Clients
      PROVE  /\ InSend(Listener, c)' <=> InSend(Listener, c)
             /\ \A label \in Posting : SendingAt(Listener, c, label)' <=> SendingAt(Listener, c, label)
  BY <1>0 DEF InSend, SendingAt, Section, Posting, ThreadsType, ControlAt
<1> QED BY <1>1, <1>2, <1>3, <1>4 DEF Quiet, QuietAt

LEMMA PopClientIdQuiet ==
  ASSUME TypeInv, NEW w \in Workers, PopClientId(w)
  PROVE  Quiet(w)
<1> USE Thread, ClientsAssumption, ThreadsAssumption DEF PopClientId, Goto, objects, kernel
<1>0. ThreadsType /\ ControlAt(w) /\ disconnecting \in [Clients -> BOOLEAN]
  BY DEF TypeInv, TypeOK, ControlOK, ObjectsType
<1>1. UNCHANGED <<send_mtx, outq, is_sending>>
  OBVIOUS
<1>2. \A c \in Clients : disconnecting[c] => disconnecting'[c]
  BY <1>0
<1>3. \A c \in Clients : InFlight(c)' = InFlight(c)
  BY <1>0 DEF InFlight, ThreadsType, ControlAt
<1>4. ASSUME NEW c \in Clients
      PROVE  /\ InSend(w, c)' <=> InSend(w, c)
             /\ \A label \in Posting : SendingAt(w, c, label)' <=> SendingAt(w, c, label)
  BY <1>0 DEF InSend, SendingAt, Section, Posting, ThreadsType, ControlAt
<1> QED BY <1>1, <1>2, <1>3, <1>4 DEF Quiet, QuietAt

LEMMA NextRequestQuiet ==
  ASSUME TypeInv, NEW a \in Apps, NextRequest(a)
  PROVE  Quiet(a)
<1> USE Thread, ClientsAssumption, ThreadsAssumption DEF NextRequest, Goto, objects, kernel
<1>0. ThreadsType /\ ControlAt(a) /\ disconnecting \in [Clients -> BOOLEAN]
  BY DEF TypeInv, TypeOK, ControlOK, ObjectsType
<1>1. UNCHANGED <<send_mtx, outq, is_sending>>
  OBVIOUS
<1>2. \A c \in Clients : disconnecting[c] => disconnecting'[c]
  BY <1>0
<1>3. \A c \in Clients : InFlight(c)' = InFlight(c)
  BY <1>0 DEF InFlight, ThreadsType, ControlAt
<1>4. ASSUME NEW c \in Clients
      PROVE  /\ InSend(a, c)' <=> InSend(a, c)
             /\ \A label \in Posting : SendingAt(a, c, label)' <=> SendingAt(a, c, label)
  BY <1>0 DEF InSend, SendingAt, Section, Posting, ThreadsType, ControlAt
<1> QED BY <1>1, <1>2, <1>3, <1>4 DEF Quiet, QuietAt

LEMMA getClientQuiet ==
  ASSUME TypeInv, NEW t \in Threads, getClient(t)
  PROVE  Quiet(t)
<1> USE Thread, ClientsAssumption, ThreadsAssumption DEF getClient, Goto, Finish, ReturnFromSend, objects, kernel
<1>0. ThreadsType /\ ControlAt(t) /\ disconnecting \in [Clients -> BOOLEAN]
  BY DEF TypeInv, TypeOK, ControlOK, ObjectsType
<1>1. UNCHANGED <<send_mtx, outq, is_sending>>
  OBVIOUS
<1>2. \A c \in Clients : disconnecting[c] => disconnecting'[c]
  BY <1>0
<1>3. \A c \in Clients : InFlight(c)' = InFlight(c)
  BY <1>0 DEF InFlight, ThreadsType, ControlAt
<1>4. ASSUME NEW c \in Clients
      PROVE  /\ InSend(t, c)' <=> InSend(t, c)
             /\ \A label \in Posting : SendingAt(t, c, label)' <=> SendingAt(t, c, label)
  BY <1>0 DEF InSend, SendingAt, Section, Posting, ThreadsType, ControlAt
<1> QED BY <1>1, <1>2, <1>3, <1>4 DEF Quiet, QuietAt

LEMMA FeedQuiet ==
  ASSUME TypeInv, NEW w \in Workers, Feed(w)
  PROVE  Quiet(w)
<1> USE Thread, ClientsAssumption, ThreadsAssumption DEF Feed, Goto, kernel
<1>0. ThreadsType /\ ControlAt(w) /\ disconnecting \in [Clients -> BOOLEAN]
  BY DEF TypeInv, TypeOK, ControlOK, ObjectsType
<1>1. UNCHANGED <<send_mtx, outq, is_sending>>
  OBVIOUS
<1>2. \A c \in Clients : disconnecting[c] => disconnecting'[c]
  BY <1>0
<1>3. \A c \in Clients : InFlight(c)' = InFlight(c)
  BY <1>0 DEF InFlight, ThreadsType, ControlAt
<1>4. ASSUME NEW c \in Clients
      PROVE  /\ InSend(w, c)' <=> InSend(w, c)
             /\ \A label \in Posting : SendingAt(w, c, label)' <=> SendingAt(w, c, label)
  BY <1>0 DEF InSend, SendingAt, Section, Posting, ThreadsType, ControlAt
<1> QED BY <1>1, <1>2, <1>3, <1>4 DEF Quiet, QuietAt

LEMMA createRequestQuiet ==
  ASSUME TypeInv, NEW w \in Workers, createRequest(w)
  PROVE  Quiet(w)
<1> USE Thread, ClientsAssumption, ThreadsAssumption DEF createRequest, Goto, objects, kernel
<1>0. ThreadsType /\ ControlAt(w) /\ disconnecting \in [Clients -> BOOLEAN]
  BY DEF TypeInv, TypeOK, ControlOK, ObjectsType
<1>1. UNCHANGED <<send_mtx, outq, is_sending>>
  OBVIOUS
<1>2. \A c \in Clients : disconnecting[c] => disconnecting'[c]
  BY <1>0
<1>3. \A c \in Clients : InFlight(c)' = InFlight(c)
  BY <1>0 DEF InFlight, ThreadsType, ControlAt
<1>4. ASSUME NEW c \in Clients
      PROVE  /\ InSend(w, c)' <=> InSend(w, c)
             /\ \A label \in Posting : SendingAt(w, c, label)' <=> SendingAt(w, c, label)
  BY <1>0 DEF InSend, SendingAt, Section, Posting, ThreadsType, ControlAt
<1> QED BY <1>1, <1>2, <1>3, <1>4 DEF Quiet, QuietAt

LEMMA DisconnectFaultyQuiet ==
  ASSUME TypeInv, NEW w \in Workers, DisconnectFaulty(w)
  PROVE  Quiet(w)
<1> USE Thread, ClientsAssumption, ThreadsAssumption DEF DisconnectFaulty, Goto, kernel
<1>0. ThreadsType /\ ControlAt(w) /\ disconnecting \in [Clients -> BOOLEAN]
  BY DEF TypeInv, TypeOK, ControlOK, ObjectsType
<1>1. UNCHANGED <<send_mtx, outq, is_sending>>
  OBVIOUS
<1>2. \A c \in Clients : disconnecting[c] => disconnecting'[c]
  BY <1>0
<1>3. \A c \in Clients : InFlight(c)' = InFlight(c)
  BY <1>0 DEF InFlight, ThreadsType, ControlAt
<1>4. ASSUME NEW c \in Clients
      PROVE  /\ InSend(w, c)' <=> InSend(w, c)
             /\ \A label \in Posting : SendingAt(w, c, label)' <=> SendingAt(w, c, label)
  BY <1>0 DEF InSend, SendingAt, Section, Posting, ThreadsType, ControlAt
<1> QED BY <1>1, <1>2, <1>3, <1>4 DEF Quiet, QuietAt

LEMMA postReceiveEventQuiet ==
  ASSUME TypeInv, NEW t \in Threads, postReceiveEvent(t)
  PROVE  Quiet(t)
<1> USE Thread, ClientsAssumption, ThreadsAssumption DEF postReceiveEvent, Goto, objects
<1>0. ThreadsType /\ ControlAt(t) /\ disconnecting \in [Clients -> BOOLEAN]
  BY DEF TypeInv, TypeOK, ControlOK, ObjectsType
<1>1. UNCHANGED <<send_mtx, outq, is_sending>>
  OBVIOUS
<1>2. \A c \in Clients : disconnecting[c] => disconnecting'[c]
  BY <1>0
<1>3. \A c \in Clients : InFlight(c)' = InFlight(c)
  BY <1>0 DEF InFlight, ThreadsType, ControlAt
<1>4. ASSUME NEW c \in Clients
      PROVE  /\ InSend(t, c)' <=> InSend(t, c)
             /\ \A label \in Posting : SendingAt(t, c, label)' <=> SendingAt(t, c, label)
  BY <1>0 DEF InSend, SendingAt, Section, Posting, ThreadsType, ControlAt
<1> QED BY <1>1, <1>2, <1>3, <1>4 DEF Quiet, QuietAt

LEMMA DropGuardQuiet ==
  ASSUME TypeInv, NEW t \in Threads, DropGuard(t)
  PROVE  Quiet(t)
<1> USE Thread, ClientsAssumption, ThreadsAssumption DEF DropGuard, Goto, objects, kernel
<1>0. ThreadsType /\ ControlAt(t) /\ disconnecting \in [Clients -> BOOLEAN]
  BY DEF TypeInv, TypeOK, ControlOK, ObjectsType
<1>1. UNCHANGED <<send_mtx, outq, is_sending>>
  OBVIOUS
<1>2. \A c \in Clients : disconnecting[c] => disconnecting'[c]
  BY <1>0
<1>3. \A c \in Clients : InFlight(c)' = InFlight(c)
  BY <1>0 DEF InFlight, ThreadsType, ControlAt
<1>4. ASSUME NEW c \in Clients
      PROVE  /\ InSend(t, c)' <=> InSend(t, c)
             /\ \A label \in Posting : SendingAt(t, c, label)' <=> SendingAt(t, c, label)
  BY <1>0 DEF InSend, SendingAt, Section, Posting, ThreadsType, ControlAt
<1> QED BY <1>1, <1>2, <1>3, <1>4 DEF Quiet, QuietAt

LEMMA ReleaseQuiet ==
  ASSUME TypeInv, NEW t \in Threads, Release(t)
  PROVE  Quiet(t)
<1> USE Thread, ClientsAssumption, ThreadsAssumption DEF Release, Goto, objects, kernel
<1>0. ThreadsType /\ ControlAt(t) /\ disconnecting \in [Clients -> BOOLEAN]
  BY DEF TypeInv, TypeOK, ControlOK, ObjectsType
<1>1. UNCHANGED <<send_mtx, outq, is_sending>>
  OBVIOUS
<1>2. \A c \in Clients : disconnecting[c] => disconnecting'[c]
  BY <1>0
<1>3. \A c \in Clients : InFlight(c)' = InFlight(c)
  BY <1>0 DEF InFlight, ThreadsType, ControlAt
<1>4. ASSUME NEW c \in Clients
      PROVE  /\ InSend(t, c)' <=> InSend(t, c)
             /\ \A label \in Posting : SendingAt(t, c, label)' <=> SendingAt(t, c, label)
  BY <1>0 DEF InSend, SendingAt, Section, Posting, ThreadsType, ControlAt
<1> QED BY <1>1, <1>2, <1>3, <1>4 DEF Quiet, QuietAt

LEMMA CheckLastQuiet ==
  ASSUME TypeInv, NEW t \in Threads, CheckLast(t)
  PROVE  Quiet(t)
<1> USE Thread, ClientsAssumption, ThreadsAssumption DEF CheckLast, Goto, Finish, AfterCheck, objects, kernel
<1>0. ThreadsType /\ ControlAt(t) /\ disconnecting \in [Clients -> BOOLEAN]
  BY DEF TypeInv, TypeOK, ControlOK, ObjectsType
<1>1. UNCHANGED <<send_mtx, outq, is_sending>>
  OBVIOUS
<1>2. \A c \in Clients : disconnecting[c] => disconnecting'[c]
  BY <1>0
<1>3. \A c \in Clients : InFlight(c)' = InFlight(c)
  BY <1>0 DEF InFlight, ThreadsType, ControlAt
<1>4. ASSUME NEW c \in Clients
      PROVE  /\ InSend(t, c)' <=> InSend(t, c)
             /\ \A label \in Posting : SendingAt(t, c, label)' <=> SendingAt(t, c, label)
  BY <1>0 DEF InSend, SendingAt, Section, Posting, ThreadsType, ControlAt
<1> QED BY <1>1, <1>2, <1>3, <1>4 DEF Quiet, QuietAt

LEMMA terminateClientQuiet ==
  ASSUME TypeInv, NEW t \in Threads, terminateClient(t)
  PROVE  Quiet(t)
<1> USE Thread, ClientsAssumption, ThreadsAssumption DEF terminateClient, Goto, Finish, AfterCheck, kernel
<1>0. ThreadsType /\ ControlAt(t) /\ disconnecting \in [Clients -> BOOLEAN]
  BY DEF TypeInv, TypeOK, ControlOK, ObjectsType
<1>1. UNCHANGED <<send_mtx, outq, is_sending>>
  OBVIOUS
<1>2. \A c \in Clients : disconnecting[c] => disconnecting'[c]
  BY <1>0
<1>3. \A c \in Clients : InFlight(c)' = InFlight(c)
  BY <1>0 DEF InFlight, ThreadsType, ControlAt
<1>4. ASSUME NEW c \in Clients
      PROVE  /\ InSend(t, c)' <=> InSend(t, c)
             /\ \A label \in Posting : SendingAt(t, c, label)' <=> SendingAt(t, c, label)
  BY <1>0 DEF InSend, SendingAt, Section, Posting, ThreadsType, ControlAt
<1> QED BY <1>1, <1>2, <1>3, <1>4 DEF Quiet, QuietAt

\* The packet of a send leaves the port and is in the listener's hands.
LEMMA DequeueQuiet ==
  ASSUME TypeInv, NEW d \in Clients, NEW k \in Kinds, Dequeue(d, k)
  PROVE  Quiet(Listener)
<1> USE Thread, ClientsAssumption, ThreadsAssumption
<1>1. ThreadsType /\ ControlAt(Listener) /\ pc[Listener] = "idle"
  BY DEF TypeInv, TypeOK, ControlOK, Dequeue
<1>2. /\ UNCHANGED <<send_mtx, outq, is_sending, disconnecting, tx>>
      /\ fn'[Listener] = k /\ ptr'[Listener] = d /\ pc'[Listener] = "dispatch"
  BY <1>1 DEF Dequeue, objects, Goto, ThreadsType
<1>3. ASSUME NEW c \in Clients PROVE InFlight(c)' = InFlight(c)
  <2>1. packets[c] \in [Kinds -> Nat] /\ packets \in [Clients -> [Kinds -> Nat]] /\ tx[c] \in Nat
    BY DEF TypeInv, TypeOK, KernelType
  <2>2. packets[c]["sent"] \in Nat
    BY InFlightType
  <2>3. packets'[c]["sent"] = packets[c]["sent"] - (IF c = d /\ k = "sent" THEN 1 ELSE 0)
    BY <2>1, <2>2 DEF Dequeue, Kinds
  <2> QED BY <1>1, <1>2, <2>1, <2>2, <2>3 DEF InFlight
<1>4. ASSUME NEW c \in Clients
      PROVE  /\ InSend(Listener, c)' <=> InSend(Listener, c)
             /\ \A label \in Posting : SendingAt(Listener, c, label)' <=> SendingAt(Listener, c, label)
  BY <1>1, <1>2 DEF InSend, SendingAt, Section, Posting
<1> QED BY <1>2, <1>3, <1>4 DEF Quiet, QuietAt

\* The other steps concern the client c that the thread points to.

LEMMA OneHolder ==
  ASSUME SendMutex, NEW c \in Clients, NEW t \in Threads, NEW u \in Threads, u # t,
         InSend(t, c) \/ send_mtx[c] = NoThread
  PROVE  ~InSend(u, c)
  BY ThreadsAssumption DEF SendMutex

LEMMA HolderStep ==
  ASSUME NEW t \in Threads, NEW c \in Clients,
         \A u \in Threads \ {t} : ~InSend(u, c)',
         InFlight(c)' <= 1,
         InFlight(c)' = 1 => outq'[c] # <<>> /\ (is_sending'[c] \/ SendingAt(t, c, "posted")'),
         SendingAt(t, c, "post")' => InFlight(c)' = 0 /\ outq'[c] # <<>>,
         SendingAt(t, c, "posted")' => InFlight(c)' = 1 \/ disconnecting'[c],
         ~disconnecting'[c] /\ InFlight(c)' = 0 /\ (is_sending'[c] \/ outq'[c] # <<>>)
           => SendingAt(t, c, "post")' \/ SendingAt(t, c, "failed")'
  PROVE  PipelineAt(c)'
<1>1. ASSUME NEW u \in Threads \ {t}, NEW label PROVE ~SendingAt(u, c, label)'
  BY DEF SendingAt
<1> HIDE DEF SendingAt, InFlight
<1> QED BY <1>1 DEF PipelineAt

LEMMA MutexStep ==
  ASSUME SendMutex, NEW t \in Threads, OthersIdle(t),
         \A c \in Clients : InSend(t, c)' <=> send_mtx'[c] = t,
         \A c \in Clients : \A u \in Threads \ {t} : send_mtx'[c] = u <=> send_mtx[c] = u
  PROVE  SendMutex'
<1>1. ASSUME NEW c \in Clients, NEW u \in Threads \ {t} PROVE InSend(u, c)' <=> send_mtx'[c] = u
  BY OthersSend DEF SendMutex
<1> QED BY <1>1 DEF SendMutex

\* The completion of the last reference to a client is not handled as a send.
LEMMA DispatchPipeline ==
  ASSUME TypeInv, PipelineInv, Dispatch, OthersIdle(Listener)
  PROVE  PipelineInv'
<1> USE Thread, ClientsAssumption, ThreadsAssumption
<1>1. ThreadsType /\ ControlAt(Listener) /\ pc[Listener] = "dispatch"
  BY DEF TypeInv, TypeOK, ControlOK, Dispatch
<1> DEFINE d == ptr[Listener]
<1>2. d \in Clients /\ fn[Listener] \in Kinds
  BY <1>1 DEF ThreadsType, ControlAt
<1>3. /\ UNCHANGED <<send_mtx, outq, is_sending, disconnecting, tx, packets, ptr>>
      /\ IF LastReference(d) THEN pc'[Listener] = "terminate" /\ fn'[Listener] = "none"
         ELSE pc'[Listener] = "handle" /\ fn'[Listener] = fn[Listener]
  BY <1>1 DEF Dispatch, objects, kernel, Goto, ThreadsType
<1>4. ASSUME NEW c \in Clients
      PROVE  /\ ~InSend(Listener, c) /\ ~InSend(Listener, c)'
             /\ \A label : ~SendingAt(Listener, c, label) /\ ~SendingAt(Listener, c, label)'
  BY <1>1, <1>3 DEF InSend, SendingAt, Section
<1>5. SendMutex'
  BY <1>3, <1>4, MutexStep DEF SendMutex, PipelineInv
<1>6. ASSUME NEW c \in Clients PROVE PipelineAt(c)'
  <2>1. PipelineAt(c) /\ SendMutex
    BY DEF PipelineInv
  <2>2. CASE LastReference(d) /\ fn[Listener] = "sent" /\ c = d
    <3>1. InFlight(c) = tx[c] + packets[c]["sent"] + 1 /\ InFlight(c)' = tx[c] + packets[c]["sent"]
      BY <1>1, <1>2, <1>3, <2>2, InFlightType DEF InFlight
    <3>2. InFlight(c)' = 0 /\ InFlight(c) = 1
      BY <2>1, <3>1, InFlightType DEF PipelineAt
    <3>3. disconnecting'[c]
      BY <1>3, <2>2 DEF LastReference
    <3>4. ASSUME NEW u \in Threads PROVE ~SendingAt(u, c, "post")'
      <4>1. ~SendingAt(u, c, "post")
        BY <2>1, <3>2 DEF PipelineAt
      <4> QED BY <1>4, <4>1, OthersSend DEF Posting
    <3> HIDE DEF SendingAt, InFlight
    <3> QED BY <3>2, <3>3, <3>4 DEF PipelineAt
  <2>3. CASE ~(LastReference(d) /\ fn[Listener] = "sent" /\ c = d)
    <3>1. InFlight(c)' = InFlight(c)
      BY <1>1, <1>3, <2>3 DEF InFlight
    <3>2. QuietAt(Listener, c)
      BY <1>3, <1>4, <3>1 DEF QuietAt
    <3> QED BY <2>1, <3>2, QuietPipeline
  <2> QED BY <2>2, <2>3
<1> QED BY <1>5, <1>6 DEF PipelineInv

\* The buffer that was sent leaves the queue, and the next one is about to be posted.
LEMMA CompleteSendPipeline ==
  ASSUME TypeInv, PipelineInv, CompleteSend, OthersIdle(Listener)
  PROVE  PipelineInv'
<1> USE Thread, ClientsAssumption, ThreadsAssumption
<1>1. ThreadsType /\ ObjectsType /\ ControlAt(Listener) /\ SendMutex
  BY DEF TypeInv, TypeOK, ControlOK, PipelineInv
<1>2. pc[Listener] = "handle" /\ fn[Listener] = "sent"
  BY DEF CompleteSend
<1>3. PICK d \in Clients : d = ptr[Listener] /\ send_mtx[d] = NoThread /\ outq[d] # <<>>
  BY <1>1, <1>2 DEF ThreadsType, ControlAt, CompleteSend
<1>4. /\ UNCHANGED <<disconnecting, tx, packets, ptr, fn>>
      /\ send_mtx' = [send_mtx EXCEPT ![d] = Listener]
      /\ outq' = [outq EXCEPT ![d] = Tail(@)]
      /\ IF MoreToSend(d) THEN pc'[Listener] = "post" /\ is_sending' = is_sending
         ELSE pc'[Listener] = "unlock" /\ is_sending' = [is_sending EXCEPT ![d] = FALSE]
  BY <1>1, <1>2, <1>3 DEF CompleteSend, kernel, Goto, ThreadsType
<1>5. \A c \in Clients : ~InSend(Listener, c) /\ (InSend(Listener, c)' <=> c = d)
  BY <1>1, <1>2, <1>3, <1>4 DEF InSend, Section
<1>6. SendMutex'
  <2>1. \A c \in Clients : InSend(Listener, c)' <=> send_mtx'[c] = Listener
    BY <1>1, <1>3, <1>4, <1>5 DEF ObjectsType, SendMutex
  <2>2. \A c \in Clients : \A u \in Threads \ {Listener} : send_mtx'[c] = u <=> send_mtx[c] = u
    BY <1>1, <1>3, <1>4 DEF ObjectsType
  <2> QED BY <1>1, <2>1, <2>2, MutexStep
<1>7. PipelineAt(d)'
  <2>1. PipelineAt(d)
    BY <1>3 DEF PipelineInv
  <2>2. InFlight(d) = tx[d] + packets[d]["sent"] + 1 /\ InFlight(d)' = tx[d] + packets[d]["sent"]
    BY <1>2, <1>3, <1>4, InFlightType DEF InFlight
  <2>3. InFlight(d)' = 0
    BY <1>3, <2>1, <2>2, InFlightType DEF PipelineAt
  <2>4. ASSUME NEW u \in Threads \ {Listener} PROVE ~InSend(u, d)'
    <3>1. ~InSend(u, d)
      BY <1>1, <1>3 DEF SendMutex
    <3> QED BY <3>1, OthersSend
  <2>5. outq'[d] = Tail(outq[d])
    BY <1>1, <1>3, <1>4 DEF ObjectsType
  <2>6. CASE MoreToSend(d)
    <3>1. SendingAt(Listener, d, "post")' /\ ~SendingAt(Listener, d, "posted")'
      BY <1>3, <1>4, <1>5, <2>6 DEF SendingAt
    <3>2. outq'[d] # <<>>
      BY <2>5, <2>6 DEF MoreToSend
    <3> HIDE DEF SendingAt, InFlight, InSend
    <3> QED BY <1>3, <2>3, <2>4, <3>1, <3>2, HolderStep
  <2>7. CASE ~MoreToSend(d)
    <3>1. ~SendingAt(Listener, d, "post")' /\ ~SendingAt(Listener, d, "posted")'
      BY <1>4, <2>7 DEF SendingAt
    <3>2. outq'[d] = <<>> /\ ~is_sending'[d]
      BY <1>1, <1>3, <1>4, <2>5, <2>7 DEF MoreToSend, ObjectsType
    <3> HIDE DEF SendingAt, InFlight, InSend
    <3> QED BY <1>3, <2>3, <2>4, <3>1, <3>2, HolderStep
  <2> QED BY <2>6, <2>7
<1>8. ASSUME NEW c \in Clients \ {d} PROVE PipelineAt(c)'
  <2>1. InFlight(c)' = InFlight(c)
    BY <1>3, <1>4 DEF InFlight
  <2>2. \A label \in Posting : ~SendingAt(Listener, c, label) /\ ~SendingAt(Listener, c, label)'
    BY <1>5 DEF SendingAt
  <2>3. QuietAt(Listener, c)
    BY <1>1, <1>4, <2>1, <2>2 DEF QuietAt, ObjectsType
  <2>4. PipelineAt(c)
    BY DEF PipelineInv
  <2> QED BY <2>3, <2>4, QuietPipeline
<1> QED BY <1>3, <1>6, <1>7, <1>8 DEF PipelineInv

LEMMA QueuedLength ==
  ASSUME NEW q \in Seq(Buffers), NEW more \in Seq(Buffers)
  PROVE  Len(q \o more) = Len(q) + Len(more) /\ Len(q) \in Nat
  BY ConcatProperties, LenProperties

\* Whoever takes the mutex finds a send in flight, or nothing, or a client that is
\* disconnecting.
LEMMA EnqueuePipeline ==
  ASSUME TypeInv, PipelineInv, NEW t \in Threads, Enqueue(t), OthersIdle(t)
  PROVE  PipelineInv'
<1> USE ClientsAssumption, ThreadsAssumption
<1>1. ThreadsType /\ ObjectsType /\ ControlAt(t) /\ SendMutex
  BY DEF TypeInv, TypeOK, ControlOK, PipelineInv
<1>2. pc[t] = "lock" /\ fn[t] = "send"
  BY <1>1 DEF Enqueue, ControlAt
<1>3. PICK d \in Clients : d = ptr[t] /\ send_mtx[d] = NoThread
  BY <1>1, <1>2 DEF ThreadsType, ControlAt, Enqueue
<1>4. PICK n \in 1 .. MaxChunks :
        outq' = [outq EXCEPT ![d] = @ \o Chunks(t, n)]
  BY <1>3 DEF Enqueue, Queued
<1>5. /\ UNCHANGED <<disconnecting, is_sending, tx, packets, ptr, fn>>
      /\ send_mtx' = [send_mtx EXCEPT ![d] = t]
      /\ pc' = [pc EXCEPT ![t] = IF is_sending[d] THEN "release" ELSE "post"]
  BY <1>3 DEF Enqueue, kernel, Goto, SendInProgress
<1>6. \A c \in Clients : ~InSend(t, c) /\ (InSend(t, c)' <=> c = d)
  BY <1>1, <1>2, <1>3, <1>5 DEF InSend, Section, ThreadsType
<1>7. SendMutex'
  <2>1. \A c \in Clients : InSend(t, c)' <=> send_mtx'[c] = t
    BY <1>1, <1>3, <1>5, <1>6 DEF ObjectsType, SendMutex
  <2>2. \A c \in Clients : \A u \in Threads \ {t} : send_mtx'[c] = u <=> send_mtx[c] = u
    BY <1>1, <1>3, <1>5 DEF ObjectsType
  <2> QED BY <1>1, <2>1, <2>2, MutexStep
<1>8. \A c \in Clients : InFlight(c)' = InFlight(c)
  BY <1>1, <1>2, <1>5 DEF InFlight, OthersIdle, ThreadsType
<1>9. PipelineAt(d)'
  <2>1. PipelineAt(d)
    BY DEF PipelineInv
  <2>2. ASSUME NEW u \in Threads PROVE ~InSend(u, d)
    BY <1>1, <1>3 DEF SendMutex
  <2>3. ASSUME NEW u \in Threads \ {t} PROVE ~InSend(u, d)'
    BY <2>2, OthersSend
  <2>4. outq'[d] # <<>>
    <3>1. outq'[d] = outq[d] \o Chunks(t, n)
      BY <1>1, <1>4 DEF ObjectsType
    <3>2. outq[d] \in Seq(Buffers)
      BY <1>1 DEF ObjectsType
    <3>3. Chunks(t, n) \in Seq(Buffers) /\ Len(Chunks(t, n)) = n /\ n \in Nat \ {0}
      BY <1>1, ChunksType
    <3>4. Len(outq[d] \o Chunks(t, n)) = Len(outq[d]) + n /\ Len(outq[d]) \in Nat
      BY <3>2, <3>3, QueuedLength
    <3> QED BY <3>1, <3>3, <3>4
  <2>5. /\ InFlight(d) <= 1 /\ InFlight(d) \in Nat
        /\ InFlight(d) = 1 => is_sending[d]
        /\ ~disconnecting[d] /\ is_sending[d] => InFlight(d) # 0
    BY <2>1, <2>2, InFlightType DEF PipelineAt, SendingAt
  <2>6. CASE is_sending[d]
    <3>1. ~SendingAt(t, d, "post")' /\ ~SendingAt(t, d, "posted")'
      BY <1>1, <1>5, <2>6 DEF SendingAt, ThreadsType
    <3> HIDE DEF SendingAt, InFlight, InSend
    <3> QED BY <1>5, <1>8, <2>3, <2>4, <2>5, <2>6, <3>1, HolderStep
  <2>7. CASE ~is_sending[d]
    <3>1. SendingAt(t, d, "post")' /\ ~SendingAt(t, d, "posted")'
      BY <1>1, <1>5, <1>6, <2>7 DEF SendingAt, ThreadsType
    <3>2. InFlight(d)' = 0
      BY <1>8, <2>5, <2>7
    <3> HIDE DEF SendingAt, InFlight, InSend
    <3> QED BY <2>3, <2>4, <3>1, <3>2, HolderStep
  <2> QED BY <2>6, <2>7
<1>10. ASSUME NEW c \in Clients \ {d} PROVE PipelineAt(c)'
  <2>1. outq'[c] = outq[c]
    BY <1>1, <1>4 DEF ObjectsType
  <2>2. \A label \in Posting : ~SendingAt(t, c, label) /\ ~SendingAt(t, c, label)'
    BY <1>6 DEF SendingAt
  <2>3. QuietAt(t, c)
    BY <1>5, <1>8, <2>1, <2>2 DEF QuietAt
  <2>4. PipelineAt(c)
    BY DEF PipelineInv
  <2> QED BY <2>3, <2>4, QuietPipeline
<1> QED BY <1>7, <1>9, <1>10 DEF PipelineInv

\* A holder of the mutex posts a send when none is in flight.
LEMMA postSendEventPipeline ==
  ASSUME TypeInv, PipelineInv, NEW t \in Threads, postSendEvent(t), OthersIdle(t)
  PROVE  PipelineInv'
<1> USE ClientsAssumption, ThreadsAssumption
<1>1. ThreadsType /\ ObjectsType /\ ControlAt(t) /\ SendMutex /\ tx \in [Clients -> Nat]
  BY DEF TypeInv, TypeOK, ControlOK, PipelineInv, KernelType
<1>2. pc[t] = "post" /\ fn[t] \in {"send", "sent"}
  BY DEF postSendEvent
<1>3. PICK d \in Clients : d = ptr[t]
  BY <1>1, <1>2 DEF ThreadsType, ControlAt
<1>4. /\ UNCHANGED <<send_mtx, outq, is_sending, disconnecting, packets, ptr, fn>>
      /\ \/ pc' = [pc EXCEPT ![t] = "posted"] /\ tx' = [tx EXCEPT ![d] = @ + 1]
         \/ pc' = [pc EXCEPT ![t] = "failed"] /\ tx' = tx
  BY <1>3 DEF postSendEvent, objects, Goto
<1>5. \A c \in Clients : (InSend(t, c) <=> c = d) /\ (InSend(t, c)' <=> c = d)
  BY <1>1, <1>2, <1>3, <1>4 DEF InSend, Section, ThreadsType
<1>6. SendMutex'
  BY <1>1, <1>4, <1>5, MutexStep DEF SendMutex
<1>7. PipelineAt(d)'
  <2>1. PipelineAt(d)
    BY DEF PipelineInv
  <2>2. ASSUME NEW u \in Threads \ {t} PROVE ~InSend(u, d)'
    <3>1. ~InSend(u, d)
      BY <1>1, <1>5 DEF SendMutex
    <3> QED BY <3>1, OthersSend
  <2>3. SendingAt(t, d, "post")
    BY <1>2, <1>5 DEF SendingAt
  <2>4. InFlight(d) = 0 /\ outq[d] # <<>>
    BY <2>1, <2>3 DEF PipelineAt
  <2>5. CASE pc' = [pc EXCEPT ![t] = "posted"] /\ tx' = [tx EXCEPT ![d] = @ + 1]
    <3>1. InFlight(d)' = 1
      BY <1>1, <1>2, <1>4, <2>4, <2>5, InFlightType DEF InFlight, OthersIdle, ThreadsType
    <3>2. SendingAt(t, d, "posted")' /\ ~SendingAt(t, d, "post")'
      BY <1>1, <1>5, <2>5 DEF SendingAt, ThreadsType
    <3>3. outq'[d] # <<>>
      BY <1>4, <2>4
    <3> HIDE DEF SendingAt, InFlight, InSend
    <3> QED BY <2>2, <3>1, <3>2, <3>3, HolderStep
  <2>6. CASE pc' = [pc EXCEPT ![t] = "failed"] /\ tx' = tx
    <3>1. InFlight(d)' = 0
      BY <1>1, <1>2, <1>4, <2>4, <2>6 DEF InFlight, OthersIdle, ThreadsType
    <3>2. SendingAt(t, d, "failed")' /\ ~SendingAt(t, d, "post")' /\ ~SendingAt(t, d, "posted")'
      BY <1>1, <1>5, <2>6 DEF SendingAt, ThreadsType
    <3> HIDE DEF SendingAt, InFlight, InSend
    <3> QED BY <2>2, <3>1, <3>2, HolderStep
  <2> QED BY <1>4, <2>5, <2>6
<1>8. ASSUME NEW c \in Clients \ {d} PROVE PipelineAt(c)'
  <2>1. InFlight(c)' = InFlight(c)
    <3>1. tx'[c] = tx[c]
      BY <1>1, <1>4
    <3>2. pc'[t] \notin {"dispatch", "handle"}
      BY <1>1, <1>4 DEF ThreadsType
    <3> QED BY <1>2, <1>4, <3>1, <3>2, Thread DEF InFlight, OthersIdle
  <2>2. \A label \in Posting : ~SendingAt(t, c, label) /\ ~SendingAt(t, c, label)'
    BY <1>5 DEF SendingAt
  <2>3. QuietAt(t, c)
    BY <1>4, <2>1, <2>2 DEF QuietAt
  <2>4. PipelineAt(c)
    BY DEF PipelineInv
  <2> QED BY <2>3, <2>4, QuietPipeline
<1> QED BY <1>6, <1>7, <1>8 DEF PipelineInv

\* The send is counted, if it is one, and m_is_sending is set while it is in flight.
LEMMA CountPostedPipeline ==
  ASSUME TypeInv, PipelineInv, NEW t \in Threads, CountPosted(t), OthersIdle(t)
  PROVE  PipelineInv'
<1> USE ClientsAssumption, ThreadsAssumption
<1>1. ThreadsType /\ ObjectsType /\ ControlAt(t) /\ SendMutex
  BY DEF TypeInv, TypeOK, ControlOK, PipelineInv
<1>2. pc[t] = "posted"
  BY DEF CountPosted
<1>3. PICK d \in Clients : d = ptr[t]
  BY <1>1, <1>2 DEF ThreadsType, ControlAt
<1>4. /\ UNCHANGED <<send_mtx, outq, disconnecting, tx, packets, ptr, fn>>
      /\ pc' = [pc EXCEPT ![t] = "unguard"]
      /\ is_sending' = IF fn[t] \in {"send", "sent"} THEN [is_sending EXCEPT ![d] = TRUE]
                       ELSE is_sending
  BY <1>3 DEF CountPosted, kernel, Goto
<1>5. \A c \in Clients : /\ InSend(t, c) <=> c = d /\ fn[t] \in {"send", "sent"}
                         /\ InSend(t, c)' <=> InSend(t, c)
  BY <1>1, <1>2, <1>3, <1>4 DEF InSend, Section, ThreadsType
<1>6. SendMutex'
  BY <1>1, <1>4, <1>5, MutexStep DEF SendMutex
<1>7. \A c \in Clients : InFlight(c)' = InFlight(c)
  BY <1>1, <1>2, <1>4 DEF InFlight, OthersIdle, ThreadsType
<1>8. ASSUME NEW c \in Clients, ~InSend(t, c) PROVE PipelineAt(c)'
  <2>1. is_sending'[c] = is_sending[c]
    BY <1>1, <1>4, <1>5, <1>8 DEF ObjectsType
  <2>2. \A label \in Posting : ~SendingAt(t, c, label) /\ ~SendingAt(t, c, label)'
    BY <1>5, <1>8 DEF SendingAt
  <2>3. QuietAt(t, c)
    BY <1>4, <1>7, <2>1, <2>2 DEF QuietAt
  <2>4. PipelineAt(c)
    BY DEF PipelineInv
  <2> QED BY <2>3, <2>4, QuietPipeline
<1>9. ASSUME NEW c \in Clients, InSend(t, c) PROVE PipelineAt(c)'
  <2>1. PipelineAt(c) /\ InFlight(c) \in Nat
    BY InFlightType DEF PipelineInv
  <2>2. ASSUME NEW u \in Threads \ {t} PROVE ~InSend(u, c) /\ ~InSend(u, c)'
    <3>1. ~InSend(u, c)
      BY <1>1, <1>9 DEF SendMutex
    <3> QED BY <3>1, OthersSend
  <2>3. SendingAt(t, c, "posted")
    BY <1>2, <1>9 DEF SendingAt
  <2>4. InFlight(c) <= 1 /\ (InFlight(c) = 1 \/ disconnecting[c]) /\ (InFlight(c) = 1 => outq[c] # <<>>)
    BY <2>1, <2>3 DEF PipelineAt
  <2>5. is_sending'[c]
    BY <1>1, <1>4, <1>5, <1>9 DEF ObjectsType
  <2>6. ~SendingAt(t, c, "post")' /\ ~SendingAt(t, c, "posted")'
    BY <1>1, <1>4 DEF SendingAt, ThreadsType
  <2> HIDE DEF SendingAt, InFlight, InSend
  <2> QED BY <1>4, <1>7, <2>2, <2>4, <2>5, <2>6, HolderStep
<1> QED BY <1>6, <1>8, <1>9 DEF PipelineInv

\* A post that failed: the client is disconnecting from now on.
LEMMA PostFailedPipeline ==
  ASSUME TypeInv, PipelineInv, NEW t \in Threads, PostFailed(t), OthersIdle(t)
  PROVE  PipelineInv'
<1> USE ClientsAssumption, ThreadsAssumption
<1>1. ThreadsType /\ ObjectsType /\ ControlAt(t) /\ SendMutex
  BY DEF TypeInv, TypeOK, ControlOK, PipelineInv
<1>2. pc[t] = "failed"
  BY DEF PostFailed
<1>3. PICK d \in Clients : d = ptr[t]
  BY <1>1, <1>2 DEF ThreadsType, ControlAt
<1>4. /\ UNCHANGED <<send_mtx, outq, is_sending, tx, packets, ptr, fn>>
      /\ pc' = [pc EXCEPT ![t] = "unguard"]
      /\ disconnecting' = [disconnecting EXCEPT ![d] = TRUE]
  BY <1>3 DEF PostFailed, kernel, Goto
<1>5. \A c \in Clients : /\ InSend(t, c) <=> c = d /\ fn[t] \in {"send", "sent"}
                         /\ InSend(t, c)' <=> InSend(t, c)
  BY <1>1, <1>2, <1>3, <1>4 DEF InSend, Section, ThreadsType
<1>6. SendMutex'
  BY <1>1, <1>4, <1>5, MutexStep DEF SendMutex
<1>7. \A c \in Clients : InFlight(c)' = InFlight(c)
  BY <1>1, <1>2, <1>4 DEF InFlight, OthersIdle, ThreadsType
<1>8. ASSUME NEW c \in Clients, ~InSend(t, c) PROVE PipelineAt(c)'
  <2>1. disconnecting[c] => disconnecting'[c]
    BY <1>1, <1>4 DEF ObjectsType
  <2>2. \A label \in Posting : ~SendingAt(t, c, label) /\ ~SendingAt(t, c, label)'
    BY <1>5, <1>8 DEF SendingAt
  <2>3. QuietAt(t, c)
    BY <1>4, <1>7, <2>1, <2>2 DEF QuietAt
  <2>4. PipelineAt(c)
    BY DEF PipelineInv
  <2> QED BY <2>3, <2>4, QuietPipeline
<1>9. ASSUME NEW c \in Clients, InSend(t, c) PROVE PipelineAt(c)'
  <2>1. PipelineAt(c)
    BY DEF PipelineInv
  <2>2. ASSUME NEW u \in Threads \ {t} PROVE ~InSend(u, c) /\ ~InSend(u, c)'
    <3>1. ~InSend(u, c)
      BY <1>1, <1>9 DEF SendMutex
    <3> QED BY <3>1, OthersSend
  <2>3. \A u \in Threads : ~SendingAt(u, c, "posted")
    BY <1>2, <2>2 DEF SendingAt
  <2>4. InFlight(c) <= 1 /\ (InFlight(c) = 1 => outq[c] # <<>> /\ is_sending[c])
    BY <2>1, <2>3 DEF PipelineAt
  <2>5. disconnecting'[c]
    BY <1>1, <1>4, <1>5, <1>9 DEF ObjectsType
  <2>6. ~SendingAt(t, c, "post")' /\ ~SendingAt(t, c, "posted")'
    BY <1>1, <1>4 DEF SendingAt, ThreadsType
  <2> HIDE DEF SendingAt, InFlight, InSend
  <2> QED BY <1>4, <1>7, <2>2, <2>4, <2>5, <2>6, HolderStep
<1> QED BY <1>6, <1>8, <1>9 DEF PipelineInv

\* The holder that leaves has nothing left to settle.
LEMMA UnlockPipeline ==
  ASSUME TypeInv, PipelineInv, NEW t \in Threads, Unlock(t), OthersIdle(t)
  PROVE  PipelineInv'
<1> USE ClientsAssumption, ThreadsAssumption
<1>1. ThreadsType /\ ObjectsType /\ ControlAt(t) /\ SendMutex
  BY DEF TypeInv, TypeOK, ControlOK, PipelineInv
<1>2. pc[t] = "unlock" /\ fn[t] \in {"send", "sent"}
  BY <1>1 DEF Unlock, ControlAt
<1>3. PICK d \in Clients : d = ptr[t]
  BY <1>1, <1>2 DEF ThreadsType, ControlAt
<1>4. /\ UNCHANGED <<outq, is_sending, disconnecting, tx, packets>>
      /\ send_mtx' = [send_mtx EXCEPT ![d] = NoThread]
      /\ \/ pc'[t] = "idle"
         \/ pc'[t] = "fault" /\ fn'[t] = "worker"
  BY <1>1, <1>3 DEF Unlock, objects, kernel, ReturnFromSend, Finish, ThreadsType
<1>5. \A c \in Clients : (InSend(t, c) <=> c = d) /\ ~InSend(t, c)'
  BY <1>1, <1>2, <1>3, <1>4 DEF InSend, Section
<1>6. SendMutex'
  <2>1. \A c \in Clients : InSend(t, c)' <=> send_mtx'[c] = t
    BY <1>1, <1>4, <1>5 DEF ObjectsType, SendMutex
  <2>2. \A c \in Clients : \A u \in Threads \ {t} : send_mtx'[c] = u <=> send_mtx[c] = u
    BY <1>1, <1>4, <1>5 DEF ObjectsType, SendMutex
  <2> QED BY <1>1, <2>1, <2>2, MutexStep
<1>7. ASSUME NEW c \in Clients PROVE PipelineAt(c)'
  <2>1. InFlight(c)' = InFlight(c)
    BY <1>1, <1>2, <1>4, Thread DEF InFlight, OthersIdle
  <2>2. \A label \in Posting : ~SendingAt(t, c, label) /\ ~SendingAt(t, c, label)'
    BY <1>2, <1>5 DEF SendingAt, Posting
  <2>3. QuietAt(t, c)
    BY <1>4, <2>1, <2>2 DEF QuietAt
  <2>4. PipelineAt(c)
    BY DEF PipelineInv
  <2> QED BY <2>3, <2>4, QuietPipeline
<1> QED BY <1>6, <1>7 DEF PipelineInv

-----------------------------------------------------------------------------
LEMMA ThreadNextPipeline ==
  ASSUME TypeInv, PipelineInv, NEW t \in Threads, ThreadNext(t)
  PROVE  PipelineInv'
<1>0. OthersIdle(t)
  BY ThreadNextType
<1>1. CASE t = Listener /\ ListenerNext
  <2>1. CASE addClient \/ postAcceptExEvent \/ PushToAssembler \/ HangUp
    BY <1>0, <1>1, <2>1, QuietStep, addClientQuiet, postAcceptExEventQuiet,
       PushToAssemblerQuiet, HangUpQuiet
  <2>2. CASE \E c \in Clients, k \in Kinds : Dequeue(c, k)
    BY <1>0, <1>1, <2>2, QuietStep, DequeueQuiet
  <2>3. CASE Dispatch \/ CompleteSend
    BY <1>0, <1>1, <2>3, DispatchPipeline, CompleteSendPipeline
  <2> QED BY <1>1, <2>1, <2>2, <2>3 DEF ListenerNext
<1>2. CASE t \in Workers /\ WorkerNext(t)
  BY <1>0, <1>2, QuietStep, PopClientIdQuiet, FeedQuiet, createRequestQuiet,
     DisconnectFaultyQuiet DEF WorkerNext
<1>3. CASE t \in Apps /\ NextRequest(t)
  BY <1>0, <1>3, QuietStep, NextRequestQuiet
<1>4. CASE getClient(t) \/ postReceiveEvent(t)
  BY <1>0, <1>4, QuietStep, getClientQuiet, postReceiveEventQuiet
<1>5. CASE DropGuard(t) \/ Release(t) \/ CheckLast(t) \/ terminateClient(t)
  BY <1>0, <1>5, QuietStep, DropGuardQuiet, ReleaseQuiet, CheckLastQuiet, terminateClientQuiet
<1>6. CASE \/ Enqueue(t) \/ postSendEvent(t) \/ CountPosted(t) \/ PostFailed(t) \/ Unlock(t)
  BY <1>0, <1>6, EnqueuePipeline, postSendEventPipeline, CountPostedPipeline,
     PostFailedPipeline, UnlockPipeline
<1> QED BY <1>1, <1>2, <1>3, <1>4, <1>5, <1>6 DEF ThreadNext

\* The kernel moves a send from the operations to the packets.
LEMMA KernelInFlight ==
  ASSUME TypeInv, KernelNext, NEW c \in Clients
  PROVE  InFlight(c)' = InFlight(c)
<1>1. PICK d \in Clients : \/ Connect(d) \/ PeerCloses(d)
                           \/ ReceiveCompletes(d) \/ ReceiveEnds(d) \/ SendCompletes(d)
  BY DEF KernelNext
<1>2. UNCHANGED <<pc, fn, ptr>>
  BY <1>1 DEF Connect, PeerCloses, ReceiveCompletes, ReceiveEnds, SendCompletes, threads
<1>3. /\ packets[c] \in [Kinds -> Nat] /\ packets \in [Clients -> [Kinds -> Nat]]
      /\ tx[c] \in Nat /\ tx \in [Clients -> Nat]
  BY DEF TypeInv, TypeOK, KernelType
<1>4. packets[c]["sent"] \in Nat
  BY InFlightType
<1>5. tx'[c] + packets'[c]["sent"] = tx[c] + packets[c]["sent"]
  <2>1. CASE Connect(d) \/ PeerCloses(d)
    BY <2>1 DEF Connect, PeerCloses
  <2>2. CASE ReceiveCompletes(d)
    BY <1>3, <2>2 DEF ReceiveCompletes, Kinds
  <2>3. CASE ReceiveEnds(d)
    BY <1>3, <2>3 DEF ReceiveEnds, Kinds
  <2>4. CASE SendCompletes(d)
    <3>1. tx'[c] = tx[c] - (IF c = d THEN 1 ELSE 0)
      BY <1>3, <2>4 DEF SendCompletes
    <3>2. packets'[c]["sent"] = packets[c]["sent"] + (IF c = d THEN 1 ELSE 0)
      BY <1>3, <1>4, <2>4 DEF SendCompletes, Kinds
    <3> QED BY <1>3, <1>4, <3>1, <3>2
  <2> QED BY <1>1, <2>1, <2>2, <2>3, <2>4
<1> QED BY <1>2, <1>5 DEF InFlight

LEMMA KernelNextPipeline ==
  ASSUME TypeInv, PipelineInv, KernelNext
  PROVE  PipelineInv'
<1>1. PICK d \in Clients : \/ Connect(d) \/ PeerCloses(d)
                           \/ ReceiveCompletes(d) \/ ReceiveEnds(d) \/ SendCompletes(d)
  BY DEF KernelNext
<1>2. UNCHANGED <<outq, is_sending, disconnecting, send_mtx, pc, fn, ptr>>
  BY <1>1 DEF Connect, PeerCloses, ReceiveCompletes, ReceiveEnds, SendCompletes, objects, threads
<1>3. \A c \in Clients : InFlight(c)' = InFlight(c)
  BY KernelInFlight
<1>4. ASSUME NEW c \in Clients, NEW u \in Threads
      PROVE  /\ InSend(u, c)' <=> InSend(u, c)
             /\ \A label : SendingAt(u, c, label)' <=> SendingAt(u, c, label)
  BY <1>2 DEF InSend, SendingAt
<1>5. SendMutex'
  BY <1>2, <1>4 DEF SendMutex, PipelineInv
<1>6. ASSUME NEW c \in Clients PROVE PipelineAt(c)'
  <2>1. PipelineAt(c)
    BY DEF PipelineInv
  <2> HIDE DEF SendingAt, InFlight
  <2> QED BY <1>2, <1>3, <1>4, <2>1 DEF PipelineAt
<1> QED BY <1>5, <1>6 DEF PipelineInv

LEMMA InitPipeline == Init => PipelineInv
<1> SUFFICES ASSUME Init PROVE PipelineInv
  OBVIOUS
<1>1. \A t \in Threads : pc[t] = "idle"
  BY DEF Init
<1>2. \A c \in Clients, t \in Threads : ~InSend(t, c) /\ \A label : ~SendingAt(t, c, label)
  BY <1>1 DEF InSend, SendingAt, Section
<1>3. \A c \in Clients : /\ tx[c] = 0 /\ packets[c]["sent"] = 0 /\ outq[c] = <<>>
                         /\ ~is_sending[c] /\ send_mtx[c] = NoThread
  BY DEF Init, Kinds
<1>4. \A c \in Clients : InFlight(c) = 0
  BY <1>1, <1>3, Thread DEF InFlight
<1>5. SendMutex
  BY <1>2, <1>3, ThreadsAssumption DEF SendMutex
<1>6. \A c \in Clients : PipelineAt(c)
  BY <1>2, <1>3, <1>4 DEF PipelineAt
<1> QED BY <1>5, <1>6 DEF PipelineInv

LEMMA PipelineAlways == Spec => [](TypeInv /\ PipelineInv)
<1>1. Init => TypeInv /\ PipelineInv
  BY InitType, InitPipeline
<1>2. TypeInv /\ PipelineInv /\ [Next]_vars => TypeInv' /\ PipelineInv'
  <2> SUFFICES ASSUME TypeInv, PipelineInv, [Next]_vars PROVE PipelineInv'
    BY NextType
  <2>1. CASE KernelNext
    BY <2>1, KernelNextPipeline
  <2>2. ASSUME NEW t \in Threads, ThreadNext(t) PROVE PipelineInv'
    BY <2>2, ThreadNextPipeline
  <2>3. CASE UNCHANGED vars
    BY <2>3 DEF vars, objects, kernel, threads, PipelineInv, SendMutex, PipelineAt, SendingAt,
                InSend, InFlight
  <2> QED BY <2>1, <2>2, <2>3 DEF Next
<1> QED BY <1>1, <1>2, PTL DEF Spec

\* One send at a time, of the buffer at the head of the queue, whatever the number of
\* threads that call send() for a client while the listener completes its sends.
THEOREM OneSendAtATime == Spec => []SendPipeline
<1>1. TypeInv /\ PipelineInv => SendPipeline
  BY InFlightType DEF PipelineInv, PipelineAt, SendPipeline
<1> QED BY <1>1, PipelineAlways, PTL

\* Queued buffers of a connected client always have a send in flight or a thread in the
\* critical section that will post it.
THEOREM OutputNotStranded == Spec => []NoStrandedOutput
<1>1. ASSUME TypeInv, PipelineInv PROVE NoStrandedOutput
  <2> SUFFICES ASSUME NEW c \in Clients, ~disconnecting[c], outq[c] # <<>>, send_mtx[c] = NoThread
               PROVE  InFlight(c) = 1
    BY DEF NoStrandedOutput
  <2>1. \A t \in Threads : \A label : ~SendingAt(t, c, label)
    BY <1>1, ThreadsAssumption DEF PipelineInv, SendMutex, SendingAt
  <2>2. InFlight(c) \in Nat /\ InFlight(c) <= 1 /\ InFlight(c) # 0
    BY <1>1, <2>1, InFlightType DEF PipelineInv, PipelineAt
  <2> QED BY <2>2
<1> QED BY <1>1, PipelineAlways, PTL

-----------------------------------------------------------------------------
(* The output of a client is an Outbox. *)

\* Only the listener handles completions.
RolesOK == \A t \in Threads \ {Listener} : fn[t] \in {"none", "worker", "send"}

LEMMA RolesStep ==
  ASSUME TypeInv, RolesOK, NEW t \in Threads, ThreadNext(t), OthersIdle(t)
  PROVE  RolesOK'
<1> SUFFICES ASSUME t # Listener PROVE fn'[t] \in {"none", "worker", "send"}
  BY DEF RolesOK, OthersIdle
<1>1. ThreadsType /\ ControlAt(t) /\ fn[t] \in {"none", "worker", "send"}
  BY DEF TypeInv, TypeOK, ControlOK, RolesOK
<1> USE DEF ThreadsType, Goto, Finish, ReturnFromSend, AfterCheck
<1>2. CASE t \in Workers /\ WorkerNext(t)
  BY <1>1, <1>2, Thread DEF WorkerNext, PopClientId, Feed, createRequest, DisconnectFaulty
<1>3. CASE t \in Apps /\ NextRequest(t)
  BY <1>1, <1>3, Thread DEF NextRequest
<1>4. CASE getClient(t) \/ Enqueue(t) \/ Unlock(t)
  BY <1>1, <1>4 DEF getClient, Enqueue, Unlock
<1>5. CASE postReceiveEvent(t) \/ postSendEvent(t) \/ CountPosted(t) \/ PostFailed(t)
  BY <1>1, <1>5 DEF postReceiveEvent, postSendEvent, CountPosted, PostFailed
<1>6. CASE DropGuard(t) \/ Release(t)
  BY <1>1, <1>6 DEF DropGuard, Release
<1>7. CASE CheckLast(t) \/ terminateClient(t)
  BY <1>1, <1>7 DEF CheckLast, terminateClient
<1> QED BY <1>2, <1>3, <1>4, <1>5, <1>6, <1>7 DEF ThreadNext

\* A send that a thread has posted and not counted yet is in flight.
PostedAt(c) == \A t \in Threads : SendingAt(t, c, "posted") => InFlight(c) = 1

OutputInv == RolesOK /\ \A c \in Clients : PostedAt(c)

\* What a step does to the output of client c.
Advances(c) == [Output(c)!Next]_(Output(c)!vars) /\ PostedAt(c)'

LEMMA AboutToPostAt ==
  ASSUME NEW c \in Clients
  PROVE  /\ AboutToPost(c) <=> \E t \in Threads : SendingAt(t, c, "post")
         /\ AboutToPost(c)' <=> \E t \in Threads : SendingAt(t, c, "post")'
  BY DEF AboutToPost, SendingAt, InSend, Section

LEMMA OnePosts ==
  ASSUME NEW t \in Threads, OthersIdle(t), NEW c \in Clients,
         SendingAt(t, c, "post")' <=> SendingAt(t, c, "post")
  PROVE  AboutToPost(c)' <=> AboutToPost(c)
<1>1. ASSUME NEW u \in Threads PROVE SendingAt(u, c, "post")' <=> SendingAt(u, c, "post")
  BY OthersSend DEF Posting
<1> HIDE DEF SendingAt
<1> QED BY <1>1, AboutToPostAt

LEMMA SamePhase ==
  ASSUME NEW c \in Clients, InFlight(c)' = InFlight(c), is_sending'[c] = is_sending[c],
         AboutToPost(c)' <=> AboutToPost(c)
  PROVE  Phase(c)' = Phase(c)
<1> HIDE DEF InFlight, AboutToPost
<1> QED BY DEF Phase, Broken

LEMMA PostedKept ==
  ASSUME NEW t \in Threads, OthersIdle(t), NEW c \in Clients, PostedAt(c), InFlight(c)' = InFlight(c),
         SendingAt(t, c, "posted")' => SendingAt(t, c, "posted")
  PROVE  PostedAt(c)'
<1>1. ASSUME NEW u \in Threads, SendingAt(u, c, "posted")' PROVE SendingAt(u, c, "posted")
  BY <1>1, OthersSend DEF Posting
<1> HIDE DEF SendingAt, InFlight
<1> QED BY <1>1 DEF PostedAt

LEMMA Stutters ==
  ASSUME NEW c \in Clients, outq'[c] = outq[c], Phase(c)' = Phase(c), PostedAt(c)'
  PROVE  Advances(c)
<1> HIDE DEF Phase, PostedAt
<1> QED BY DEF Advances, Output!vars

LEMMA QuietOutput ==
  ASSUME NEW t \in Threads, OthersIdle(t), NEW c \in Clients, PostedAt(c),
         outq'[c] = outq[c], is_sending'[c] = is_sending[c], InFlight(c)' = InFlight(c),
         SendingAt(t, c, "post")' <=> SendingAt(t, c, "post"),
         SendingAt(t, c, "posted")' => SendingAt(t, c, "posted")
  PROVE  Advances(c)
<1>1. AboutToPost(c)' <=> AboutToPost(c)
  BY OnePosts
<1>2. PostedAt(c)'
  BY PostedKept
<1> QED BY <1>1, <1>2, SamePhase, Stutters

LEMMA SendingPhase ==
  ASSUME NEW c \in Clients
  PROVE  /\ InFlight(c) = 1 => Phase(c) = "sending"
         /\ InFlight(c)' = 1 => Phase(c)' = "sending"
  BY DEF Phase

LEMMA IdlePhase ==
  ASSUME NEW c \in Clients
  PROVE  /\ InFlight(c) = 0 /\ (~is_sending[c] \/ AboutToPost(c)) => Phase(c) = "idle"
         /\ InFlight(c)' = 0 /\ (~is_sending'[c] \/ AboutToPost(c)') => Phase(c)' = "idle"
<1> HIDE DEF InFlight, AboutToPost
<1> QED BY DEF Phase, Broken

LEMMA BrokenPhase ==
  ASSUME NEW c \in Clients
  PROVE  /\ InFlight(c) = 0 /\ is_sending[c] /\ ~AboutToPost(c) => Phase(c) = "broken"
         /\ InFlight(c)' = 0 /\ is_sending'[c] /\ ~AboutToPost(c)' => Phase(c)' = "broken"
<1> HIDE DEF InFlight, AboutToPost
<1> QED BY DEF Phase, Broken

\* The completion of the last reference breaks the output: the operation had been counted.
LEMMA DispatchOutput ==
  ASSUME TypeInv, PipelineInv, RefAccounting, OutputInv, Dispatch, OthersIdle(Listener),
         NEW c \in Clients
  PROVE  Advances(c)
<1> USE Thread, ClientsAssumption, ThreadsAssumption
<1>1. ThreadsType /\ ControlAt(Listener) /\ pc[Listener] = "dispatch"
  BY DEF TypeInv, TypeOK, ControlOK, Dispatch
<1> DEFINE d == ptr[Listener]
<1>2. d \in Clients /\ fn[Listener] \in Kinds
  BY <1>1 DEF ThreadsType, ControlAt
<1>3. /\ UNCHANGED <<outq, is_sending, tx, packets, ptr>>
      /\ IF LastReference(d) THEN pc'[Listener] = "terminate" /\ fn'[Listener] = "none"
         ELSE pc'[Listener] = "handle" /\ fn'[Listener] = fn[Listener]
  BY <1>1 DEF Dispatch, objects, kernel, Goto, ThreadsType
<1>4. \A label \in Posting : ~SendingAt(Listener, c, label) /\ ~SendingAt(Listener, c, label)'
  BY <1>1, <1>3 DEF InSend, SendingAt, Section
<1>5. AboutToPost(c)' <=> AboutToPost(c)
  BY <1>4, OnePosts DEF Posting
<1>6. CASE LastReference(d) /\ fn[Listener] = "sent" /\ c = d
  <2>1. PipelineAt(c)
    BY DEF PipelineInv
  <2>2. InFlight(c) = tx[c] + packets[c]["sent"] + 1 /\ InFlight(c)' = tx[c] + packets[c]["sent"]
    BY <1>1, <1>2, <1>3, <1>6, InFlightType DEF InFlight
  <2>3. InFlight(c)' = 0 /\ InFlight(c) = 1
    BY <2>1, <2>2, InFlightType DEF PipelineAt
  <2>4. ~AboutToPost(c)
    <3> HIDE DEF SendingAt, InFlight
    <3> QED BY <2>1, <2>3, AboutToPostAt DEF PipelineAt
  <2>5. ASSUME NEW t \in Threads PROVE ~SendingAt(t, c, "posted")
    <3> SUFFICES ASSUME SendingAt(t, c, "posted") PROVE FALSE
      OBVIOUS
    <3>1. t # Listener /\ fn[t] = "send" /\ ptr[t] = c /\ pc[t] = "posted"
      BY <1>1 DEF SendingAt, InSend, OutputInv, RolesOK
    <3>2. t \in {u \in Threads : Owns(u, c)}
      BY <3>1 DEF Owns
    <3>3. refs[c] = 0 /\ refs[c] = Outstanding(c) + Held(c)
      BY <1>6 DEF LastReference, RefAccounting
    <3>4. /\ Cardinality({u \in Threads : Owns(u, c)}) \in Nat \ {0}
          /\ Cardinality({u \in Threads : Guards(u, c)}) \in Nat
          /\ Cardinality({u \in Threads : outer[u] = c}) \in Nat
      BY <3>2, ThreadsFinite, FS_Subset, FS_CardinalityType, FS_EmptySet
    <3>5. Held(c) \in Nat \ {0}
      BY <3>4 DEF Held
    <3>6. Outstanding(c) \in Nat
      <4>1. packets[c] \in [Kinds -> Nat] /\ rx[c] \in Nat /\ tx[c] \in Nat
        BY DEF TypeInv, TypeOK, KernelType
      <4>2. packets[c]["data"] \in Nat /\ packets[c]["closed"] \in Nat /\ packets[c]["sent"] \in Nat
        BY <4>1 DEF Kinds
      <4> QED BY <4>1, <4>2 DEF Outstanding
    <3> QED BY <3>3, <3>5, <3>6
  <2>6. is_sending[c] /\ outq[c] # <<>>
    <3> HIDE DEF SendingAt, InFlight
    <3> QED BY <2>1, <2>3, <2>5 DEF PipelineAt
  <2>7. Phase(c) = "sending" /\ Phase(c)' = "broken"
    BY <1>3, <1>5, <2>3, <2>4, <2>6, SendingPhase, BrokenPhase
  <2>8. PostedAt(c)'
    <3>1. ASSUME NEW t \in Threads PROVE ~SendingAt(t, c, "posted")'
      BY <1>4, <2>5, OthersSend DEF Posting
    <3> HIDE DEF SendingAt, InFlight
    <3> QED BY <3>1 DEF PostedAt
  <2> HIDE DEF Phase, PostedAt
  <2> QED BY <1>3, <2>6, <2>7, <2>8 DEF Advances, Output!Next, Output!Break
<1>7. CASE ~(LastReference(d) /\ fn[Listener] = "sent" /\ c = d)
  <2>1. InFlight(c)' = InFlight(c)
    BY <1>1, <1>3, <1>7 DEF InFlight
  <2>2. PostedAt(c)
    BY DEF OutputInv
  <2> QED BY <1>3, <1>4, <2>1, <2>2, QuietOutput DEF Posting
<1> QED BY <1>6, <1>7

\* The buffer at the head leaves when its own send has completed.
LEMMA CompleteSendOutput ==
  ASSUME TypeInv, PipelineInv, OutputInv, CompleteSend, OthersIdle(Listener), NEW c \in Clients
  PROVE  Advances(c)
<1> USE Thread, ClientsAssumption, ThreadsAssumption
<1>1. ThreadsType /\ ObjectsType /\ ControlAt(Listener) /\ SendMutex /\ PostedAt(c)
  BY DEF TypeInv, TypeOK, ControlOK, PipelineInv, OutputInv
<1>2. pc[Listener] = "handle" /\ fn[Listener] = "sent"
  BY DEF CompleteSend
<1>3. PICK d \in Clients : d = ptr[Listener] /\ outq[d] # <<>> /\ send_mtx[d] = NoThread
  BY <1>1, <1>2 DEF ThreadsType, ControlAt, CompleteSend
<1>4. /\ UNCHANGED <<tx, packets, ptr, fn>>
      /\ outq' = [outq EXCEPT ![d] = Tail(@)]
      /\ IF MoreToSend(d) THEN pc'[Listener] = "post" /\ is_sending' = is_sending
         ELSE pc'[Listener] = "unlock" /\ is_sending' = [is_sending EXCEPT ![d] = FALSE]
  BY <1>1, <1>2, <1>3 DEF CompleteSend, kernel, Goto, ThreadsType
<1>5. CASE c = d
  <2>1. InFlight(c) = tx[c] + packets[c]["sent"] + 1 /\ InFlight(c)' = tx[c] + packets[c]["sent"]
    BY <1>2, <1>3, <1>4, <1>5, InFlightType DEF InFlight
  <2>2. InFlight(c) = 1 /\ InFlight(c)' = 0
    BY <2>1, InFlightType DEF PipelineInv, PipelineAt
  <2>3. ~is_sending'[c] \/ AboutToPost(c)'
    BY <1>1, <1>2, <1>3, <1>4, <1>5 DEF AboutToPost, ObjectsType
  <2>4. Phase(c) = "sending" /\ Phase(c)' = "idle"
    BY <2>2, <2>3, SendingPhase, IdlePhase
  <2>5. outq'[c] = Tail(outq[c]) /\ outq[c] # <<>>
    BY <1>1, <1>3, <1>4, <1>5 DEF ObjectsType
  <2>6. PostedAt(c)'
    <3>1. ASSUME NEW t \in Threads PROVE ~SendingAt(t, c, "posted")'
      <4>1. ~InSend(t, c)
        BY <1>1, <1>3, <1>5 DEF SendMutex
      <4>2. CASE t = Listener
        BY <1>4, <4>2 DEF SendingAt
      <4>3. CASE t # Listener
        BY <4>1, <4>3, OthersSend DEF SendingAt
      <4> QED BY <4>2, <4>3
    <3> HIDE DEF SendingAt, InFlight
    <3> QED BY <3>1 DEF PostedAt
  <2> HIDE DEF Phase, PostedAt
  <2> QED BY <2>4, <2>5, <2>6 DEF Advances, Output!Next, Output!Complete
<1>6. CASE c # d
  <2>1. InFlight(c)' = InFlight(c)
    BY <1>3, <1>4, <1>6 DEF InFlight
  <2>2. ~InSend(Listener, c) /\ ~InSend(Listener, c)'
    BY <1>3, <1>4, <1>6 DEF InSend
  <2>3. outq'[c] = outq[c] /\ is_sending'[c] = is_sending[c]
    BY <1>1, <1>4, <1>6 DEF ObjectsType
  <2> QED BY <1>1, <2>1, <2>2, <2>3, QuietOutput DEF SendingAt
<1> QED BY <1>5, <1>6

\* A message is queued behind all others and in one piece.
LEMMA EnqueueOutput ==
  ASSUME TypeInv, PipelineInv, OutputInv, NEW t \in Threads, Enqueue(t), OthersIdle(t),
         NEW c \in Clients
  PROVE  Advances(c)
<1> USE ClientsAssumption, ThreadsAssumption
<1>1. ThreadsType /\ ObjectsType /\ ControlAt(t) /\ PostedAt(c)
  BY DEF TypeInv, TypeOK, ControlOK, OutputInv
<1>2. pc[t] = "lock" /\ fn[t] = "send"
  BY <1>1 DEF Enqueue, ControlAt
<1>3. PICK d \in Clients : d = ptr[t]
  BY <1>1, <1>2 DEF ThreadsType, ControlAt
<1>4. PICK n \in 1 .. MaxChunks :
        outq' = [outq EXCEPT ![d] = @ \o Chunks(t, n)]
  BY <1>3 DEF Enqueue, Queued
<1>5. /\ UNCHANGED <<is_sending, tx, packets, ptr, fn>>
      /\ pc' = [pc EXCEPT ![t] = IF is_sending[d] THEN "release" ELSE "post"]
  BY <1>3 DEF Enqueue, kernel, Goto, SendInProgress
<1>6. InFlight(c)' = InFlight(c)
  BY <1>1, <1>2, <1>5 DEF InFlight, OthersIdle, ThreadsType
<1>7. CASE c = d
  <2>1. Phase(c)' = Phase(c)
    <3>1. CASE is_sending[c]
      <4>1. ~SendingAt(t, c, "post") /\ ~SendingAt(t, c, "post")'
        BY <1>1, <1>2, <1>5, <1>7, <3>1 DEF SendingAt, ThreadsType
      <4>2. is_sending'[c] = is_sending[c]
        BY <1>5
      <4> QED BY <1>6, <4>1, <4>2, OnePosts, SamePhase
    <3>2. CASE ~is_sending[c]
      <4>1. ~is_sending'[c] /\ InFlight(c) \in Nat /\ InFlight(c) <= 1
        BY <1>5, <3>2, InFlightType DEF PipelineInv, PipelineAt
      <4>2. CASE InFlight(c) = 1
        BY <1>6, <4>2, SendingPhase
      <4>3. CASE InFlight(c) = 0
        BY <1>6, <3>2, <4>1, <4>3, IdlePhase
      <4> QED BY <4>1, <4>2, <4>3
    <3> QED BY <3>1, <3>2
  <2>2. outq'[c] = outq[c] \o Chunks(t, n)
    BY <1>1, <1>4, <1>7 DEF ObjectsType
  <2>3. /\ Chunks(t, n) \in Seq(Buffers) /\ Len(Chunks(t, n)) = n /\ n \in Nat \ {0}
        /\ Message(t) \in Messages
    BY <1>1, ChunksType
  <2>4. outq[c] \in Seq(Buffers)
    BY <1>1 DEF ObjectsType
  <2>5. Len(outq'[c]) = Len(outq[c]) + n /\ Len(outq[c]) \in Nat
    BY <2>2, <2>3, <2>4, QueuedLength
  <2>6. Len(outq'[c]) > Len(outq[c]) /\ Len(outq'[c]) - Len(outq[c]) = n
    BY <2>3, <2>5
  <2>7. PostedAt(c)'
    <3>1. ~SendingAt(t, c, "posted")'
      BY <1>1, <1>5 DEF SendingAt, ThreadsType
    <3> QED BY <1>1, <1>6, <3>1, PostedKept
  <2> HIDE DEF Phase, PostedAt
  <2>8. Output(c)!Accept
    <3>1. Chunks(t, n) = Output(c)!Parts(Message(t), n)
      BY DEF Chunks, Output!Parts
    <3> HIDE DEF Message, Chunks
    <3> QED BY <2>1, <2>2, <2>3, <2>6, <3>1 DEF Output!Accept
  <2> QED BY <2>7, <2>8 DEF Advances, Output!Next
<1>8. CASE c # d
  <2>1. outq'[c] = outq[c] /\ is_sending'[c] = is_sending[c]
    BY <1>1, <1>4, <1>5, <1>8 DEF ObjectsType
  <2>2. ~InSend(t, c) /\ ~InSend(t, c)'
    BY <1>3, <1>5, <1>8 DEF InSend
  <2> QED BY <1>1, <1>6, <2>1, <2>2, QuietOutput DEF SendingAt
<1> QED BY <1>7, <1>8

\* The head of the queue is sent, or blocks what is behind it.
LEMMA postSendEventOutput ==
  ASSUME TypeInv, PipelineInv, OutputInv, NEW t \in Threads, postSendEvent(t), OthersIdle(t),
         NEW c \in Clients
  PROVE  Advances(c)
<1> USE ClientsAssumption, ThreadsAssumption
<1>1. /\ ThreadsType /\ ObjectsType /\ ControlAt(t) /\ tx \in [Clients -> Nat]
      /\ SendMutex /\ PipelineAt(c) /\ PostedAt(c)
  BY DEF TypeInv, TypeOK, ControlOK, PipelineInv, KernelType, OutputInv
<1>2. pc[t] = "post" /\ fn[t] \in {"send", "sent"}
  BY DEF postSendEvent
<1>3. PICK d \in Clients : d = ptr[t]
  BY <1>1, <1>2 DEF ThreadsType, ControlAt
<1>4. /\ UNCHANGED <<outq, is_sending, packets, ptr, fn>>
      /\ \/ pc' = [pc EXCEPT ![t] = "posted"] /\ tx' = [tx EXCEPT ![d] = @ + 1]
         \/ pc' = [pc EXCEPT ![t] = "failed"] /\ tx' = tx
  BY <1>3 DEF postSendEvent, objects, Goto
<1>5. CASE c = d
  <2>1. SendingAt(t, c, "post")
    BY <1>2, <1>3, <1>5 DEF SendingAt, InSend, Section
  <2>2. InFlight(c) = 0 /\ outq[c] # <<>> /\ AboutToPost(c)
    <3> HIDE DEF SendingAt, InFlight
    <3> QED BY <1>1, <2>1, AboutToPostAt DEF PipelineAt
  <2>3. Phase(c) = "idle"
    BY <2>2, IdlePhase
  <2>4. CASE pc' = [pc EXCEPT ![t] = "posted"] /\ tx' = [tx EXCEPT ![d] = @ + 1]
    <3>1. InFlight(c)' = 1
      BY <1>1, <1>2, <1>4, <1>5, <2>2, <2>4, InFlightType DEF InFlight, OthersIdle, ThreadsType
    <3>2. Phase(c)' = "sending" /\ PostedAt(c)'
      BY <3>1, SendingPhase DEF PostedAt
    <3> HIDE DEF Phase, PostedAt
    <3> QED BY <1>4, <2>2, <2>3, <3>2 DEF Advances, Output!Next, Output!Start
  <2>5. CASE pc' = [pc EXCEPT ![t] = "failed"] /\ tx' = tx
    <3>1. InFlight(c)' = 0
      BY <1>1, <1>2, <1>4, <2>2, <2>5 DEF InFlight, OthersIdle, ThreadsType
    <3>2. Phase(c)' \in {"idle", "broken"}
      BY <3>1 DEF Phase
    <3>3. PostedAt(c)'
      <4>1. ASSUME NEW u \in Threads PROVE ~SendingAt(u, c, "posted")'
        <5>1. CASE u = t
          BY <1>1, <2>5, <5>1 DEF SendingAt, ThreadsType
        <5>2. CASE u # t
          <6>1. ~InSend(u, c)
            BY <1>1, <2>1, <5>2 DEF SendMutex, SendingAt
          <6> QED BY <5>2, <6>1, OthersSend DEF SendingAt
        <5> QED BY <5>1, <5>2
      <4> HIDE DEF SendingAt, InFlight
      <4> QED BY <4>1 DEF PostedAt
    <3> HIDE DEF Phase, PostedAt
    <3> QED BY <1>4, <2>2, <2>3, <3>2, <3>3, Stutters DEF Advances, Output!Next, Output!Break
  <2> QED BY <1>4, <2>4, <2>5
<1>6. CASE c # d
  <2>1. InFlight(c)' = InFlight(c)
    <3>1. tx'[c] = tx[c]
      BY <1>1, <1>4, <1>6
    <3>2. pc'[t] \notin {"dispatch", "handle"}
      BY <1>1, <1>4 DEF ThreadsType
    <3> QED BY <1>2, <1>4, <3>1, <3>2, Thread DEF InFlight, OthersIdle
  <2>2. ~InSend(t, c) /\ ~InSend(t, c)'
    BY <1>3, <1>4, <1>6 DEF InSend
  <2>3. outq'[c] = outq[c] /\ is_sending'[c] = is_sending[c]
    BY <1>4
  <2> QED BY <1>1, <2>1, <2>2, <2>3, QuietOutput DEF SendingAt
<1> QED BY <1>5, <1>6

\* m_is_sending is set while the send it stands for is in flight.
LEMMA CountPostedOutput ==
  ASSUME TypeInv, PipelineInv, OutputInv, NEW t \in Threads, CountPosted(t), OthersIdle(t),
         NEW c \in Clients
  PROVE  Advances(c)
<1> USE ClientsAssumption, ThreadsAssumption
<1>1. ThreadsType /\ ObjectsType /\ ControlAt(t) /\ PostedAt(c)
  BY DEF TypeInv, TypeOK, ControlOK, OutputInv
<1>2. pc[t] = "posted"
  BY DEF CountPosted
<1>3. PICK d \in Clients : d = ptr[t]
  BY <1>1, <1>2 DEF ThreadsType, ControlAt
<1>4. /\ UNCHANGED <<outq, tx, packets, ptr, fn>>
      /\ pc' = [pc EXCEPT ![t] = "unguard"]
      /\ is_sending' = IF fn[t] \in {"send", "sent"} THEN [is_sending EXCEPT ![d] = TRUE]
                       ELSE is_sending
  BY <1>3 DEF CountPosted, kernel, Goto
<1>5. InFlight(c)' = InFlight(c)
  BY <1>1, <1>2, <1>4 DEF InFlight, OthersIdle, ThreadsType
<1>6. ~SendingAt(t, c, "post") /\ ~SendingAt(t, c, "post")' /\ ~SendingAt(t, c, "posted")'
  BY <1>1, <1>2, <1>4 DEF SendingAt, ThreadsType
<1>7. outq'[c] = outq[c]
  BY <1>4
<1>8. CASE InSend(t, c)
  <2>1. InFlight(c) = 1
    <3>1. SendingAt(t, c, "posted")
      BY <1>2, <1>8 DEF SendingAt
    <3> QED BY <1>1, <3>1 DEF PostedAt
  <2>2. Phase(c)' = Phase(c)
    BY <1>5, <2>1, SendingPhase
  <2>3. PostedAt(c)'
    BY <1>1, <1>5, <1>6, PostedKept
  <2> QED BY <1>7, <2>2, <2>3, Stutters
<1>9. CASE ~InSend(t, c)
  <2>1. is_sending'[c] = is_sending[c]
    BY <1>1, <1>2, <1>3, <1>4, <1>9 DEF ObjectsType, InSend, Section
  <2> QED BY <1>1, <1>5, <1>6, <1>7, <2>1, QuietOutput
<1> QED BY <1>8, <1>9

\* A failed post and the end of the critical section show nothing.
LEMMA PostFailedOutput ==
  ASSUME TypeInv, OutputInv, NEW t \in Threads, PostFailed(t), OthersIdle(t), NEW c \in Clients
  PROVE  Advances(c)
<1>1. ThreadsType /\ PostedAt(c) /\ pc[t] = "failed"
  BY DEF TypeInv, TypeOK, OutputInv, PostFailed
<1>2. /\ UNCHANGED <<outq, is_sending, tx, packets, ptr, fn>>
      /\ pc' = [pc EXCEPT ![t] = "unguard"]
  BY DEF PostFailed, kernel, Goto
<1>3. InFlight(c)' = InFlight(c)
  BY <1>1, <1>2 DEF InFlight, OthersIdle, ThreadsType
<1>4. ~SendingAt(t, c, "post") /\ ~SendingAt(t, c, "post")' /\ ~SendingAt(t, c, "posted")'
  BY <1>1, <1>2 DEF SendingAt, ThreadsType
<1>5. outq'[c] = outq[c] /\ is_sending'[c] = is_sending[c]
  BY <1>2
<1> QED BY <1>1, <1>3, <1>4, <1>5, QuietOutput

LEMMA UnlockOutput ==
  ASSUME TypeInv, OutputInv, NEW t \in Threads, Unlock(t), OthersIdle(t), NEW c \in Clients
  PROVE  Advances(c)
<1>1. ThreadsType /\ ControlAt(t) /\ PostedAt(c) /\ pc[t] = "unlock"
  BY DEF TypeInv, TypeOK, ControlOK, OutputInv, Unlock
<1>2. UNCHANGED <<outq, is_sending, tx, packets>> /\ pc'[t] \in {"idle", "fault"}
  BY <1>1 DEF Unlock, objects, kernel, ReturnFromSend, Finish, ThreadsType
<1>3. InFlight(c)' = InFlight(c)
  BY <1>1, <1>2, Thread DEF InFlight, OthersIdle
<1>4. ~SendingAt(t, c, "post") /\ ~SendingAt(t, c, "post")' /\ ~SendingAt(t, c, "posted")'
  BY <1>1, <1>2 DEF SendingAt
<1>5. outq'[c] = outq[c] /\ is_sending'[c] = is_sending[c]
  BY <1>2
<1> QED BY <1>1, <1>3, <1>4, <1>5, QuietOutput

LEMMA QuietAdvances ==
  ASSUME OutputInv, NEW t \in Threads, OthersIdle(t), Quiet(t), NEW c \in Clients
  PROVE  Advances(c)
<1>1. QuietAt(t, c) /\ PostedAt(c)
  BY DEF Quiet, OutputInv
<1> HIDE DEF SendingAt, InFlight
<1> QED BY <1>1, QuietOutput DEF QuietAt, Posting

LEMMA ThreadNextOutput ==
  ASSUME TypeInv, PipelineInv, RefAccounting, OutputInv, NEW t \in Threads, ThreadNext(t),
         NEW c \in Clients
  PROVE  Advances(c)
<1>0. OthersIdle(t)
  BY ThreadNextType
<1>1. CASE t = Listener /\ ListenerNext
  <2>1. CASE addClient \/ postAcceptExEvent \/ PushToAssembler \/ HangUp
    BY <1>0, <1>1, <2>1, QuietAdvances, addClientQuiet, postAcceptExEventQuiet,
       PushToAssemblerQuiet, HangUpQuiet
  <2>2. CASE \E d \in Clients, k \in Kinds : Dequeue(d, k)
    BY <1>0, <1>1, <2>2, QuietAdvances, DequeueQuiet
  <2>3. CASE Dispatch \/ CompleteSend
    BY <1>0, <1>1, <2>3, DispatchOutput, CompleteSendOutput
  <2> QED BY <1>1, <2>1, <2>2, <2>3 DEF ListenerNext
<1>2. CASE t \in Workers /\ WorkerNext(t)
  BY <1>0, <1>2, QuietAdvances, PopClientIdQuiet, FeedQuiet, createRequestQuiet,
     DisconnectFaultyQuiet DEF WorkerNext
<1>3. CASE t \in Apps /\ NextRequest(t)
  BY <1>0, <1>3, QuietAdvances, NextRequestQuiet
<1>4. CASE getClient(t) \/ postReceiveEvent(t)
  BY <1>0, <1>4, QuietAdvances, getClientQuiet, postReceiveEventQuiet
<1>5. CASE DropGuard(t) \/ Release(t) \/ CheckLast(t) \/ terminateClient(t)
  BY <1>0, <1>5, QuietAdvances, DropGuardQuiet, ReleaseQuiet, CheckLastQuiet, terminateClientQuiet
<1>6. CASE \/ Enqueue(t) \/ postSendEvent(t) \/ CountPosted(t) \/ PostFailed(t) \/ Unlock(t)
  BY <1>0, <1>6, EnqueueOutput, postSendEventOutput, CountPostedOutput, PostFailedOutput, UnlockOutput
<1> QED BY <1>1, <1>2, <1>3, <1>4, <1>5, <1>6 DEF ThreadNext

LEMMA KernelNextOutput ==
  ASSUME TypeInv, OutputInv, KernelNext, NEW c \in Clients
  PROVE  Advances(c)
<1>1. UNCHANGED <<outq, is_sending, pc, fn, ptr>>
  BY DEF KernelNext, Connect, PeerCloses, ReceiveCompletes, ReceiveEnds, SendCompletes, objects, threads
<1>2. /\ AboutToPost(c)' <=> AboutToPost(c)
      /\ \A t \in Threads : SendingAt(t, c, "posted")' <=> SendingAt(t, c, "posted")
  BY <1>1 DEF AboutToPost, SendingAt, InSend
<1>3. PostedAt(c) /\ InFlight(c)' = InFlight(c)
  BY KernelInFlight DEF OutputInv
<1>4. PostedAt(c)'
  <2> HIDE DEF SendingAt, InFlight
  <2> QED BY <1>2, <1>3 DEF PostedAt
<1> QED BY <1>1, <1>2, <1>3, <1>4, SamePhase, Stutters

LEMMA InitOutput ==
  ASSUME Init
  PROVE  OutputInv /\ \A c \in Clients : Output(c)!Init
<1>1. \A t \in Threads : pc[t] = "idle" /\ fn[t] = "none"
  BY DEF Init
<1>2. ASSUME NEW c \in Clients PROVE PostedAt(c) /\ outq[c] = <<>> /\ Phase(c) = "idle"
  <2>1. tx[c] = 0 /\ packets[c]["sent"] = 0 /\ outq[c] = <<>> /\ ~is_sending[c]
    BY DEF Init, Kinds
  <2>2. InFlight(c) = 0
    BY <1>1, <2>1, Thread DEF InFlight
  <2>3. Phase(c) = "idle"
    BY <2>1, <2>2, IdlePhase
  <2> QED BY <1>1, <2>1, <2>3 DEF PostedAt, SendingAt
<1>3. RolesOK
  BY <1>1 DEF RolesOK
<1> HIDE DEF Phase
<1> QED BY <1>2, <1>3 DEF OutputInv, Output!Init

LEMMA OutputStep ==
  ASSUME TypeInv, PipelineInv, RefAccounting, OutputInv, [Next]_vars
  PROVE  OutputInv' /\ \A c \in Clients : [Output(c)!Next]_(Output(c)!vars)
<1>1. CASE KernelNext
  <2>1. RolesOK'
    BY <1>1 DEF KernelNext, Connect, PeerCloses, ReceiveCompletes, ReceiveEnds, SendCompletes,
                threads, OutputInv, RolesOK
  <2> QED BY <1>1, <2>1, KernelNextOutput DEF OutputInv, Advances
<1>2. CASE \E t \in Threads : ThreadNext(t)
  <2>1. PICK t \in Threads : ThreadNext(t)
    BY <1>2
  <2>2. RolesOK'
    BY <2>1, ThreadNextType, RolesStep DEF OutputInv
  <2> QED BY <2>1, <2>2, ThreadNextOutput DEF OutputInv, Advances
<1>3. CASE UNCHANGED vars
  <2>1. RolesOK'
    BY <1>3 DEF vars, threads, OutputInv, RolesOK
  <2>2. ASSUME NEW c \in Clients PROVE Advances(c)
    <3>1. UNCHANGED <<outq, is_sending, tx, packets, pc, fn, ptr>>
      BY <1>3 DEF vars, objects, kernel, threads
    <3>2. PostedAt(c)' /\ Phase(c)' = Phase(c)
      BY <3>1 DEF OutputInv, PostedAt, SendingAt, InSend, InFlight, Phase, Broken, AboutToPost
    <3> QED BY <3>1, <3>2, Stutters
  <2> QED BY <2>1, <2>2 DEF OutputInv, Advances
<1> QED BY <1>1, <1>2, <1>3 DEF Next

\* The output of every client is in order, for any number of clients and threads and
\* messages of any length: the server implements an Outbox per client.
THEOREM OutputOrdered == Spec => OutputInOrder
<1> DEFINE Inv == TypeInv /\ PipelineInv /\ RefAccounting
           Step == \A c \in Clients : [Output(c)!Next]_(Output(c)!vars)
<1>1. Spec => []Inv
  BY PipelineAlways, ReferencesAccounted, PTL
<1>2. Init => OutputInv /\ \A c \in Clients : Output(c)!Init
  BY InitOutput
<1>3. Inv /\ OutputInv /\ [Next]_vars => OutputInv' /\ Step
  BY OutputStep
<1>4. Step => [Step]_vars
  OBVIOUS
<1> QED BY <1>1, <1>2, <1>3, <1>4, PTL DEF Spec, OutputInOrder
=============================================================================
