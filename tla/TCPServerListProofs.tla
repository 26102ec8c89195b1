------------------------- MODULE TCPServerListProofs -------------------------
(* Theorems about the ids of TCPServer: the client list and the free list,  *)
(* for any number of clients and threads.                                   *)
EXTENDS TCPServerProofs

\* A connection that was not accepted yet has no Client object.
Unborn ==
  /\ \A c \in Clients : peer[c] = "absent" => mem[c] = "unborn"
  /\ accept \in Clients => mem[accept] = "unborn" /\ peer[accept] # "absent"

ListInv == FreeListExact /\ Unborn

Elements(s) == {s[i] : i \in DOMAIN s}
Distinct(s) == \A i, j \in DOMAIN s : s[i] = s[j] => i = j

\* An id leaves the end of the free list.
LEMMA WithoutLast ==
  ASSUME NEW s \in Seq(Nat), s # <<>>, Distinct(s)
  PROVE  LET r == SubSeq(s, 1, Len(s) - 1)
         IN  Distinct(r) /\ Elements(r) = Elements(s) \ {s[Len(s)]}
<1> DEFINE r == SubSeq(s, 1, Len(s) - 1)
<1>1. Len(s) \in Nat \ {0} /\ DOMAIN s = 1 .. Len(s)
  BY EmptySeq, LenProperties
<1>2. Len(r) = Len(s) - 1 /\ \A i \in 1 .. Len(s) - 1 : r[i] = s[i]
  <2>1. \A i \in 1 .. Len(s) - 1 : s[i] \in Nat
    BY ElementOfSeq, LenProperties
  <2> QED BY <1>1, <2>1, SubSeqProperties
<1>3. r \in Seq(Nat)
  BY RemoveLastType
<1>4. DOMAIN r = 1 .. Len(s) - 1
  BY <1>2, <1>3, LenProperties
<1> HIDE DEF r
<1>5. Distinct(r)
  BY <1>1, <1>2, <1>4, SMTT(30) DEF Distinct
<1>6. Elements(r) = Elements(s) \ {s[Len(s)]}
  BY <1>1, <1>2, <1>4, SMTT(30) DEF Elements, Distinct
<1> QED BY <1>5, <1>6 DEF r

\* An id that is not free joins the free list.
LEMMA WithOneMore ==
  ASSUME NEW s \in Seq(Nat), NEW e \in Nat, Distinct(s), e \notin Elements(s)
  PROVE  Distinct(Append(s, e)) /\ Elements(Append(s, e)) = Elements(s) \cup {e}
<1>1. Len(s) \in Nat /\ DOMAIN s = 1 .. Len(s) /\ DOMAIN Append(s, e) = 1 .. Len(s) + 1
  BY LenProperties, AppendProperties
<1>2. Append(s, e)[Len(s) + 1] = e /\ \A i \in 1 .. Len(s) : Append(s, e)[i] = s[i]
  BY AppendProperties
<1>3. Distinct(Append(s, e))
  BY <1>1, <1>2 DEF Distinct, Elements
<1>4. Elements(Append(s, e)) = Elements(s) \cup {e}
  BY <1>1, <1>2 DEF Elements
<1> QED BY <1>3, <1>4

LEMMA FreeListParts ==
  FreeListExact
    <=> /\ Distinct(free_ids)
        /\ Elements(free_ids) = {p \in DOMAIN client_list : client_list[p] = NoClient}
        /\ \A c \in Clients, p \in DOMAIN client_list :
             client_list[p] = c <=> (mem[c] = "live" /\ cid[c] = p)
        /\ \A c \in Clients : mem[c] = "live" => cid[c] \in DOMAIN client_list
  BY DEF FreeListExact, Distinct, Elements

LEMMA FreeListPrimed ==
  ASSUME Distinct(free_ids'),
         Elements(free_ids') = {p \in DOMAIN client_list' : client_list'[p] = NoClient},
         \A c \in Clients, p \in DOMAIN client_list' :
           client_list'[p] = c <=> (mem'[c] = "live" /\ cid'[c] = p),
         \A c \in Clients : mem'[c] = "live" => cid'[c] \in DOMAIN client_list'
  PROVE  FreeListExact'
  BY DEF FreeListExact, Distinct, Elements

\* The new client takes a free position, or a new one at the end of the list.
LEMMA addClientList ==
  ASSUME TypeInv, ListInv, addClient
  PROVE  ListInv'
<1>1. /\ accept \in Clients /\ mem[accept] = "unborn" /\ accept # NoClient
      /\ mem' = [mem EXCEPT ![accept] = "live"]
      /\ cid' = [cid EXCEPT ![accept] = NewPosition]
      /\ accept' = "none" /\ peer' = peer /\ peer[accept] # "absent"
  BY ClientsAssumption DEF addClient, ListInv, Unborn
<1>2. /\ mem \in [Clients -> {"unborn", "live", "freed"}] /\ cid \in [Clients -> Nat]
      /\ client_list \in Seq(Clients \cup {NoClient}) /\ free_ids \in Seq(Nat)
  BY DEF TypeInv, TypeOK, ObjectsType, ListsType
<1>3. /\ Distinct(free_ids)
      /\ Elements(free_ids) = {p \in DOMAIN client_list : client_list[p] = NoClient}
      /\ \A c \in Clients, p \in DOMAIN client_list :
           client_list[p] = c <=> (mem[c] = "live" /\ cid[c] = p)
      /\ \A c \in Clients : mem[c] = "live" => cid[c] \in DOMAIN client_list
  BY FreeListParts DEF ListInv
<1>4. ASSUME free_ids # <<>> PROVE FreeListExact'
  <2>1. /\ free_ids' = SubSeq(free_ids, 1, Len(free_ids) - 1)
        /\ NewPosition = free_ids[Len(free_ids)]
        /\ client_list' = [client_list EXCEPT ![NewPosition] = accept]
    BY <1>4 DEF addClient, FreeIdsLeft, NewPosition
  <2>2. Len(free_ids) \in DOMAIN free_ids
    BY <1>2, <1>4, EmptySeq, LenProperties
  <2>3. NewPosition \in DOMAIN client_list /\ client_list[NewPosition] = NoClient
    BY <1>3, <2>1, <2>2 DEF Elements
  <2>4. DOMAIN client_list' = DOMAIN client_list
    BY <2>1
  <2>5. Distinct(free_ids') /\ Elements(free_ids') = Elements(free_ids) \ {NewPosition}
    BY <1>2, <1>3, <1>4, <2>1, WithoutLast
  <2>6. Elements(free_ids') = {p \in DOMAIN client_list' : client_list'[p] = NoClient}
    BY <1>1, <1>3, <2>1, <2>3, <2>4, <2>5
  <2>7. \A c \in Clients, p \in DOMAIN client_list' :
          client_list'[p] = c <=> (mem'[c] = "live" /\ cid'[c] = p)
    <3> TAKE c \in Clients, p \in DOMAIN client_list'
    <3>1. client_list'[p] = (IF p = NewPosition THEN accept ELSE client_list[p])
      BY <2>1, <2>4
    <3>2. CASE c = accept
      <4>1. client_list[p] # accept
        BY <1>1, <1>3, <2>4
      <4>2. mem'[c] = "live" /\ cid'[c] = NewPosition
        BY <1>1, <1>2, <2>3, <3>2
      <4> QED BY <3>1, <3>2, <4>1, <4>2
    <3>3. CASE c # accept
      BY <1>1, <1>2, <1>3, <2>3, <2>4, <3>1, <3>3, ClientsAssumption
    <3> QED BY <3>2, <3>3
  <2>8. \A c \in Clients : mem'[c] = "live" => cid'[c] \in DOMAIN client_list'
    BY <1>1, <1>2, <1>3, <2>3, <2>4
  <2> QED BY <2>5, <2>6, <2>7, <2>8, FreeListPrimed
<1>5. ASSUME free_ids = <<>> PROVE FreeListExact'
  <2>1. /\ free_ids' = free_ids /\ NewPosition = Len(client_list) + 1
        /\ client_list' = Append(client_list, accept)
    BY <1>5 DEF addClient, NewPosition
  <2>2. /\ Len(client_list) \in Nat /\ DOMAIN client_list = 1 .. Len(client_list)
        /\ DOMAIN client_list' = 1 .. NewPosition
        /\ \A p \in 1 .. Len(client_list) : client_list'[p] = client_list[p]
        /\ client_list'[NewPosition] = accept
    BY <1>1, <1>2, <2>1, LenProperties, AppendProperties
  <2>3. Elements(free_ids') = {p \in DOMAIN client_list' : client_list'[p] = NoClient}
    BY <1>1, <1>3, <2>1, <2>2
  <2>4. \A c \in Clients, p \in DOMAIN client_list' :
          client_list'[p] = c <=> (mem'[c] = "live" /\ cid'[c] = p)
    <3> TAKE c \in Clients, p \in DOMAIN client_list'
    <3>1. CASE c = accept
      <4>1. p \in 1 .. Len(client_list) => client_list[p] # accept
        BY <1>1, <1>3, <2>2
      <4>2. mem'[c] = "live" /\ cid'[c] = NewPosition
        BY <1>1, <1>2, <2>1, <2>2, <3>1
      <4>3. p = NewPosition \/ p \in 1 .. Len(client_list)
        BY <2>1, <2>2
      <4> QED BY <2>1, <2>2, <3>1, <4>1, <4>2, <4>3
    <3>2. CASE c # accept
      BY <1>1, <1>2, <1>3, <2>1, <2>2, <3>2
    <3> QED BY <3>1, <3>2
  <2>5. \A c \in Clients : mem'[c] = "live" => cid'[c] \in DOMAIN client_list'
    BY <1>1, <1>2, <1>3, <2>1, <2>2
  <2> QED BY <1>3, <2>1, <2>3, <2>4, <2>5, FreeListPrimed
<1>6. Unborn'
  BY <1>1, <1>2, ClientsAssumption DEF Unborn, ListInv
<1> QED BY <1>4, <1>5, <1>6 DEF ListInv

\* The position of the client that is freed joins the free list, also when the
\* thread meant another client, or was overtaken.
LEMMA terminateClientList ==
  ASSUME TypeInv, ListInv, NEW t \in Threads, terminateClient(t)
  PROVE  ListInv'
<1> DEFINE id == cid[ptr[t]]
           d == client_list[id]
<1>1. cid' = cid /\ peer' = peer /\ accept' = accept
  BY DEF terminateClient, kernel
<1>2. CASE ~Registered(id)
  <2>1. mem' = mem /\ client_list' = client_list /\ free_ids' = free_ids
    BY <1>2 DEF terminateClient
  <2> QED BY <1>1, <2>1 DEF ListInv, FreeListExact, Unborn
<1>3. CASE Registered(id)
  <2>1. /\ mem' = [mem EXCEPT ![d] = "freed"]
        /\ client_list' = [client_list EXCEPT ![id] = NoClient]
        /\ free_ids' = Append(free_ids, id)
    BY <1>3 DEF terminateClient
  <2>2. /\ mem \in [Clients -> {"unborn", "live", "freed"}] /\ cid \in [Clients -> Nat]
        /\ client_list \in Seq(Clients \cup {NoClient}) /\ free_ids \in Seq(Nat)
    BY DEF TypeInv, TypeOK, ObjectsType, ListsType
  <2>3. id \in DOMAIN client_list /\ d \in Clients /\ id \in Nat
    <3>1. id \in DOMAIN client_list /\ d # NoClient
      BY <1>3 DEF Registered
    <3>2. DOMAIN client_list = 1 .. Len(client_list) /\ Len(client_list) \in Nat
      BY <2>2, LenProperties
    <3>3. d \in Clients \cup {NoClient}
      BY <2>2, <3>1, <3>2, ElementOfSeq
    <3> QED BY <3>1, <3>2, <3>3
  <2>4. /\ Distinct(free_ids)
        /\ Elements(free_ids) = {p \in DOMAIN client_list : client_list[p] = NoClient}
        /\ \A c \in Clients, p \in DOMAIN client_list :
             client_list[p] = c <=> (mem[c] = "live" /\ cid[c] = p)
        /\ \A c \in Clients : mem[c] = "live" => cid[c] \in DOMAIN client_list
    BY FreeListParts DEF ListInv
  <2>5. mem[d] = "live" /\ cid[d] = id
    BY <2>3, <2>4
  <2> HIDE DEF id, d
  <2>6. id \notin Elements(free_ids)
    BY <1>3, <2>4 DEF Registered
  <2>7. Distinct(free_ids') /\ Elements(free_ids') = Elements(free_ids) \cup {id}
    BY <2>1, <2>2, <2>3, <2>4, <2>6, WithOneMore
  <2>8. DOMAIN client_list' = DOMAIN client_list
    BY <2>1
  <2>9. Elements(free_ids') = {p \in DOMAIN client_list' : client_list'[p] = NoClient}
    BY <2>1, <2>3, <2>4, <2>7, <2>8
  <2>10. \A c \in Clients, p \in DOMAIN client_list' :
           client_list'[p] = c <=> (mem'[c] = "live" /\ cid'[c] = p)
    <3> SUFFICES ASSUME NEW c \in Clients, NEW p \in DOMAIN client_list
                 PROVE  client_list'[p] = c <=> (mem'[c] = "live" /\ cid[c] = p)
      BY <1>1, <2>8
    <3>1. client_list'[p] = IF p = id THEN NoClient ELSE client_list[p]
      BY <2>1
    <3>2. mem'[c] = IF c = d THEN "freed" ELSE mem[c]
      BY <2>1, <2>2
    <3> QED BY <2>3, <2>4, <2>5, <3>1, <3>2, ClientsAssumption DEF d
  <2>11. \A c \in Clients : mem'[c] = "live" => cid'[c] \in DOMAIN client_list'
    BY <1>1, <2>1, <2>2, <2>4, <2>8
  <2>12. FreeListExact'
    BY <2>7, <2>9, <2>10, <2>11, FreeListPrimed
  <2>13. Unborn'
    BY <1>1, <2>1, <2>2, <2>5 DEF ListInv, Unborn
  <2> QED BY <2>12, <2>13 DEF ListInv
<1> QED BY <1>2, <1>3

\* Any other step leaves the lists and the life of the objects alone.
LEMMA OthersList ==
  ASSUME TypeInv, ListInv, NEW t \in Threads, ThreadNext(t),
         ~addClient, ~terminateClient(t)
  PROVE  ListInv'
<1>1. UNCHANGED <<lists, mem, cid, peer>>
  <2>1. CASE t = Listener /\ ListenerNext
    BY <2>1 DEF ListenerNext, postAcceptExEvent, Dequeue, Dispatch, PushToAssembler, HangUp,
                CompleteSend, kernel, objects
  <2>2. CASE t \in Workers /\ WorkerNext(t)
    BY <2>2 DEF WorkerNext, PopClientId, Feed, createRequest, DisconnectFaulty, kernel, objects
  <2>3. CASE t \in Apps /\ NextRequest(t)
    BY <2>3 DEF NextRequest, kernel, objects
  <2>4. CASE \/ getClient(t) \/ Enqueue(t)
             \/ postReceiveEvent(t) \/ postSendEvent(t) \/ CountPosted(t) \/ PostFailed(t)
    BY <2>4 DEF getClient, Enqueue, postReceiveEvent, postSendEvent, CountPosted, PostFailed,
                kernel, objects
  <2>5. CASE DropGuard(t) \/ Release(t) \/ CheckLast(t) \/ Unlock(t)
    BY <2>5 DEF DropGuard, Release, CheckLast, Unlock, kernel, objects
  <2> QED BY <2>1, <2>2, <2>3, <2>4, <2>5 DEF ThreadNext
<1>2. accept' = accept \/ accept' \in {"posted", "none"}
  <2>1. CASE t = Listener /\ ListenerNext
    BY <2>1 DEF ListenerNext, postAcceptExEvent, Dequeue, Dispatch, PushToAssembler, HangUp,
                CompleteSend, kernel
  <2>2. CASE t \in Workers /\ WorkerNext(t)
    BY <2>2 DEF WorkerNext, PopClientId, Feed, createRequest, DisconnectFaulty, kernel
  <2>3. CASE t \in Apps /\ NextRequest(t)
    BY <2>3 DEF NextRequest, kernel
  <2>4. CASE \/ getClient(t) \/ Enqueue(t)
             \/ postReceiveEvent(t) \/ postSendEvent(t) \/ CountPosted(t) \/ PostFailed(t)
    BY <2>4 DEF getClient, Enqueue, postReceiveEvent, postSendEvent, CountPosted, PostFailed,
                kernel
  <2>5. CASE DropGuard(t) \/ Release(t) \/ CheckLast(t) \/ Unlock(t)
    BY <2>5 DEF DropGuard, Release, CheckLast, Unlock, kernel
  <2> QED BY <2>1, <2>2, <2>3, <2>4, <2>5 DEF ThreadNext
<1>3. FreeListExact'
  BY <1>1 DEF ListInv, FreeListExact, lists
<1>4. Unborn'
  BY <1>1, <1>2, ClientsAssumption DEF ListInv, Unborn
<1> QED BY <1>3, <1>4 DEF ListInv

LEMMA KernelNextList ==
  ASSUME TypeInv, ListInv, KernelNext
  PROVE  ListInv'
<1>1. PICK d \in Clients : \/ Connect(d) \/ PeerCloses(d)
                           \/ ReceiveCompletes(d) \/ ReceiveEnds(d) \/ SendCompletes(d)
  BY DEF KernelNext
<1>2. UNCHANGED <<lists, mem, cid>>
  BY <1>1 DEF Connect, PeerCloses, ReceiveCompletes, ReceiveEnds, SendCompletes, objects
<1>3. FreeListExact'
  BY <1>2 DEF ListInv, FreeListExact, lists
<1>4. peer \in [Clients -> {"absent", "open", "gone"}]
  BY DEF TypeInv, TypeOK, KernelType
<1>5. CASE Connect(d)
  BY <1>2, <1>3, <1>4, <1>5 DEF ListInv, Unborn, Connect
<1>6. CASE PeerCloses(d)
  BY <1>2, <1>3, <1>4, <1>6 DEF ListInv, Unborn, PeerCloses
<1>7. CASE ReceiveCompletes(d) \/ ReceiveEnds(d) \/ SendCompletes(d)
  BY <1>2, <1>3, <1>7 DEF ListInv, Unborn, ReceiveCompletes, ReceiveEnds, SendCompletes
<1> QED BY <1>1, <1>5, <1>6, <1>7

LEMMA InitList == Init => ListInv
<1> SUFFICES ASSUME Init PROVE ListInv
  OBVIOUS
<1>1. /\ client_list = <<>> /\ free_ids = <<>> /\ accept = "posted"
      /\ \A c \in Clients : mem[c] = "unborn"
  BY DEF Init
<1>2. FreeListExact
  BY <1>1 DEF FreeListExact
<1>3. Unborn
  BY <1>1, ClientsAssumption DEF Unborn
<1> QED BY <1>2, <1>3 DEF ListInv

LEMMA NextList == ASSUME TypeInv, ListInv, [Next]_vars PROVE ListInv'
<1>1. CASE KernelNext
  BY <1>1, KernelNextList
<1>2. ASSUME NEW t \in Threads, ThreadNext(t) PROVE ListInv'
  BY <1>2, addClientList, terminateClientList, OthersList
<1>3. CASE UNCHANGED vars
  BY <1>3 DEF vars, objects, lists, kernel, ListInv, FreeListExact, Unborn
<1> QED BY <1>1, <1>2, <1>3 DEF Next

\* Ids are handed out once: the free list holds exactly the empty positions of the
\* client list, each once, and every live client sits at its own id, for any number of
\* clients and of threads that terminate the same client.
THEOREM FreeListKept == Spec => []FreeListExact
<1>1. Init => TypeInv /\ ListInv
  BY InitType, InitList
<1>2. TypeInv /\ ListInv /\ [Next]_vars => TypeInv' /\ ListInv'
  BY NextType, NextList
<1>3. ListInv => FreeListExact
  BY DEF ListInv
<1> QED BY <1>1, <1>2, <1>3, PTL DEF Spec
=============================================================================
