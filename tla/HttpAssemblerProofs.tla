------------------------- MODULE HttpAssemblerProofs -------------------------
(***************************************************************************)
(* Theorems about the parser, for every set of streams, every size of the  *)
(* buffer and every limit: the types, the order of the offsets, the room   *)
(* that feed leaves in the buffer, the fresh start of every message and    *)
(* the limits of the bodies.                                               *)
(***************************************************************************)
EXTENDS HttpAssembler, FiniteSetTheorems, TLAPS

Fields ==
  {"pos", "i_start", "i_end", "header_name_start", "header_name_end", "length_counter",
   "total_headers_counter", "last_checkpoint", "body_lenght", "current_chunk_length",
   "http_version", "method", "uri", "headers", "body", "state"}

\* What a state of the parser is, as far as the invariants tell.
Typed(s) ==
  /\ DOMAIN s = Fields
  /\ s.http_version \in Versions \cup {"UNKNOWN"}
  /\ s.method \in Methods \cup {"UNKNOWN"}
  /\ s.state \in States

\* The word at hand lies before position limit; the checkpoint is the start of
\* this line or of an earlier one.
Ordered(s, limit) ==
  /\ s.i_start \in Nat /\ s.i_end \in Nat
  /\ s.i_start <= s.i_end /\ s.i_end <= limit
  /\ s.state = "HEADER_NAME" => s.last_checkpoint <= s.i_start
  /\ s.state = "HEADER_VALUE" =>
       /\ s.header_name_start \in Nat /\ s.header_name_end \in Nat
       /\ s.last_checkpoint <= s.header_name_start
       /\ s.header_name_start < s.header_name_end
       /\ s.header_name_end < s.i_start
  /\ s.state = "RESPONSE_OR_REQUEST" => s.last_checkpoint = -1

\* The position is below the end of the buffer's memory unless feed has just
\* filled it.
Placed ==
  /\ st.pos \in Nat /\ st.pos <= MaxBuffer
  /\ st.pos = MaxBuffer => pc \in {"feeding", "terminated"} /\ Len(buffer) = MaxBuffer
  /\ connections = 1 => st.pos <= Len(buffer)
  /\ st.last_checkpoint \in Int /\ st.last_checkpoint # 0
  /\ -1 <= st.last_checkpoint /\ st.last_checkpoint <= MaxBuffer

Typing ==
  /\ input \in Seq(STRING) /\ received \in 0 .. Len(input)
  /\ buffer \in Seq(STRING) /\ Len(buffer) <= MaxBuffer
  /\ Typed(st)
  /\ pc \in {"receiving", "feeding", "disconnected", "terminated"}
  /\ connections \in 1 .. MaxConnections

IInv ==
  /\ Typing
  /\ Placed
  /\ Ordered(st, st.pos)
  /\ RoomLeft
  /\ StartsFresh

-----------------------------------------------------------------------------
(* One byte. *)

\* What a byte does to a state that does not complete a message.
After(s, t) ==
  /\ Typed(t)
  /\ t.pos = s.pos
  /\ t.last_checkpoint \in {s.last_checkpoint, s.pos + 1}
  /\ t.state = "RESPONSE_OR_REQUEST" => s.state = "RESPONSE_OR_REQUEST"
  /\ Ordered(t, IF t.state = "ERROR" THEN s.pos ELSE s.pos + 1)

\* A state that may be given a byte.
Ready(s) ==
  /\ Typed(s)
  /\ s.pos \in Nat /\ s.last_checkpoint \in Int /\ s.last_checkpoint <= MaxBuffer
  /\ Ordered(s, s.pos)

\* An error keeps everything else.
LEMMA ErrorAfter ==
  ASSUME NEW s, Ready(s)  PROVE After(s, Error(s))
BY DEF Ready, After, Typed, Fields, States, Ordered, Error

\* One more byte of the word at hand.
LEMMA ExtendAfter ==
  ASSUME NEW s, Ready(s), s.state # "ERROR"  PROVE After(s, Extend(s))
BY DEF Ready, After, Typed, Fields, Ordered, Extend

\* A new word after this byte; the headers begin with a checkpoint.
LEMMA BeginAfter ==
  ASSUME NEW s, Ready(s), NEW state \in States \ {"RESPONSE_OR_REQUEST", "HEADER_NAME", "HEADER_VALUE", "ERROR"}
  PROVE  After(s, Begin(state, s))
BY DEF Ready, After, Typed, Fields, Ordered, Begin

\* The line that starts here is the new checkpoint.
LEMMA BeginHeadersAfter ==
  ASSUME NEW s, Ready(s)  PROVE After(s, BeginHeaders(s))
BY DEF Ready, After, Typed, Fields, States, Ordered, Begin, BeginHeaders

\* AfterSpaces stays in its word.
LEMMA AfterSpacesBounds ==
  ASSUME NEW s, Ready(s)
  PROVE  AfterSpaces(s) \in s.i_start .. s.i_end
<1> DEFINE positions == s.i_start .. s.i_end - 1
           spaces == {k \in positions : \A j \in s.i_start .. k : Byte(j) = "SP"}
<1>1. /\ s.i_start \in Nat /\ s.i_end \in Nat /\ s.i_start <= s.i_end
  BY DEF Ready, Ordered
<1>2. IsFiniteSet(positions) /\ Cardinality(positions) = s.i_end - s.i_start
  <2> DEFINE last == s.i_end - 1
  <2>1. s.i_start \in Int /\ last \in Int  BY <1>1
  <2> HIDE DEF last
  <2>2. /\ IsFiniteSet(s.i_start .. last)
        /\ Cardinality(s.i_start .. last) = IF s.i_start > last THEN 0 ELSE last - s.i_start + 1
    BY <2>1, FS_Interval
  <2> QED  BY <1>1, <2>2 DEF last
<1>3. /\ Cardinality(spaces) \in Nat
      /\ Cardinality(spaces) <= s.i_end - s.i_start
  BY <1>2, FS_Subset, FS_CardinalityType
<1> QED  BY <1>1, <1>3 DEF AfterSpaces

(* One lemma for each state of the parser. *)

LEMMA FirstWordAfter ==
  ASSUME NEW s, Ready(s), s.state = "RESPONSE_OR_REQUEST"
  PROVE  After(s, FirstWord(s))
<1> DEFINE word == Bytes(s.i_start, s.i_end)
           response == [Begin("RESPONSE_STATUS", s) EXCEPT !.http_version = word[1]]
           request == [Begin("REQUEST_URI", s) EXCEPT !.method = word[1]]
<1>1. After(s, Error(s))  BY ErrorAfter
<1>2. word[1] \in Versions => After(s, response)
  BY DEF Ready, After, Typed, Fields, States, Ordered, Begin
<1>3. word[1] \in Methods => After(s, request)
  BY DEF Ready, After, Typed, Fields, States, Ordered, Begin
<1>4. After(s, ExtendUnless(s.length_counter > MaxFirstWord, s))
  BY ErrorAfter, ExtendAfter DEF ExtendUnless
<1> QED  BY <1>1, <1>2, <1>3, <1>4 DEF FirstWord

LEMMA ResponseStatusAfter ==
  ASSUME NEW s, Ready(s), s.state = "RESPONSE_STATUS"
  PROVE  After(s, ResponseStatus(s))
<1>1. After(s, Begin("RESPONSE_HEADERS_START", s))  BY BeginAfter DEF States
<1>2. After(s, ExtendUnless(s.length_counter > MaxRequestLine \/ c \notin Digits, s))
  BY ErrorAfter, ExtendAfter DEF ExtendUnless
<1> QED  BY <1>1, <1>2, ErrorAfter DEF ResponseStatus

LEMMA ResponseHeadersStartAfter ==
  ASSUME NEW s, Ready(s), s.state = "RESPONSE_HEADERS_START"
  PROVE  After(s, ResponseHeadersStart(s))
<1>1. After(s, ExtendUnless(s.length_counter > MaxRequestLine, s))  BY ErrorAfter, ExtendAfter DEF ExtendUnless
<1> QED  BY <1>1, BeginHeadersAfter DEF ResponseHeadersStart

LEMMA RequestUriAfter ==
  ASSUME NEW s, Ready(s), s.state = "REQUEST_URI"
  PROVE  After(s, RequestUri(s))
<1>1. After(s, ExtendUnless(s.length_counter > MaxRequestLine, s))  BY ErrorAfter, ExtendAfter DEF ExtendUnless
<1>2. After(s, [Begin("HTTP_VERSION", s) EXCEPT !.uri = Bytes(s.i_start, s.i_end)])
  BY DEF Ready, After, Typed, Fields, States, Ordered, Begin
<1> QED  BY <1>1, <1>2, ErrorAfter DEF RequestUri

LEMMA HttpVersionAfter ==
  ASSUME NEW s, Ready(s), s.state = "HTTP_VERSION"
  PROVE  After(s, HttpVersion(s))
<1>1. After(s, ExtendUnless(s.length_counter > MaxRequestLine, s))  BY ErrorAfter, ExtendAfter DEF ExtendUnless
<1>2. Byte(s.i_start) \in Versions =>
        After(s, [BeginHeaders(s) EXCEPT !.http_version = Byte(s.i_start)])
  BY DEF Ready, After, Typed, Fields, States, Ordered, Begin, BeginHeaders
<1> QED  BY <1>1, <1>2, ErrorAfter DEF HttpVersion

\* The name that ends here begins at or after the checkpoint.
LEMMA HeaderNameAfter ==
  ASSUME NEW s, Ready(s), s.state = "HEADER_NAME"
  PROVE  After(s, HeaderName(s))
<1> DEFINE named == [Begin("HEADER_VALUE", s) EXCEPT
                       !.header_name_start = AfterSpaces(s), !.header_name_end = s.i_end]
           value == s.headers[<<"content-length">>]
           body == [Begin("BODY", s) EXCEPT
                      !.body_lenght = parseNumber(value), !.length_counter = 0]
<1>1. After(s, ExtendUnless(s.total_headers_counter > MaxTotalHeaders, s))
  BY ErrorAfter, ExtendAfter DEF ExtendUnless
<1>2. AfterSpaces(s) < s.i_end => After(s, named)
  BY AfterSpacesBounds DEF Ready, After, Typed, Fields, States, Ordered, Begin
<1>3. After(s, EndOfHeaders(s))
  <2>1. After(s, Begin("CHUNK_SIZE", s))  BY BeginAfter DEF States
  <2>2. After(s, body)
    BY DEF Ready, After, Typed, Fields, States, Ordered, Begin
  <2> QED  BY <2>1, <2>2, ErrorAfter DEF EndOfHeaders
<1> QED  BY <1>1, <1>2, <1>3, ErrorAfter DEF HeaderName

LEMMA HeaderValueAfter ==
  ASSUME NEW s, Ready(s), s.state = "HEADER_VALUE"
  PROVE  After(s, HeaderValue(s))
<1> DEFINE name == toLowerAscii(Bytes(s.header_name_start, s.header_name_end))
           value == Bytes(AfterSpaces(s), s.i_end - 1)
           stored == [Begin("HEADER_NAME", s) EXCEPT
                        !.headers = Emplace(s.headers, name, value), !.last_checkpoint = s.pos + 1]
<1>1. After(s, ExtendUnless(s.total_headers_counter > MaxTotalHeaders, s))
  BY ErrorAfter, ExtendAfter DEF ExtendUnless
<1>2. After(s, stored)
  BY DEF Ready, After, Typed, Fields, States, Ordered, Begin
<1> QED  BY <1>1, <1>2, ErrorAfter DEF HeaderValue

LEMMA ChunkSizeAfter ==
  ASSUME NEW s, Ready(s), s.state = "CHUNK_SIZE"
  PROVE  After(s, ChunkSize(s))
<1> DEFINE length == Number(Bytes(s.i_start, s.i_end - 1), 16)
           last == [Begin("END_OF_CHUNKED", s) EXCEPT !.current_chunk_length = 0]
           chunk == [Begin("CHUNK", s) EXCEPT
                       !.current_chunk_length = length, !.body_lenght = @ + length,
                       !.body = <<>>, !.length_counter = 0]
<1>1. After(s, last)
  BY DEF Ready, After, Typed, Fields, States, Ordered, Begin
<1>2. After(s, chunk)
  <2> HIDE DEF length
  <2> QED  BY DEF Ready, After, Typed, Fields, States, Ordered, Begin
<1> QED  BY <1>1, <1>2, ErrorAfter, ExtendAfter DEF ChunkSize

LEMMA SkipLineAfter ==
  ASSUME NEW s, Ready(s), s.state = "CHUNK_SKIP_LINE"
  PROVE  After(s, SkipLine(s))
<1>1. After(s, [Begin("CHUNK_SIZE", s) EXCEPT !.current_chunk_length = 0])
  BY DEF Ready, After, Typed, Fields, States, Ordered, Begin
<1> QED  BY <1>1, ErrorAfter, ExtendAfter DEF SkipLine, ExtendCrLf

\* In a body nothing moves but the position.
LEMMA BodyAfter ==
  ASSUME NEW s, Ready(s), s.state = "BODY"
  PROVE  After(s, Body(s))
<1>1. After(s, s)  BY DEF Ready, After, Typed, Ordered
<1> QED  BY <1>1, ErrorAfter DEF Body

\* Counting a byte of the headers changes nothing of the above.
LEMMA CountedHeaderReady ==
  ASSUME NEW s, Ready(s)
  PROVE  /\ Ready(HeaderCounted(s))
         /\ HeaderCounted(s).state = s.state
         /\ \A t : After(HeaderCounted(s), t) => After(s, t)
BY DEF Ready, After, Typed, Fields, Ordered, HeaderCounted

\* All states together.
LEMMA ParsedAfter ==
  ASSUME NEW s, Ready(s), s.state # "ERROR"
  PROVE  After(s, Parsed(s))
<1> s.state \in States  BY DEF Ready, Typed
<1>1. CASE s.state = "RESPONSE_OR_REQUEST"  BY <1>1, FirstWordAfter DEF Parsed
<1>2. CASE s.state = "RESPONSE_STATUS"  BY <1>2, ResponseStatusAfter DEF Parsed
<1>3. CASE s.state = "RESPONSE_HEADERS_START"  BY <1>3, ResponseHeadersStartAfter DEF Parsed
<1>4. CASE s.state = "REQUEST_URI"  BY <1>4, RequestUriAfter DEF Parsed
<1>5. CASE s.state = "HTTP_VERSION"  BY <1>5, HttpVersionAfter DEF Parsed
<1>6. CASE s.state = "HEADER_NAME"  BY <1>6, CountedHeaderReady, HeaderNameAfter DEF Parsed
<1>7. CASE s.state = "HEADER_VALUE"  BY <1>7, CountedHeaderReady, HeaderValueAfter DEF Parsed
<1>8. CASE s.state = "BODY"  BY <1>8, BodyAfter DEF Parsed
<1>9. CASE s.state = "CHUNK_SIZE"  BY <1>9, ChunkSizeAfter DEF Parsed
<1>10. CASE s.state = "CHUNK"  BY <1>10, ErrorAfter, ExtendAfter DEF Parsed, Chunk
<1>11. CASE s.state = "CHUNK_SKIP_LINE"  BY <1>11, SkipLineAfter DEF Parsed
<1>12. CASE s.state = "END_OF_CHUNKED"  BY <1>12, ErrorAfter, ExtendAfter DEF Parsed, ExtendCrLf
<1> QED  BY <1>1, <1>2, <1>3, <1>4, <1>5, <1>6, <1>7, <1>8, <1>9, <1>10, <1>11, <1>12 DEF States

-----------------------------------------------------------------------------
(* The invariant. *)

\* A reset leaves a state like the first one.
LEMMA FreshReady ==
  /\ Typed(Fresh) /\ Ordered(Fresh, 0)
  /\ Fresh.pos = 0 /\ Fresh.last_checkpoint = -1
BY DEF Typed, Ordered, Fresh, Fields, States

\* resetState assigns every field: whatever the state was, a new one is left.
LEMMA ResetFresh ==
  ASSUME NEW s, Typed(s)
  PROVE  resetState(s) = Fresh
<1>1. resetState(s) = [field \in Fields |-> resetState(s)[field]]
  BY DEF resetState, Typed
<1>2. Fresh = [field \in Fields |-> Fresh[field]]
  BY DEF Fresh, Fields
<1> DEFINE r == resetState(s)
<1>3. /\ r.pos = 0 /\ r.i_start = 0 /\ r.i_end = 0
      /\ r.header_name_start = 0 /\ r.header_name_end = 0
      /\ r.length_counter = 0 /\ r.total_headers_counter = 0 /\ r.current_chunk_length = 0
      /\ r.last_checkpoint = -1 /\ r.body_lenght = -1
  BY DEF resetState, Typed, Fields
<1>4. /\ r.http_version = "UNKNOWN" /\ r.method = "UNKNOWN" /\ r.state = "RESPONSE_OR_REQUEST"
      /\ r.uri = <<>> /\ r.headers = NoHeaders /\ r.body = <<>>
  BY DEF resetState, Typed, Fields
<1>5. \A field \in Fields : r[field] = Fresh[field]
  <2> HIDE DEF r
  <2> QED  BY <1>3, <1>4 DEF Fresh, Fields
<1> QED  BY <1>1, <1>2, <1>5

\* The invariant holds at first, ...
LEMMA InitInv == Init => IInv
<1> SUFFICES ASSUME Init PROVE IInv
  OBVIOUS
<1>1. /\ input \in Seq(STRING) /\ received = 0 /\ buffer = <<>> /\ Len(buffer) = 0
      /\ st = Fresh /\ pc = "receiving" /\ connections = 1
  <2>1. 1 \in 1 .. MaxConnections  BY ConnectionsAssumption
  <2> QED  BY <2>1, InputsAssumption DEF Init
<1> QED  BY <1>1, FreshReady, BufferAssumption, ConnectionsAssumption
     DEF IInv, Typing, Placed, RoomLeft, StartsFresh

\* Bytes arrive: the parser keeps its state.
LEMMA ReceiveInv ==
  ASSUME IInv, ReceiveSome  PROVE IInv'
<1> USE DEF IInv, Typing
<1>1. PICK n \in 1 .. MaxBuffer :
        n <= MaxBuffer - Len(buffer) /\ n <= Len(input) - received /\ Receive(n)
  BY DEF ReceiveSome
<1> DEFINE segment == SubSeq(input, received + 1, received + n)
<1>2. segment \in Seq(STRING) /\ Len(segment) = n
  BY <1>1, BufferAssumption
<1>3. /\ buffer' \in Seq(STRING) /\ Len(buffer') = Len(buffer) + n
      /\ Len(buffer') <= MaxBuffer /\ received' \in 0 .. Len(input)
      /\ pc = "receiving" /\ pc' = "feeding"
      /\ UNCHANGED <<input, st, connections>>
  <2> HIDE DEF segment
  <2> QED  BY <1>1, <1>2, BufferAssumption DEF Receive, segment
<1>4. Typing'  BY <1>3
<1>5. Placed'  BY <1>3, BufferAssumption DEF Placed
<1> QED  BY <1>3, <1>4, <1>5 DEF RoomLeft, StartsFresh, Ordered

\* Another connection gets the id, and the state of the parser with it.
LEMMA ReconnectInv ==
  ASSUME IInv, Reconnect  PROVE IInv'
<1> USE DEF IInv, Typing
<1>1. /\ input' \in Seq(STRING) /\ received' = 0 /\ buffer' = <<>> /\ Len(buffer') = 0
      /\ pc \notin {"feeding", "terminated"} /\ pc' = "receiving" /\ st' = st
      /\ connections' \in 1 .. MaxConnections /\ connections' # 1
  <2>1. connections + 1 \in 1 .. MaxConnections  BY ConnectionsAssumption DEF Reconnect
  <2>2. input' \in Inputs[connections + 1]  BY DEF Reconnect
  <2>3. input' \in Seq(STRING)  BY <2>1, <2>2, InputsAssumption
  <2> QED  BY <2>1, <2>3 DEF Reconnect
<1>2. Typing'  BY <1>1, BufferAssumption
<1>3. Placed'  BY <1>1, BufferAssumption DEF Placed
<1> QED  BY <1>1, <1>2, <1>3, BufferAssumption DEF RoomLeft, StartsFresh, Ordered

\* The state with the byte counted may be given the byte.
LEMMA CountedReady ==
  ASSUME IInv
  PROVE  Ready(Counted) /\ Counted.state = st.state /\ Counted.pos = st.pos
         /\ Counted.last_checkpoint = st.last_checkpoint
BY BufferAssumption DEF IInv, Typing, Placed, Typed, Ordered, Ready, Counted, Fields

\* A byte that completes no message.
LEMMA ParseByteInv ==
  ASSUME IInv, ParseByte  PROVE IInv'
<1> DEFINE next == Parsed(Counted)
<1>1. /\ pc = "feeding" /\ st.state # "ERROR" /\ st.pos < Len(buffer)
      /\ st' = IF next.state = "ERROR" THEN next ELSE [next EXCEPT !.pos = @ + 1]
      /\ UNCHANGED <<input, received, buffer, pc, connections>>
  BY DEF ParseByte, InLoop
<1>2. After(Counted, next)  BY <1>1, CountedReady, ParsedAfter
<1> HIDE DEF next
<1>3. /\ st.pos \in Nat /\ st.last_checkpoint \in Int /\ st.last_checkpoint # 0
      /\ -1 <= st.last_checkpoint /\ st.last_checkpoint <= MaxBuffer
      /\ Len(buffer) \in Nat /\ Len(buffer) <= MaxBuffer /\ MaxBuffer \in Nat
  BY BufferAssumption DEF IInv, Typing, Placed
<1>4. /\ Typed(next) /\ next.pos = st.pos
      /\ next.last_checkpoint \in {st.last_checkpoint, st.pos + 1}
      /\ next.state = "RESPONSE_OR_REQUEST" => st.state = "RESPONSE_OR_REQUEST"
      /\ Ordered(next, IF next.state = "ERROR" THEN st.pos ELSE st.pos + 1)
  BY <1>2, CountedReady DEF After
<1>5. /\ Typed(st') /\ Ordered(st', (st')["pos"])
      /\ (st').pos = IF next.state = "ERROR" THEN st.pos ELSE st.pos + 1
      /\ (st').last_checkpoint \in {st.last_checkpoint, st.pos + 1}
      /\ (st').state = next.state
  <2>1. CASE next.state = "ERROR"  BY <2>1, <1>1, <1>4
  <2>2. CASE next.state # "ERROR"  BY <2>2, <1>1, <1>3, <1>4 DEF Typed, Fields, Ordered
  <2> QED  BY <2>1, <2>2
<1>6. Typing'  BY <1>1, <1>5 DEF IInv, Typing, Typed
<1>7. Placed'  BY <1>1, <1>3, <1>5 DEF IInv, Placed
<1>8. Ordered(st, st.pos)'  BY <1>5 DEF Ordered
<1>9. RoomLeft' /\ StartsFresh'  BY <1>1, <1>3, <1>5 DEF RoomLeft, StartsFresh, States
<1> QED  BY <1>6, <1>7, <1>8, <1>9 DEF IInv

\* Every delivery cuts the bytes of a message off and goes on at position 0.
LEMMA DeliverInv ==
  ASSUME IInv, InLoop, NEW message, NEW next, Deliver(message, next),
         Typed(next), Ordered(next, 0), next.pos = 0,
         next.last_checkpoint \in {-1, st.last_checkpoint},
         next.state = "RESPONSE_OR_REQUEST" => next = Fresh
  PROVE  IInv'
<1>1. /\ pc = "feeding" /\ st.pos < Len(buffer) /\ st.pos \in Nat
      /\ buffer' = SubSeq(buffer, st.pos + 2, Len(buffer)) /\ st' = next
      /\ UNCHANGED <<input, received, pc, connections>>
      /\ buffer \in Seq(STRING) /\ Len(buffer) \in Nat /\ Len(buffer) <= MaxBuffer
      /\ MaxBuffer \in Nat \ {0}
  BY BufferAssumption DEF IInv, Typing, Placed, InLoop, Deliver
<1>2. buffer' \in Seq(STRING) /\ Len(buffer') = Len(buffer) - st.pos - 1
  BY <1>1, SMTT(30)
<1>3. Typing'  BY <1>1, <1>2, SMTT(30) DEF IInv, Typing
<1>4. Placed'
  <2>1. (st').pos = 0 /\ (st').last_checkpoint \in {-1, st.last_checkpoint}  BY <1>1
  <2>2. 0 <= Len(buffer')
    <3>1. Len(buffer') \in Nat  BY <1>2
    <3> QED  BY <3>1
  <2>3. /\ st.last_checkpoint \in Int /\ st.last_checkpoint # 0
        /\ -1 <= st.last_checkpoint /\ st.last_checkpoint <= MaxBuffer
    BY DEF IInv, Placed
  <2>4. MaxBuffer \in Nat /\ MaxBuffer # 0
    BY BufferAssumption
  <2>5. /\ (st').last_checkpoint \in Int /\ (st').last_checkpoint # 0
        /\ -1 <= (st').last_checkpoint /\ (st').last_checkpoint <= MaxBuffer
    BY <2>1, <2>3, <2>4
  <2> QED  BY <2>1, <2>2, <2>4, <2>5 DEF Placed
<1>5. Ordered(st, st.pos)'  BY <1>1
<1>6. RoomLeft' /\ StartsFresh'  BY <1>1 DEF RoomLeft, StartsFresh
<1> QED  BY <1>3, <1>4, <1>5, <1>6 DEF IInv

LEMMA DeliveriesInv ==
  ASSUME IInv, DeliverHeaders \/ DeliverBody \/ DeliverChunk \/ DeliverEndOfChunks
  PROVE  IInv'
<1>0. resetState(st) = Fresh
  BY ResetFresh DEF IInv, Typing
<1>1. CASE DeliverHeaders
  BY <1>0, <1>1, FreshReady, DeliverInv DEF DeliverHeaders
<1>2. CASE DeliverBody
  BY <1>0, <1>2, FreshReady, DeliverInv DEF DeliverBody
<1>3. CASE DeliverChunk
  <2> DEFINE next == [Counted EXCEPT !.pos = 0, !.i_start = 0, !.i_end = 0,
                        !.current_chunk_length = 0, !.headers = NoHeaders, !.body = <<>>,
                        !.state = "CHUNK_SKIP_LINE"]
  <2>1. /\ Typed(next) /\ Ordered(next, 0) /\ next.pos = 0
        /\ next.last_checkpoint = st.last_checkpoint /\ next.state = "CHUNK_SKIP_LINE"
    BY CountedReady DEF Ready, Typed, Fields, States, Ordered
  <2>2. InLoop /\ Deliver(Message(WholeBody(st.current_chunk_length)), next)
    BY <1>3 DEF DeliverChunk
  <2> HIDE DEF next
  <2> QED  BY <2>1, <2>2, DeliverInv
<1>4. CASE DeliverEndOfChunks
  BY <1>0, <1>4, FreshReady, DeliverInv DEF DeliverEndOfChunks
<1> QED  BY <1>1, <1>2, <1>3, <1>4

\* feed returns and the position says how full the buffer is.
LEMMA ReturnInv ==
  ASSUME IInv, Return  PROVE IInv'
<1>1. /\ pc' = "receiving" /\ UNCHANGED <<input, received, buffer, st, connections>>
      /\ ~ (st.pos < Len(buffer)) /\ st.pos # MaxBuffer
  BY DEF Return, HandOver, LoopEnds, InLoop, BufferFull
<1>2. /\ st.pos \in Nat /\ st.pos <= MaxBuffer /\ MaxBuffer \in Nat /\ Len(buffer) \in Nat
  BY BufferAssumption DEF IInv, Typing, Placed
<1>3. Typing'  BY <1>1 DEF IInv, Typing
<1>4. Placed'  BY <1>1 DEF IInv, Placed
<1> QED  BY <1>1, <1>2, <1>3, <1>4 DEF IInv, RoomLeft, StartsFresh

\* A full buffer in a body is emptied.
LEMMA FlushBodyInv ==
  ASSUME IInv, FlushBody  PROVE IInv'
<1>1. /\ pc' = "receiving" /\ UNCHANGED <<input, received, connections>>
      /\ buffer' = <<>> /\ Len(buffer') = 0 /\ st.state \in {"BODY", "CHUNK"}
      /\ st' = [st EXCEPT !.body = @ \o Bytes(st.i_start, st.pos),
                          !.pos = 0, !.i_start = 0, !.i_end = 0]
  BY DEF FlushBody, HandOver
<1>2. Typed(st)  BY DEF IInv, Typing
<1>3. /\ Typed(st') /\ Ordered(st', 0) /\ (st').pos = 0 /\ (st').state = st.state
      /\ (st').last_checkpoint = st.last_checkpoint
  BY <1>1, <1>2 DEF Typed, Fields, Ordered
<1>4. Typing'  BY <1>1, <1>3, BufferAssumption DEF IInv, Typing, Typed
<1>5. Placed'  BY <1>1, <1>3, BufferAssumption DEF IInv, Placed
<1>6. Ordered(st, st.pos)'  BY <1>3
<1> QED  BY <1>1, <1>3, <1>4, <1>5, <1>6, BufferAssumption DEF IInv, RoomLeft, StartsFresh

\* Everything moves back by the checkpoint, which is not past the word at hand.
LEMMA RebasedReady ==
  ASSUME NEW s, Typed(s), NEW n \in Nat \ {0}, s.last_checkpoint = n, s.pos \in Nat,
         n <= s.pos, Ordered(s, s.pos)
  PROVE  LET t == Rebased(s, n) IN
         /\ Typed(t) /\ Ordered(t, s.pos - n) /\ t.pos = s.pos - n
         /\ t.last_checkpoint = -1 /\ t.state = s.state
BY DEF Rebased, Back, Typed, Fields, Ordered

\* A full buffer elsewhere loses the lines before the checkpoint.
LEMMA DropParsedLinesInv ==
  ASSUME IInv, DropParsedLines  PROVE IInv'
<1> DEFINE n == st.last_checkpoint
<1>1. /\ pc' = "receiving" /\ UNCHANGED <<input, received, connections>>
      /\ buffer' = Compacted(n) /\ st' = Rebased(st, n)
      /\ st.pos = MaxBuffer /\ n # -1
  BY DEF DropParsedLines, HandOver, BufferFull
<1>2. /\ n \in Nat \ {0} /\ n <= MaxBuffer /\ MaxBuffer \in Nat /\ Len(buffer) = MaxBuffer
      /\ buffer \in Seq(STRING)
  BY <1>1, BufferAssumption DEF IInv, Typing, Placed
<1>3. /\ Typed(st') /\ Ordered(st', MaxBuffer - n) /\ (st').pos = MaxBuffer - n
      /\ (st').last_checkpoint = -1 /\ (st').state = st.state
  BY <1>1, <1>2, RebasedReady DEF IInv, Typing, Placed
<1>4. buffer' \in Seq(STRING) /\ Len(buffer') = MaxBuffer - n
  <2> HIDE DEF n
  <2>1. \A k \in 1 .. MaxBuffer - n : k <= n => n + k \in 1 .. MaxBuffer
    BY <1>2
  <2>2. \A k \in 1 .. MaxBuffer - n : (IF k <= n THEN buffer[n + k] ELSE buffer[k]) \in STRING
    BY <1>2
  <2>3. \A k \in 1 .. MaxBuffer - n : k \in Nat  OBVIOUS
  <2>4. MaxBuffer - n \in Nat  BY <1>2
  <2> QED  BY <1>1, <1>2, <2>2, <2>4 DEF Compacted
<1> HIDE DEF n
<1>5. Typing'  BY <1>1, <1>2, <1>3, <1>4 DEF IInv, Typing, Typed
<1>6. Placed'  BY <1>1, <1>2, <1>3, <1>4 DEF IInv, Placed
<1>7. Ordered(st, st.pos)'  BY <1>3
<1>8. RoomLeft'  BY <1>2, <1>4 DEF RoomLeft
<1>9. st.state # "RESPONSE_OR_REQUEST"
  BY <1>1 DEF IInv, Ordered, n
<1> QED  BY <1>3, <1>5, <1>6, <1>7, <1>8, <1>9 DEF IInv, StartsFresh

\* The exception leaves everything as it is.
LEMMA ThrowInv ==
  ASSUME IInv, Throw  PROVE IInv'
<1>1. /\ pc' = "terminated" /\ UNCHANGED <<input, received, buffer, st, connections>>
      /\ pc = "feeding"
  BY DEF Throw, LoopEnds
<1>2. Typing'  BY <1>1 DEF IInv, Typing
<1>3. Placed'  BY <1>1 DEF IInv, Placed
<1> QED  BY <1>1, <1>2, <1>3 DEF IInv, RoomLeft, StartsFresh

\* An error starts over with an empty buffer.
LEMMA ReportErrorInv ==
  ASSUME IInv, ReportError  PROVE IInv'
<1>1. /\ pc' = "disconnected" /\ UNCHANGED <<input, received, connections>>
      /\ buffer' = <<>> /\ Len(buffer') = 0 /\ st' = Fresh
  BY ResetFresh DEF ReportError, IInv, Typing
<1>2. Typing'  BY <1>1, FreshReady, BufferAssumption DEF IInv, Typing, Typed
<1>3. Placed'  BY <1>1, FreshReady, BufferAssumption DEF Placed
<1> QED  BY <1>1, <1>2, <1>3, FreshReady DEF IInv, RoomLeft, StartsFresh

\* ... and every step keeps it.
LEMMA StepInv == IInv /\ [Next]_vars => IInv'
<1> SUFFICES ASSUME IInv, [Next]_vars  PROVE IInv'
  OBVIOUS
<1>1. CASE UNCHANGED vars
  BY <1>1 DEF vars, IInv, Typing, Typed, Placed, Ordered, RoomLeft, StartsFresh
<1>2. CASE ReceiveSome  BY <1>2, ReceiveInv
<1>3. CASE Reconnect  BY <1>3, ReconnectInv
<1>4. CASE Feed
  BY <1>4, ParseByteInv, DeliveriesInv, ReturnInv, FlushBodyInv, ThrowInv, DropParsedLinesInv,
     ReportErrorInv
     DEF Feed
<1> QED  BY <1>1, <1>2, <1>3, <1>4 DEF Next

(* The types hold in every reachable state. *)
THEOREM TypeCorrect == Spec => []TypeOK
<1>1. IInv => TypeOK
  BY DEF IInv, Typing, Typed, TypeOK, Fresh, Fields
<1> QED  BY <1>1, InitInv, StepInv, PTL DEF Spec

(* The offsets of the parser stay in order, whatever feed moves or drops   *)
(* (HttpAssembler.cpp:657-671) and whichever connection it is given next.  *)
THEOREM OffsetsKept == Spec => []OffsetsInOrder
<1>1. IInv => OffsetsInOrder
  BY DEF IInv, Placed, Ordered, OffsetsInOrder
<1> QED  BY <1>1, InitInv, StepInv, PTL DEF Spec

(* Whatever arrives and however it is cut, feed returns with room in the   *)
(* buffer for the next WSARecv (HttpAssembler.cpp:623-672).                *)
THEOREM RoomKept == Spec => []RoomLeft
<1>1. IInv => RoomLeft
  BY DEF IInv
<1> QED  BY <1>1, InitInv, StepInv, PTL DEF Spec

(* Every message starts with a state like a new one, whichever fields the  *)
(* messages before it set: resetState, assignment by assignment, forgets   *)
(* none of them (lemma ResetFresh; HttpAssembler.cpp:733-760).             *)
THEOREM FreshStart == Spec => []StartsFresh
<1>1. IInv => StartsFresh
  BY DEF IInv
<1> QED  BY <1>1, InitInv, StepInv, PTL DEF Spec

-----------------------------------------------------------------------------
(* No body beyond the limits.  A body that does not fit in the buffer is   *)
(* held in two places, and what is in both together is what length_counter *)
(* has counted.                                                            *)

InBody == {"BODY", "CHUNK"}

\* The body that the parser holds when the next byte is the one at this position.
Held(s, position) ==
  /\ s.body \in Seq(STRING) /\ Len(s.body) <= MaxBodySize
  /\ s.length_counter \in Nat
  /\ s.state \notin InBody \cup {"ERROR"} => s.body = <<>>
  /\ s.state \in InBody =>
       /\ Len(s.body) + position - s.i_start = s.length_counter
       /\ s.length_counter <= MaxBodySize
       /\ s.body # <<>> => s.i_start = 0
  /\ s.state = "BODY" => ~IsChunked(s.headers)
  /\ s.state = "CHUNK" => s.current_chunk_length <= MaxBodyMemoryBuffer

\* Whatever was completed is within the limits.
Completed ==
  \E S : /\ result \in Seq(S) /\ out \in Seq(S)
         /\ \A m \in S : Limited(m)

LInv == IInv /\ Held(st, st.pos) /\ Completed

-----------------------------------------------------------------------------
(* One byte. *)

\* What the byte finds: it is counted, but not yet passed.
CountedHeld(s) ==
  /\ Ready(s)
  /\ s.body \in Seq(STRING) /\ Len(s.body) <= MaxBodySize
  /\ s.length_counter \in Nat
  /\ s.state \notin InBody \cup {"ERROR"} => s.body = <<>>

\* An error changes nothing but the state.
LEMMA ErrorHeld ==
  ASSUME NEW s, CountedHeld(s)  PROVE Held(Error(s), s.pos + 1)
BY DEF CountedHeld, Ready, Typed, Fields, Held, InBody, Error

\* Outside a body no word touches the body.
LEMMA ExtendHeld ==
  ASSUME NEW s, CountedHeld(s), s.state \notin InBody
  PROVE  Held(Extend(s), s.pos + 1)
BY DEF CountedHeld, Ready, Typed, Fields, Held, InBody, Extend

\* Neither does the start of one.
LEMMA BeginHeld ==
  ASSUME NEW s, CountedHeld(s), s.state \notin InBody \cup {"ERROR"}, NEW state \in States \ InBody
  PROVE  Held(Begin(state, s), s.pos + 1)
BY DEF CountedHeld, Ready, Typed, Fields, Held, InBody, Begin

LEMMA BeginHeadersHeld ==
  ASSUME NEW s, CountedHeld(s), s.state \notin InBody \cup {"ERROR"}
  PROVE  Held(BeginHeaders(s), s.pos + 1)
BY DEF CountedHeld, Ready, Typed, Fields, Held, InBody, Begin, BeginHeaders

\* The start of the request, up to its first header.
LEMMA StartHeld ==
  ASSUME NEW s, CountedHeld(s),
         s.state \in {"RESPONSE_OR_REQUEST", "RESPONSE_STATUS", "RESPONSE_HEADERS_START",
                      "REQUEST_URI", "HTTP_VERSION"}
  PROVE  Held(Parsed(s), s.pos + 1)
<1> s.state \notin InBody \cup {"ERROR"}  BY DEF InBody
<1>1. \A tooLong : Held(ExtendUnless(tooLong, s), s.pos + 1)
  BY ErrorHeld, ExtendHeld DEF ExtendUnless
<1>2. \A w, v : /\ Held([Begin("RESPONSE_STATUS", s) EXCEPT !.http_version = w], s.pos + 1)
                /\ Held([Begin("REQUEST_URI", s) EXCEPT !.method = w], s.pos + 1)
                /\ Held([Begin("HTTP_VERSION", s) EXCEPT !.uri = w], s.pos + 1)
                /\ Held([BeginHeaders(s) EXCEPT !.http_version = w], s.pos + 1)
  BY DEF CountedHeld, Ready, Typed, Fields, Held, InBody, Begin, BeginHeaders
<1>3. CASE s.state = "RESPONSE_OR_REQUEST"
  BY <1>1, <1>2, <1>3, ErrorHeld DEF Parsed, FirstWord
<1>4. CASE s.state = "RESPONSE_STATUS"
  <2>1. Held(Begin("RESPONSE_HEADERS_START", s), s.pos + 1)  BY BeginHeld DEF States, InBody
  <2> QED  BY <1>1, <1>4, <2>1, ErrorHeld DEF Parsed, ResponseStatus
<1>5. CASE s.state = "RESPONSE_HEADERS_START"
  BY <1>1, <1>5, BeginHeadersHeld DEF Parsed, ResponseHeadersStart
<1>6. CASE s.state = "REQUEST_URI"
  BY <1>1, <1>2, <1>6, ErrorHeld DEF Parsed, RequestUri
<1>7. CASE s.state = "HTTP_VERSION"
  BY <1>1, <1>2, <1>7, ErrorHeld DEF Parsed, HttpVersion
<1> QED  BY <1>3, <1>4, <1>5, <1>6, <1>7

\* A body begins behind the blank line, empty, and not if the request is chunked.
LEMMA HeaderNameHeld ==
  ASSUME NEW s, CountedHeld(s), s.state = "HEADER_NAME"
  PROVE  Held(HeaderName(s), s.pos + 1)
<1> s.state \notin InBody \cup {"ERROR"}  BY DEF InBody
<1> DEFINE value == s.headers[<<"content-length">>]
           named == [Begin("HEADER_VALUE", s) EXCEPT
                       !.header_name_start = AfterSpaces(s), !.header_name_end = s.i_end]
<1>1. Held(ExtendUnless(s.total_headers_counter > MaxTotalHeaders, s), s.pos + 1)
  BY ErrorHeld, ExtendHeld DEF ExtendUnless
<1>2. Held(named, s.pos + 1)
  BY DEF CountedHeld, Ready, Typed, Fields, Held, InBody, Begin
<1>3. ~IsChunked(s.headers) =>
        \A n : Held([Begin("BODY", s) EXCEPT !.body_lenght = n, !.length_counter = 0], s.pos + 1)
  BY LimitsAssumption DEF CountedHeld, Ready, Typed, Fields, Held, InBody, Begin
<1>4. Held(EndOfHeaders(s), s.pos + 1)
  <2>1. Held(Begin("CHUNK_SIZE", s), s.pos + 1)  BY BeginHeld DEF States, InBody
  <2> QED  BY <1>3, <2>1, ErrorHeld DEF EndOfHeaders
<1> QED  BY <1>1, <1>2, <1>4, ErrorHeld DEF HeaderName

LEMMA HeaderValueHeld ==
  ASSUME NEW s, CountedHeld(s), s.state = "HEADER_VALUE"
  PROVE  Held(HeaderValue(s), s.pos + 1)
<1> s.state \notin InBody \cup {"ERROR"}  BY DEF InBody
<1>1. Held(ExtendUnless(s.total_headers_counter > MaxTotalHeaders, s), s.pos + 1)
  BY ErrorHeld, ExtendHeld DEF ExtendUnless
<1>2. \A h : Held([Begin("HEADER_NAME", s) EXCEPT !.headers = h, !.last_checkpoint = s.pos + 1],
                  s.pos + 1)
  BY DEF CountedHeld, Ready, Typed, Fields, Held, InBody, Begin
<1> QED  BY <1>1, <1>2, ErrorHeld DEF HeaderValue

\* A chunk begins empty, and its size is allowed.
LEMMA ChunkSizeHeld ==
  ASSUME NEW s, CountedHeld(s), s.state = "CHUNK_SIZE"
  PROVE  Held(ChunkSize(s), s.pos + 1)
<1> s.state \notin InBody \cup {"ERROR"}  BY DEF InBody
<1>1. Held([Begin("END_OF_CHUNKED", s) EXCEPT !.current_chunk_length = 0], s.pos + 1)
  BY DEF CountedHeld, Ready, Typed, Fields, Held, InBody, Begin
<1>2. \A length : length <= MaxBodyMemoryBuffer =>
        Held([Begin("CHUNK", s) EXCEPT
                !.current_chunk_length = length, !.body_lenght = @ + length,
                !.body = <<>>, !.length_counter = 0], s.pos + 1)
  BY LimitsAssumption DEF CountedHeld, Ready, Typed, Fields, Held, InBody, Begin
<1> QED  BY <1>1, <1>2, ErrorHeld, ExtendHeld DEF ChunkSize, ChunkSizeAllowed, InBody

LEMMA LineEndHeld ==
  ASSUME NEW s, CountedHeld(s), s.state \in {"CHUNK_SKIP_LINE", "END_OF_CHUNKED"}
  PROVE  Held(Parsed(s), s.pos + 1)
<1> s.state \notin InBody \cup {"ERROR"}  BY DEF InBody
<1>1. Held([Begin("CHUNK_SIZE", s) EXCEPT !.current_chunk_length = 0], s.pos + 1)
  BY DEF CountedHeld, Ready, Typed, Fields, Held, InBody, Begin
<1>2. Held(ExtendCrLf(s), s.pos + 1)  BY ErrorHeld, ExtendHeld DEF ExtendCrLf
<1> QED  BY <1>1, <1>2 DEF Parsed, SkipLine

\* A byte of a body is counted and stays where it is, in the buffer.
LEMMA BodyByteHeld ==
  ASSUME NEW s, CountedHeld(s), s.state \in InBody,
         Len(s.body) + s.pos + 1 - s.i_start = s.length_counter,
         s.body # <<>> => s.i_start = 0,
         s.state = "BODY" => ~IsChunked(s.headers),
         s.state = "CHUNK" => s.current_chunk_length <= MaxBodyMemoryBuffer
  PROVE  Held(Parsed(s), s.pos + 1)
<1> DEFINE next == IF s.state = "BODY" THEN Body(s) ELSE Chunk(s)
<1>0. Parsed(s) = next
  <2>1. CASE s.state = "BODY"  BY <2>1 DEF Parsed
  <2>2. CASE s.state = "CHUNK"  BY <2>2 DEF Parsed
  <2> QED  BY <2>1, <2>2 DEF InBody
<1>1. CASE s.length_counter > MaxBodySize
  BY <1>0, <1>1, ErrorHeld DEF Body, Chunk
<1>2. CASE ~ (s.length_counter > MaxBodySize)
  <2>1. s.length_counter <= MaxBodySize  BY <1>2, LimitsAssumption DEF CountedHeld
  <2>2. Held(s, s.pos + 1)
    BY <2>1 DEF CountedHeld, Ready, Ordered, Held, InBody
  <2>3. Held(Extend(s), s.pos + 1)
    BY <2>2 DEF CountedHeld, Ready, Typed, Fields, Held, Extend
  <2> QED  BY <1>0, <1>2, <2>2, <2>3 DEF Body, Chunk
<1> QED  BY <1>1, <1>2

\* All states together.
LEMMA ParsedHeld ==
  ASSUME LInv, InLoop  PROVE Held(Parsed(Counted), st.pos + 1)
<1>1. Ready(Counted) /\ Counted.state = st.state /\ Counted.pos = st.pos
  BY CountedReady DEF LInv
<1>2. /\ Counted.body = st.body /\ Counted.length_counter = st.length_counter + 1
      /\ Counted.i_start = st.i_start /\ Counted.headers = st.headers
      /\ Counted.current_chunk_length = st.current_chunk_length
  BY DEF LInv, IInv, Typing, Typed, Fields, Counted
<1>3. CountedHeld(Counted)
  BY <1>1, <1>2 DEF LInv, Held, CountedHeld, InBody
<1>4. st.state \in States \ {"ERROR"}
  BY DEF LInv, IInv, Typing, Typed, InLoop
<1>5. CASE st.state \in InBody
  <2>1. Len(st.body) + st.pos + 1 - st.i_start = st.length_counter + 1
    <3>1. /\ Len(st.body) + st.pos - st.i_start = st.length_counter
          /\ st.body \in Seq(STRING) /\ st.pos \in Nat /\ st.i_start \in Nat
      BY <1>5 DEF LInv, Held, IInv, Placed, Typing, Typed, Ordered
    <3>2. Len(st.body) \in Nat  BY <3>1
    <3> QED  BY <3>1, <3>2
  <2> QED  BY <1>1, <1>2, <1>3, <1>5, <2>1, BodyByteHeld DEF LInv, Held
<1>6. CASE st.state \in {"HEADER_NAME", "HEADER_VALUE"}
  <2> DEFINE s == HeaderCounted(Counted)
  <2>1. CountedHeld(s) /\ s.state = st.state /\ s.pos = st.pos
    <3>1. Ready(s)  BY <1>1, CountedHeaderReady
    <3> QED  BY <1>1, <1>3, <3>1 DEF CountedHeld, Ready, Typed, Fields, HeaderCounted
  <2> HIDE DEF s
  <2>2. Parsed(Counted) = IF st.state = "HEADER_NAME" THEN HeaderName(s) ELSE HeaderValue(s)
    BY <1>1, <1>6 DEF Parsed, s
  <2> QED  BY <1>6, <2>1, <2>2, HeaderNameHeld, HeaderValueHeld
<1>7. CASE st.state = "CHUNK_SIZE"
  BY <1>1, <1>3, <1>7, ChunkSizeHeld DEF Parsed
<1> QED  BY <1>1, <1>3, <1>4, <1>5, <1>6, <1>7, StartHeld, LineEndHeld DEF States, InBody

-----------------------------------------------------------------------------
(* The invariant. *)

\* A reset leaves no body.
LEMMA FreshHeld == Held(Fresh, 0)
BY LimitsAssumption DEF Held, Fresh, InBody

LEMMA InitLimits == Init => LInv
<1> SUFFICES ASSUME Init  PROVE LInv
  OBVIOUS
<1>1. Held(st, st.pos)  BY FreshHeld, FreshReady DEF Init
<1>2. Completed  BY DEF Init, Completed
<1> QED  BY <1>1, <1>2, InitInv DEF LInv

\* Bytes that are only counted and passed complete nothing.
LEMMA ParseByteLimits ==
  ASSUME LInv, ParseByte  PROVE Held(st, st.pos)' /\ Completed'
<1> DEFINE next == Parsed(Counted)
<1>1. /\ InLoop
      /\ st' = IF next.state = "ERROR" THEN next ELSE [next EXCEPT !.pos = @ + 1]
      /\ UNCHANGED <<result, out>>
  BY DEF ParseByte
<1>2. Held(next, st.pos + 1) /\ DOMAIN next = Fields /\ next.pos = st.pos
  BY <1>1, ParsedHeld, CountedReady, ParsedAfter DEF LInv, After, Typed, InLoop
<1> HIDE DEF next
<1>3. Held(st', (st')["pos"])
  <2>1. CASE next.state = "ERROR"  BY <1>1, <1>2, <2>1 DEF Held, InBody
  <2>2. CASE next.state # "ERROR"  BY <1>1, <1>2, <2>2 DEF Held, Fields
  <2> QED  BY <2>1, <2>2
<1> QED  BY <1>1, <1>3 DEF LInv, Completed, Held

\* A delivery adds one message.
LEMMA DeliverCompletes ==
  ASSUME Completed, NEW message, NEW next, Deliver(message, next), Limited(message)
  PROVE  Completed'
<1>1. PICK S : result \in Seq(S) /\ out \in Seq(S) /\ \A m \in S : Limited(m)
  BY DEF Completed
<1>2. result' \in Seq(S \cup {message}) /\ out' \in Seq(S \cup {message})
  BY <1>1 DEF Deliver
<1> QED  BY <1>1, <1>2 DEF Completed

\* Lengths add up.
LEMMA SliceLength ==
  ASSUME NEW bytes \in Seq(STRING), NEW i \in Nat, NEW j \in Nat, i <= j, j <= Len(bytes)
  PROVE  SubSeq(bytes, i + 1, j) \in Seq(STRING) /\ Len(SubSeq(bytes, i + 1, j)) = j - i
<1>1. CASE i = j  BY <1>1
<1>2. CASE i < j  BY <1>2
<1> QED  BY <1>1, <1>2

LEMMA ConcatLength ==
  ASSUME NEW s \in Seq(STRING), NEW t \in Seq(STRING)
  PROVE  s \o t \in Seq(STRING) /\ Len(s \o t) = Len(s) + Len(t)
OBVIOUS

LEMMA BytesLength ==
  ASSUME buffer \in Seq(STRING), NEW first \in Nat, NEW last \in Nat,
         first <= last, last <= Len(buffer)
  PROVE  Bytes(first, last) \in Seq(STRING) /\ Len(Bytes(first, last)) = last - first
  BY SliceLength DEF Bytes

\* The body that a byte completes is as long as was counted.
LEMMA WholeBodyLength ==
  ASSUME LInv, InLoop, st.state \in InBody, NEW length, length = st.length_counter + 1
  PROVE  Len(WholeBody(length)) = length
<1>1. /\ st.body \in Seq(STRING) /\ buffer \in Seq(STRING)
      /\ st.pos \in Nat /\ st.i_start \in Nat /\ st.i_start <= st.pos /\ st.pos < Len(buffer)
      /\ Len(st.body) + st.pos - st.i_start = st.length_counter
      /\ st.body # <<>> => st.i_start = 0
      /\ st.length_counter \in Nat
  BY SMTT(30) DEF LInv, Held, IInv, Typing, Placed, Ordered, InLoop
<1>2. CASE st.body = <<>>
  <2>1. length = (st.pos + 1) - st.i_start  BY <1>1, <1>2
  <2>2. st.i_start + length = st.pos + 1  BY <1>1, <2>1
  <2>3. Len(Bytes(st.i_start, st.pos + 1)) = (st.pos + 1) - st.i_start
    <3>1. /\ st.i_start \in Nat /\ st.pos + 1 \in Nat
          /\ st.i_start <= st.pos + 1 /\ st.pos + 1 <= Len(buffer)
      BY <1>1
    <3> QED  BY <1>1, <3>1, BytesLength
  <2> QED  BY <1>2, <2>1, <2>2, <2>3 DEF WholeBody
<1>3. CASE st.body # <<>>
  <2>1. st.i_start = 0 /\ length = Len(st.body) + st.pos + 1
    <3>1. Len(st.body) \in Nat  BY <1>1
    <3>2. st.i_start = 0  BY <1>1, <1>3
    <3>3. Len(st.body) + st.pos = st.length_counter
      <4>1. Len(st.body) + st.pos - 0 = st.length_counter  BY <1>1, <3>2
      <4> QED  BY <1>1, <3>1, <4>1
    <3> QED  BY <1>1, <3>1, <3>2, <3>3
  <2>2. /\ Bytes(0, st.pos + 1) \in Seq(STRING)
        /\ Len(Bytes(0, st.pos + 1)) = st.pos + 1
    <3>1. 0 \in Nat /\ st.pos + 1 \in Nat /\ 0 <= st.pos + 1 /\ st.pos + 1 <= Len(buffer)
      BY <1>1
    <3>2. (st.pos + 1) - 0 = st.pos + 1
      BY <1>1
    <3> QED  BY <1>1, <3>1, <3>2, BytesLength
  <2> DEFINE bytes == Bytes(0, st.pos + 1)
  <2>3. Len(st.body \o bytes) = Len(st.body) + (st.pos + 1)  BY <1>1, <2>2, ConcatLength
  <2>4. WholeBody(length) = st.body \o bytes
    <3>1. 0 + st.pos + 1 = st.pos + 1  BY <1>1
    <3> QED  BY <1>3, <2>1, <3>1 DEF WholeBody
  <2> HIDE DEF bytes
  <2> QED  BY <1>1, <2>1, <2>3, <2>4
<1> QED  BY <1>2, <1>3

LEMMA DeliveriesLimits ==
  ASSUME LInv, DeliverHeaders \/ DeliverBody \/ DeliverChunk \/ DeliverEndOfChunks
  PROVE  Held(st, st.pos)' /\ Completed'
<1>1. Completed /\ Limited(Message(<<>>))
  BY LimitsAssumption DEF LInv, Limited, Message
<1>0. resetState(st) = Fresh
  BY ResetFresh DEF LInv, IInv, Typing
<1>2. CASE DeliverHeaders \/ DeliverEndOfChunks
  <2>1. Deliver(Message(<<>>), Fresh)
    BY <1>0, <1>2 DEF DeliverHeaders, DeliverEndOfChunks
  <2>2. Completed'  BY <1>1, <2>1, DeliverCompletes
  <2>3. st' = Fresh  BY <2>1 DEF Deliver
  <2> QED  BY <2>2, <2>3, FreshHeld, FreshReady
<1>3. CASE DeliverBody
  <2> DEFINE message == Message(WholeBody(st.body_lenght))
  <2>1. /\ InLoop /\ st.state = "BODY" /\ Deliver(message, Fresh)
        /\ Counted.length_counter <= MaxBodySize /\ Counted.length_counter = st.body_lenght
    BY <1>0, <1>3 DEF DeliverBody, BodyEnds
  <2>2. Counted.length_counter = st.length_counter + 1
    BY DEF LInv, IInv, Typing, Typed, Fields, Counted
  <2>3. Len(WholeBody(st.body_lenght)) = st.body_lenght
    BY <2>1, <2>2, WholeBodyLength DEF InBody
  <2>4. ~IsChunked(st.headers)  BY <2>1 DEF LInv, Held
  <2>5. Limited(message)  BY <2>1, <2>3, <2>4 DEF Limited, Message
  <2> HIDE DEF message
  <2>6. Completed'  BY <1>1, <2>1, <2>5, DeliverCompletes
  <2>7. st' = Fresh  BY <2>1 DEF Deliver
  <2> QED  BY <2>6, <2>7, FreshHeld, FreshReady
<1>4. CASE DeliverChunk
  <2> DEFINE message == Message(WholeBody(st.current_chunk_length))
             next == [Counted EXCEPT !.pos = 0, !.i_start = 0, !.i_end = 0,
                        !.current_chunk_length = 0, !.headers = NoHeaders, !.body = <<>>,
                        !.state = "CHUNK_SKIP_LINE"]
  <2>1. /\ InLoop /\ st.state = "CHUNK" /\ Deliver(message, next)
        /\ Counted.length_counter = st.current_chunk_length
    BY <1>4 DEF DeliverChunk, ChunkEnds
  <2>2. Counted.length_counter = st.length_counter + 1
    BY DEF LInv, IInv, Typing, Typed, Fields, Counted
  <2>3. Len(WholeBody(st.current_chunk_length)) = st.current_chunk_length
    BY <2>1, <2>2, WholeBodyLength DEF InBody
  <2>4. st.current_chunk_length <= MaxBodyMemoryBuffer /\ st.current_chunk_length \in Nat
    BY <2>1, <2>2 DEF LInv, Held
  <2>5. Limited(message)  BY <2>3, <2>4, LimitsAssumption DEF Limited, Message
  <2>6. Held(next, 0) /\ next.pos = 0
    BY <2>2, LimitsAssumption DEF LInv, IInv, Typing, Typed, Fields, Counted, Held, InBody
  <2> HIDE DEF message, next
  <2>7. Completed'  BY <1>1, <2>1, <2>5, DeliverCompletes
  <2>8. st' = next  BY <2>1 DEF Deliver
  <2> QED  BY <2>6, <2>7, <2>8
<1> QED  BY <1>2, <1>3, <1>4

\* feed hands its messages over.
LEMMA HandOverCompletes ==
  ASSUME Completed, HandOver  PROVE Completed'
<1>1. PICK S : result \in Seq(S) /\ out \in Seq(S) /\ \A m \in S : Limited(m)
  BY DEF Completed
<1>2. result' \in Seq(S) /\ out' \in Seq(S)  BY <1>1 DEF HandOver
<1> QED  BY <1>1, <1>2 DEF Completed

\* What a full buffer holds of a body moves to st.body, and the count stays.
LEMMA FlushBodyLimits ==
  ASSUME LInv, FlushBody  PROVE Held(st, st.pos)' /\ Completed'
<1> DEFINE bytes == Bytes(st.i_start, st.pos)
<1>1. /\ HandOver /\ st.state \in InBody /\ st.pos = MaxBuffer
      /\ st' = [st EXCEPT !.body = @ \o bytes, !.pos = 0, !.i_start = 0, !.i_end = 0]
  BY DEF FlushBody, BufferFull, InBody
<1>2. /\ st.pos \in Nat /\ st.i_start \in Nat /\ st.i_start <= st.pos
      /\ buffer \in Seq(STRING) /\ Len(buffer) = st.pos /\ DOMAIN st = Fields
      /\ st.body \in Seq(STRING) /\ st.length_counter \in Nat
      /\ Len(st.body) + st.pos - st.i_start = st.length_counter
      /\ st.length_counter <= MaxBodySize
  BY <1>1 DEF LInv, Held, IInv, Typing, Typed, Placed, Ordered
<1>3. bytes \in Seq(STRING) /\ Len(bytes) = st.pos - st.i_start
  <2>1. st.pos <= Len(buffer)
    BY <1>2
  <2> QED  BY <1>2, <2>1, BytesLength
<1> HIDE DEF bytes
<1>4. /\ st.body \o bytes \in Seq(STRING)
      /\ Len(st.body \o bytes) = st.length_counter
  BY <1>2, <1>3, ConcatLength
<1>5. /\ (st').body = st.body \o bytes /\ (st').pos = 0 /\ (st').i_start = 0
      /\ (st').state = st.state /\ (st').length_counter = st.length_counter
      /\ (st').headers = st.headers /\ (st').current_chunk_length = st.current_chunk_length
  <2>1. {"body", "pos", "i_start"} \subseteq DOMAIN st
    BY <1>2, Zenon DEF Fields
  <2>2. /\ (st').state = st.state /\ (st').length_counter = st.length_counter
        /\ (st').headers = st.headers /\ (st').current_chunk_length = st.current_chunk_length
    BY <1>1, <1>2 DEF Fields
  <2>3. (st').body = st.body \o bytes
    BY <1>1, <2>1
  <2>4. (st').pos = 0 /\ (st').i_start = 0
    BY <1>1, <2>1
  <2> QED BY <2>2, <2>3, <2>4
<1>6. Held(st, st.pos)'
  <2>1. Len(st.body \o bytes) + 0 - 0 = st.length_counter
    BY <1>2, <1>4
  <2> QED  BY <1>1, <1>2, <1>4, <1>5, <2>1 DEF LInv, Held, InBody
<1> QED  BY <1>1, <1>6, HandOverCompletes DEF LInv

\* Elsewhere there is no body to lose.
LEMMA DropParsedLinesLimits ==
  ASSUME LInv, DropParsedLines  PROVE Held(st, st.pos)' /\ Completed'
<1>1. /\ HandOver /\ st.state \notin InBody \cup {"ERROR"} /\ DOMAIN st = Fields
      /\ st' = Rebased(st, st.last_checkpoint)
  BY DEF DropParsedLines, BufferFull, InBody, LInv, IInv, Typing, Typed
<1>2. /\ (st').body = st.body /\ (st').state = st.state /\ (st').length_counter = st.length_counter
  BY <1>1 DEF Rebased, Fields
<1>3. Held(st, st.pos)'
  BY <1>1, <1>2 DEF LInv, Held, InBody
<1> QED  BY <1>1, <1>3, HandOverCompletes DEF LInv

\* ... and every step keeps it.
LEMMA StepLimits == LInv /\ [Next]_vars => LInv'
<1> SUFFICES ASSUME LInv, [Next]_vars  PROVE LInv'
  OBVIOUS
<1>1. IInv'  BY StepInv DEF LInv
<1>2. Held(st, st.pos)' /\ Completed'
  <2>1. CASE UNCHANGED <<st, result, out>>
    BY <2>1 DEF LInv, Held, Completed
  <2>2. CASE ReceiveSome \/ Throw \/ UNCHANGED vars
    BY <2>1, <2>2 DEF ReceiveSome, Receive, Throw, vars
  <2>3. CASE Reconnect
    <3>1. st' = st /\ result' = result /\ out' = <<>>  BY <2>3 DEF Reconnect
    <3>2. Completed'
      <4>1. PICK S : result \in Seq(S) /\ \A m \in S : Limited(m)  BY DEF LInv, Completed
      <4> QED  BY <3>1, <4>1 DEF Completed
    <3> QED  BY <3>1, <3>2 DEF LInv, Held
  <2>4. CASE Return
    BY <2>4, HandOverCompletes DEF Return, LInv, Held
  <2>5. CASE ReportError
    <3>1. st' = Fresh /\ result' = <<>> /\ out' = out
      BY <2>5, ResetFresh DEF ReportError, LInv, IInv, Typing
    <3>2. Completed'
      <4>1. PICK S : out \in Seq(S) /\ \A m \in S : Limited(m)  BY DEF LInv, Completed
      <4> QED  BY <3>1, <4>1 DEF Completed
    <3> QED  BY <3>1, <3>2, FreshHeld, FreshReady
  <2> QED  BY <2>2, <2>3, <2>4, <2>5, ParseByteLimits, DeliveriesLimits, FlushBodyLimits,
              DropParsedLinesLimits DEF Next, Feed
<1> QED  BY <1>1, <1>2 DEF LInv

(* No body is longer than the limits allow: not the part that the parser   *)
(* holds (HttpAssembler.cpp:624-649) and not the ones it completes         *)
(* (:404-425, :494-520), whatever lengths the headers announce.            *)
THEOREM LimitsHold == Spec => []LimitsKept
<1>1. LInv => LimitsKept
  BY DEF LInv, Held, Completed, LimitsKept
<1> QED  BY <1>1, InitLimits, StepLimits, PTL DEF Spec
=============================================================================
