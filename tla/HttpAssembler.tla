---------------------------- MODULE HttpAssembler ----------------------------
(***************************************************************************)
(* HttpAssembler::feed: the parser that cuts the bytes of a connection     *)
(* into HTTP messages.  The worker of a connection calls it on the receive *)
(* buffer each time bytes arrive; what it has not consumed stays in the    *)
(* buffer, and the parser state of the client's id is kept between calls.  *)
(*                                                                         *)
(* A symbol stands for a byte.  A method, an HTTP version, and a header    *)
(* name are one symbol long, a digit is a symbol, and the limits are       *)
(* counted in symbols.  The buffer is the part of the memory that holds    *)
(* received bytes; its positions start at 0, as in the code.               *)
(*                                                                         *)
(* One step is one byte (a turn of the loop of feed), the arrival of a     *)
(* segment, or the end of a call.  Only the worker of the id calls feed,   *)
(* one call at a time.                                                     *)
(***************************************************************************)
EXTENDS Integers, Sequences, FiniteSets

CONSTANTS
  Inputs,               \* byte streams that the peer of each connection may send
  MaxBuffer,            \* max_buffer_len
  MaxFirstWord,         \* the literal 8 of STATE_PARSE_RESPONSE_OR_REQUEST
  MaxRequestLine,       \* m_max_request_line_lenght
  MaxTotalHeaders,      \* m_max_total_headers
  MaxBodyMemoryBuffer,  \* m_max_body_memory_buffer
  MaxBodySize,          \* m_max_body_size
  MaxConnections        \* bound: connections that have the id, one after another

ASSUME InputsAssumption == \A n \in 1 .. MaxConnections : Inputs[n] \subseteq Seq(STRING)
ASSUME BufferAssumption == MaxBuffer \in Nat \ {0}
ASSUME ConnectionsAssumption == MaxConnections \in Nat \ {0}
ASSUME LimitsAssumption ==
  /\ {MaxFirstWord, MaxRequestLine, MaxTotalHeaders, MaxBodyMemoryBuffer, MaxBodySize} \subseteq Nat
  /\ MaxBodyMemoryBuffer <= MaxBodySize     \* the setters see to it

VARIABLES
  input,        \* the bytes of the current connection, from its start
  received,     \* how many of them were received
  buffer,       \* m_recv_buffer, up to m_recv_len
  st,           \* m_client_states[id]
  result,       \* result.messages of the call of feed
  out,          \* messages of the connection that the application gets
  pc,           \* outside feed, in its loop, after an error, or after an exception
  connections   \* connections so far

vars == <<input, received, buffer, st, result, out, pc, connections>>

Methods  == {"GET", "POST"}
Versions == {"HTTP/1.0", "HTTP/1.1"}
Digits   == {"0", "1", "2", "3", "5"}
NonAscii == {"\\x80"}
DigitValue(d) == CHOOSE n \in 0 .. 9 : d = <<"0", "1", "2", "3", "4", "5", "6", "7", "8", "9">>[n + 1]

\* A std::unordered_map without elements, which is what it is after a move.
NoHeaders == [name \in {} |-> <<>>]

\* A new HttpStreamState.
Fresh ==
  [pos |-> 0, i_start |-> 0, i_end |-> 0, header_name_start |-> 0, header_name_end |-> 0,
   length_counter |-> 0, total_headers_counter |-> 0, last_checkpoint |-> -1,
   body_lenght |-> -1, current_chunk_length |-> 0,
   http_version |-> "UNKNOWN", method |-> "UNKNOWN", uri |-> <<>>,
   headers |-> NoHeaders, body |-> <<>>, state |-> "RESPONSE_OR_REQUEST"]

States ==
  {"RESPONSE_OR_REQUEST", "RESPONSE_STATUS", "RESPONSE_HEADERS_START", "REQUEST_URI",
   "HTTP_VERSION", "HEADER_NAME", "HEADER_VALUE", "BODY", "CHUNK_SIZE", "CHUNK",
   "CHUNK_SKIP_LINE", "END_OF_CHUNKED", "ERROR"}

\* Mutant: a counter is not reset.
ResetButHeaderCount(s) ==
  [s EXCEPT !.body_lenght = -1, !.http_version = "UNKNOWN", !.headers = NoHeaders,
            !.state = "RESPONSE_OR_REQUEST", !.method = "UNKNOWN", !.uri = <<>>,
            !.i_start = 0, !.i_end = 0, !.header_name_start = 0, !.header_name_end = 0,
            !.length_counter = 0, !.current_chunk_length = 0, !.last_checkpoint = -1,
            !.body = <<>>, !.pos = 0]

\* Assignment by assignment.
resetState(s) ==
  [s EXCEPT !.body_lenght = -1, !.http_version = "UNKNOWN", !.headers = NoHeaders,
            !.state = "RESPONSE_OR_REQUEST", !.method = "UNKNOWN", !.uri = <<>>,
            !.i_start = 0, !.i_end = 0, !.header_name_start = 0, !.header_name_end = 0,
            !.length_counter = 0, !.total_headers_counter = 0, !.current_chunk_length = 0,
            !.last_checkpoint = -1, !.body = <<>>, !.pos = 0]

Init ==
  /\ input \in Inputs[1] /\ received = 0
  /\ buffer = <<>>
  /\ st = Fresh
  /\ result = <<>> /\ out = <<>>
  /\ pc = "receiving"
  /\ connections = 1

-----------------------------------------------------------------------------
(* The environment: segments of any length that fits, and a new connection *)
(* that was given the id of the last one.                                  *)

Receive(n) ==
  /\ pc = "receiving" /\ received < Len(input)
  /\ buffer' = buffer \o SubSeq(input, received + 1, received + n)
  /\ received' = received + n
  /\ pc' = "feeding"
  /\ UNCHANGED <<input, st, result, out, connections>>

ReceiveSome ==
  \E n \in 1 .. MaxBuffer :
    /\ n <= MaxBuffer - Len(buffer) /\ n <= Len(input) - received
    /\ Receive(n)

Reconnect ==
  /\ pc \in {"receiving", "disconnected"} /\ connections < MaxConnections
  /\ connections' = connections + 1
  /\ input' \in Inputs[connections + 1] /\ received' = 0
  /\ buffer' = <<>> /\ out' = <<>>
  /\ pc' = "receiving"
  /\ UNCHANGED <<st, result>>

-----------------------------------------------------------------------------
(* The bytes and the words in them. *)

Byte(k) == buffer[k + 1]
Bytes(from, to) == SubSeq(buffer, from + 1, to)

\* The byte at hand, and the state with that byte counted.
c == Byte(st.pos)
Counted == [st EXCEPT !.length_counter = @ + 1]

Error(s)  == [s EXCEPT !.state = "ERROR"]
Extend(s) == [s EXCEPT !.i_end = @ + 1]
ExtendUnless(tooLong, s) == IF tooLong \/ c \in NonAscii THEN Error(s) ELSE Extend(s)

\* The next word starts after this byte.
Begin(state, s) == [s EXCEPT !.state = state, !.i_start = s.pos + 1, !.i_end = s.pos + 1]

BeginHeaders(s) ==
  [Begin("HEADER_NAME", s) EXCEPT !.last_checkpoint = s.pos + 1, !.length_counter = 0]

LineEnds(s) == c = "LF" /\ Byte(s.i_end - 1) = "CR"

\* The first position of a word that is not a space, or its end.
AfterSpaces(s) ==
  s.i_start + Cardinality({k \in s.i_start .. s.i_end - 1 : \A j \in s.i_start .. k : Byte(j) = "SP"})

\* std::from_chars: the digits a word starts with; what follows them is ignored.
LeadingDigits(word) ==
  CHOOSE n \in 0 .. Len(word) :
    /\ \A k \in 1 .. n : word[k] \in Digits
    /\ n = Len(word) \/ word[n + 1] \notin Digits
Number(word, base) ==
  LET value[k \in 0 .. Len(word)] ==
        IF k = 0 THEN 0 ELSE base * value[k - 1] + DigitValue(word[k])
  IN  value[LeadingDigits(word)]

\* The value of a Content-Length header without its quotes, and without its sign.
Unquoted(value) ==
  IF Len(value) > 2 /\ value[1] = "\"" /\ value[Len(value)] = "\""
  THEN SubSeq(value, 2, Len(value) - 1) ELSE value
IsNegative(word) == word # <<>> /\ word[1] = "-"
Magnitude(word) == IF IsNegative(word) THEN Tail(word) ELSE word

IsNumber(value) == LeadingDigits(Magnitude(Unquoted(value))) > 0
parseNumber(value) ==
  LET word == Unquoted(value)
  IN  IF IsNegative(word) THEN - Number(Magnitude(word), 10) ELSE Number(word, 10)

(* Utils::containsToken: the elements of a list with commas; one in quotes *)
(* may hold commas, and a backslash there hides the byte that follows it.  *)
Blanks == {"SP", "HT"}
SkipBlanks(value, i) ==
  i + Cardinality({k \in i .. Len(value) : \A j \in i .. k : value[j] \in Blanks})
LastNotBlank(value, i) ==
  i - Cardinality({k \in 1 .. i : \A j \in k .. i : value[j] \in Blanks})

NextComma(value, i) ==
  CHOOSE k \in i .. Len(value) + 1 :
    /\ k = Len(value) + 1 \/ value[k] = ","
    /\ \A j \in i .. k - 1 : value[j] # ","

\* Beyond the value if no quote closes what begins at i.
ClosingQuote(value, i) ==
  LET close[k \in i .. Len(value) + 2] ==
        IF k > Len(value) \/ value[k] = "\"" THEN k
        ELSE close[k + IF value[k] = "\\" THEN 2 ELSE 1]
  IN  close[i]

\* listed[i]: the token is an element that begins at i or behind it.
containsToken(value, token) ==
  LET listed[i \in 1 .. Len(value) + 2] ==
        LET start  == SkipBlanks(value, i)
            quoted == start <= Len(value) /\ value[start] = "\""
            from   == IF quoted THEN start + 1 ELSE start
            end    == IF quoted THEN ClosingQuote(value, from) ELSE NextComma(value, from)
            comma  == IF quoted THEN SkipBlanks(value, end + 1) ELSE end
        IN  /\ i <= Len(value)
            /\ quoted => end <= Len(value)
            /\ \/ SubSeq(value, from, LastNotBlank(value, end - 1)) = token
               \/ comma <= Len(value) /\ value[comma] = "," /\ listed[comma + 1]
  IN  listed[1]

\* Utils::toLowerAscii: a header name of one symbol is written in two ways.
LowerCase(symbol) ==
  CASE symbol = "Content-Length" -> "content-length"
    [] symbol = "Transfer-Encoding" -> "transfer-encoding"
    [] OTHER -> symbol
toLowerAscii(name) == [k \in 1 .. Len(name) |-> LowerCase(name[k])]

\* unordered_map::emplace: a name that is there keeps its value.
Emplace(headers, name, value) ==
  IF name \in DOMAIN headers THEN headers
  ELSE [n \in DOMAIN headers \cup {name} |-> IF n = name THEN value ELSE headers[n]]

-----------------------------------------------------------------------------
(* The states of the parser that a byte leaves without completing a        *)
(* message.  s is the state with the byte counted.                         *)

FirstWord(s) ==
  LET word == Bytes(s.i_start, s.i_end) IN
  IF c = "SP" /\ word # <<>>
  THEN CASE Len(word) = 1 /\ word[1] \in Versions ->
              [Begin("RESPONSE_STATUS", s) EXCEPT !.http_version = word[1]]
         [] Len(word) = 1 /\ word[1] \in Methods ->
              [Begin("REQUEST_URI", s) EXCEPT !.method = word[1]]
         [] OTHER -> Error(s)
  ELSE ExtendUnless(s.length_counter > MaxFirstWord, s)

ResponseStatus(s) ==
  CASE c = "SP" ->
         IF s.i_end - s.i_start = 3 /\ {Byte(s.i_start), Byte(s.i_start + 1)} \subseteq Digits
         THEN Begin("RESPONSE_HEADERS_START", s) ELSE Error(s)
    [] c # "SP" ->
         ExtendUnless(s.length_counter > MaxRequestLine \/ c \notin Digits, s)

\* i_end is the position of this very byte, so the line never ends.
ResponseHeadersStart(s) ==
  IF s.i_end > s.i_start /\ c = "LF" /\ Byte(s.i_end) = "CR"
  THEN BeginHeaders(s)
  ELSE ExtendUnless(s.length_counter > MaxRequestLine, s)

RequestUri(s) ==
  CASE c = "SP" /\ s.i_end = s.i_start -> Error(s)
    [] c = "SP" /\ s.i_end # s.i_start ->
         [Begin("HTTP_VERSION", s) EXCEPT !.uri = Bytes(s.i_start, s.i_end)]
    [] c # "SP" -> ExtendUnless(s.length_counter > MaxRequestLine, s)

AnyHttpVersion(s) ==
  IF s.i_end - s.i_start > 1 /\ LineEnds(s)
  THEN [BeginHeaders(s) EXCEPT !.http_version = Byte(s.i_start)]
  ELSE ExtendUnless(s.length_counter > MaxRequestLine, s)
HttpVersion(s) ==
  IF s.i_end - s.i_start > 1 /\ LineEnds(s)
  THEN IF s.i_end - s.i_start = 2 /\ Byte(s.i_start) \in Versions
       THEN [BeginHeaders(s) EXCEPT !.http_version = Byte(s.i_start)] ELSE Error(s)
  ELSE ExtendUnless(s.length_counter > MaxRequestLine, s)

HeaderCounted(s) == [s EXCEPT !.total_headers_counter = @ + 1]

\* The line of a header name that is only CR LF.
BlankLine(s) ==
  c = "LF" /\ s.pos > 0 /\ Byte(s.pos - 1) = "CR" /\ s.i_end - s.i_start = 1

IsChunked(headers) ==
  /\ <<"transfer-encoding">> \in DOMAIN headers
  /\ containsToken(headers[<<"transfer-encoding">>], <<"chunked">>)
HasLength(headers) == <<"content-length">> \in DOMAIN headers

EndOfHeaders(s) ==
  LET value == s.headers[<<"content-length">>] IN
  CASE IsChunked(s.headers) -> Begin("CHUNK_SIZE", s)
    [] ~IsChunked(s.headers) /\ IsNumber(value) /\ parseNumber(value) <= MaxBodySize ->
         [Begin("BODY", s) EXCEPT !.body_lenght = parseNumber(value), !.length_counter = 0]
    [] OTHER -> Error(s)

HeaderName(s) ==
  CASE c = ":" ->
         IF s.i_end > s.i_start /\ AfterSpaces(s) < s.i_end
         THEN [Begin("HEADER_VALUE", s) EXCEPT
                 !.header_name_start = AfterSpaces(s), !.header_name_end = s.i_end]
         ELSE Error(s)
    [] BlankLine(s) -> EndOfHeaders(s)
    [] OTHER -> ExtendUnless(s.total_headers_counter > MaxTotalHeaders, s)

HeaderValue(s) ==
  IF s.i_end > s.i_start /\ LineEnds(s)
  THEN LET name  == toLowerAscii(Bytes(s.header_name_start, s.header_name_end))
           value == Bytes(AfterSpaces(s), s.i_end - 1)
       IN  IF value = <<>> THEN Error(s)
           ELSE [Begin("HEADER_NAME", s) EXCEPT
                   !.headers = Emplace(s.headers, name, value), !.last_checkpoint = s.pos + 1]
  ELSE ExtendUnless(s.total_headers_counter > MaxTotalHeaders, s)

Body(s) == IF s.length_counter > MaxBodySize THEN Error(s) ELSE s

AnyChunkSize(n) == TRUE
ChunkSizeAllowed(n) == n <= MaxBodyMemoryBuffer

ChunkSize(s) ==
  LET word == Bytes(s.i_start, s.i_end - 1)
      length == Number(word, 16) IN
  CASE s.i_end > s.i_start /\ c = "LF" /\ Byte(s.pos - 1) = "CR" ->
         IF LeadingDigits(word) = 0 \/ ~ChunkSizeAllowed(length) THEN Error(s)
         ELSE IF length = 0 THEN [Begin("END_OF_CHUNKED", s) EXCEPT !.current_chunk_length = 0]
         ELSE [Begin("CHUNK", s) EXCEPT
                 !.current_chunk_length = length, !.body_lenght = @ + length,
                 !.body = <<>>, !.length_counter = 0]
    [] OTHER -> IF c \in Digits \cup {"CR"} THEN Extend(s) ELSE Error(s)

Chunk(s) == IF s.length_counter > MaxBodySize THEN Error(s) ELSE Extend(s)

\* CR LF, nothing else.
CrLfEnds(s) == s.i_end - s.i_start = 1 /\ c = "LF" /\ Byte(s.pos - 1) = "CR"
ExtendCrLf(s) == IF s.i_end = s.i_start /\ c \in {"CR", "LF"} THEN Extend(s) ELSE Error(s)

SkipLine(s) ==
  IF CrLfEnds(s) THEN [Begin("CHUNK_SIZE", s) EXCEPT !.current_chunk_length = 0]
  ELSE ExtendCrLf(s)

Parsed(s) ==
  CASE s.state = "RESPONSE_OR_REQUEST"    -> FirstWord(s)
    [] s.state = "RESPONSE_STATUS"        -> ResponseStatus(s)
    [] s.state = "RESPONSE_HEADERS_START" -> ResponseHeadersStart(s)
    [] s.state = "REQUEST_URI"            -> RequestUri(s)
    [] s.state = "HTTP_VERSION"           -> HttpVersion(s)
    [] s.state = "HEADER_NAME"            -> HeaderName(HeaderCounted(s))
    [] s.state = "HEADER_VALUE"           -> HeaderValue(HeaderCounted(s))
    [] s.state = "BODY"                   -> Body(s)
    [] s.state = "CHUNK_SIZE"             -> ChunkSize(s)
    [] s.state = "CHUNK"                  -> Chunk(s)
    [] s.state = "CHUNK_SKIP_LINE"        -> SkipLine(s)
    [] s.state = "END_OF_CHUNKED"         -> ExtendCrLf(s)

-----------------------------------------------------------------------------
(* The turns of the loop of feed. *)

InLoop == pc = "feeding" /\ st.state # "ERROR" /\ st.pos < Len(buffer)

HeadersEnd == st.state = "HEADER_NAME" /\ BlankLine(st) /\ ~IsChunked(st.headers) /\ ~HasLength(st.headers)
BodyEnds   == st.state = "BODY" /\ Counted.length_counter <= MaxBodySize /\ Counted.length_counter = st.body_lenght
ChunkEnds  == st.state = "CHUNK" /\ Counted.length_counter = st.current_chunk_length
ChunksEnd  == st.state = "END_OF_CHUNKED" /\ CrLfEnds(st)

Message(body) ==
  [version |-> st.http_version, method |-> st.method, uri |-> st.uri,
   headers |-> st.headers, body |-> body]

\* The body that ends with this byte: in the buffer, or begun in st.body.
WholeBody(length) ==
  IF st.body = <<>> THEN Bytes(st.i_start, st.i_start + length)
  ELSE st.body \o Bytes(st.i_start, st.i_start + st.pos + 1)

DeliverAndClear(message, next) ==
  /\ result' = Append(result, message)
  /\ buffer' = <<>>
  /\ st' = next
  /\ UNCHANGED <<input, received, out, pc, connections>>

\* The message is complete and its bytes leave the buffer.
Deliver(message, next) ==
  /\ result' = Append(result, message)
  /\ buffer' = SubSeq(buffer, st.pos + 2, Len(buffer))
  /\ st' = next
  /\ UNCHANGED <<input, received, out, pc, connections>>

ParseByte ==
  /\ InLoop
  /\ ~HeadersEnd /\ ~BodyEnds /\ ~ChunkEnds /\ ~ChunksEnd
  /\ LET next == Parsed(Counted)
     IN  st' = IF next.state = "ERROR" THEN next ELSE [next EXCEPT !.pos = @ + 1]
  /\ UNCHANGED <<input, received, buffer, result, out, pc, connections>>

DeliverHeaders == InLoop /\ HeadersEnd /\ Deliver(Message(<<>>), resetState(st))

DeliverBody == InLoop /\ BodyEnds /\ Deliver(Message(WholeBody(st.body_lenght)), resetState(st))

\* The headers were moved into the message; last_checkpoint stays as it was.
DeliverChunk ==
  /\ InLoop /\ ChunkEnds
  /\ Deliver(Message(WholeBody(st.current_chunk_length)),
             [Counted EXCEPT !.pos = 0, !.i_start = 0, !.i_end = 0, !.current_chunk_length = 0,
                !.headers = NoHeaders, !.body = <<>>, !.state = "CHUNK_SKIP_LINE"])

DeliverEndOfChunks == InLoop /\ ChunksEnd /\ Deliver(Message(<<>>), resetState(st))

-----------------------------------------------------------------------------
(* The end of feed. *)

\* The worker hands the messages to the application and posts the next receive.
HandOver ==
  /\ out' = out \o result /\ result' = <<>>
  /\ pc' = "receiving"

LoopEnds == pc = "feeding" /\ ~InLoop
BufferOverfull == st.state # "ERROR" /\ st.pos > MaxBuffer
BufferFull == st.state # "ERROR" /\ st.pos = MaxBuffer

Return ==
  /\ LoopEnds /\ st.state # "ERROR" /\ ~BufferFull
  /\ HandOver
  /\ UNCHANGED <<input, received, buffer, st, connections>>

\* body.reserve(body_lenght + 1) with a length below -1: std::length_error.
ReserveThrows == st.state = "BODY" /\ st.body = <<>> /\ st.body_lenght < -1

\* Nobody catches it: the process ends.
Throw ==
  /\ LoopEnds /\ BufferFull /\ ReserveThrows
  /\ pc' = "terminated"
  /\ UNCHANGED <<input, received, buffer, st, result, out, connections>>

\* A full buffer inside a body: what it holds moves to st.body.
FlushBody ==
  /\ LoopEnds /\ BufferFull /\ st.state \in {"BODY", "CHUNK"} /\ ~ReserveThrows
  /\ st' = [st EXCEPT !.body = @ \o Bytes(st.i_start, st.pos),
                      !.pos = 0, !.i_start = 0, !.i_end = 0]
  /\ buffer' = <<>>
  /\ HandOver
  /\ UNCHANGED <<input, received, connections>>

\* memmove of n bytes from position n to the front, then n bytes are cut off.
Compacted(n) == [k \in 1 .. Len(buffer) - n |-> IF k <= n THEN buffer[n + k] ELSE buffer[k]]

Back(k, n) == IF k > n THEN k - n ELSE 0

RebasedButStart(s, n) ==
  [s EXCEPT !.i_end = Back(@, n),
            !.header_name_start = Back(@, n), !.header_name_end = Back(@, n),
            !.pos = @ - n, !.last_checkpoint = -1]

Rebased(s, n) ==
  [s EXCEPT !.i_start = Back(@, n), !.i_end = Back(@, n),
            !.header_name_start = Back(@, n), !.header_name_end = Back(@, n),
            !.pos = @ - n, !.last_checkpoint = -1]

\* A full buffer elsewhere: the lines before the last checkpoint are dropped.
DropParsedLines ==
  /\ LoopEnds /\ BufferFull /\ st.state \notin {"BODY", "CHUNK"}
  /\ st.last_checkpoint # -1
  /\ buffer' = Compacted(st.last_checkpoint)
  /\ st' = Rebased(st, st.last_checkpoint)
  /\ HandOver
  /\ UNCHANGED <<input, received, connections>>

OutOfBuffer ==
  BufferFull /\ st.state \notin {"BODY", "CHUNK"} /\ st.last_checkpoint = -1

\* The worker answers an error and disconnects; the messages are lost.
ReportError ==
  /\ LoopEnds /\ (st.state = "ERROR" \/ OutOfBuffer)
  /\ st' = resetState(st)
  /\ buffer' = <<>> /\ result' = <<>>
  /\ pc' = "disconnected"
  /\ UNCHANGED <<input, received, out, connections>>

Feed ==
  \/ ParseByte \/ DeliverHeaders \/ DeliverBody \/ DeliverChunk \/ DeliverEndOfChunks
  \/ Return \/ FlushBody \/ Throw \/ DropParsedLines \/ ReportError

Next == ReceiveSome \/ Reconnect \/ Feed

Spec == Init /\ [][Next]_vars

\* The network brings what was sent, and the worker runs.
FairSpec == Spec /\ WF_vars(ReceiveSome) /\ WF_vars(Feed)

-----------------------------------------------------------------------------
(* Every variable keeps to its type, and the parser to the bytes received. *)
TypeOK ==
  /\ input \in Seq(STRING) /\ received \in 0 .. Len(input)
  /\ buffer \in Seq(STRING) /\ Len(buffer) <= MaxBuffer
  /\ DOMAIN st = DOMAIN Fresh
  /\ st.http_version \in Versions \cup {"UNKNOWN"}
  /\ st.method \in Methods \cup {"UNKNOWN"}
  /\ st.state \in States
  /\ pc \in {"receiving", "feeding", "disconnected", "terminated"}
  /\ connections \in 1 .. MaxConnections

(* The offsets the parser keeps between calls stay in order and within the *)
(* bytes it has passed, whatever was moved or dropped below them.          *)
OffsetsInOrder ==
  /\ 0 <= st.i_start /\ st.i_start <= st.i_end /\ st.i_end <= st.pos
  /\ st.state = "HEADER_VALUE" =>
       /\ 0 <= st.header_name_start /\ st.header_name_start < st.header_name_end
       /\ st.header_name_end < st.i_start
  /\ connections = 1 => st.pos <= Len(buffer)

(* feed leaves room in the buffer, so that the next WSARecv is not posted  *)
(* with a length of zero, whose completion would read as a disconnection.  *)
RoomLeft == pc = "receiving" => Len(buffer) < MaxBuffer

(* No message, and no part of a message that the parser holds, has a body  *)
(* longer than the limits allow, whatever lengths its headers announce and *)
(* however often its body fills the buffer.                                *)
Limited(m) ==
  /\ Len(m.body) <= MaxBodySize
  /\ IsChunked(m.headers) => Len(m.body) <= MaxBodyMemoryBuffer
LimitsKept ==
  /\ Len(st.body) <= MaxBodySize
  /\ \A k \in DOMAIN result : Limited(result[k])
  /\ \A k \in DOMAIN out : Limited(out[k])

(* A message, also the first one of a connection that is given the id and  *)
(* the state of another, starts with a state like a new one: resetState    *)
(* forgets no field that parsing may have set (HttpAssembler.cpp:733-760). *)
StartsFresh == st.state = "RESPONSE_OR_REQUEST" /\ st.pos = 0 => st = Fresh
=============================================================================
