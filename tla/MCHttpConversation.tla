------------------------- MODULE MCHttpConversation -------------------------
(* Instances of HttpConversation for TLC. *)
EXTENDS HttpConversation

Request(headers, chunks) ==
  [method |-> IF chunks = <<>> THEN "GET" ELSE "POST", uri |-> "u",
   version |-> "HTTP/1.1", headers |-> headers, chunked |-> FALSE, chunks |-> chunks]
ChunkedRequest(headers, chunks) == [Request(headers, chunks) EXCEPT !.chunked = TRUE]

Header(name, value) == <<[name |-> name, value |-> value]>>
Plain == Header("Host", <<"h", "SP", "h">>)
Length(n) == Header("Content-Length", <<ToString(n)>>)
Encoding(list) == Header("Transfer-Encoding", list)
Chunks == Encoding(<<"chunked">>)

Requests ==
  { Request(<<>>, <<>>), Request(Plain, <<>>),
    Request(Length(2), << <<"x", "LF">> >>),
    Request(Length(5) \o Plain, << <<"x", "y", "CR", "LF", "z">> >>),
    ChunkedRequest(Chunks, <<>>),
    ChunkedRequest(Chunks, << <<"x", "CR", "LF">>, <<"y">> >>),
    ChunkedRequest(Plain \o Chunks, << <<"x">>, <<"y", "z">>, <<"LF">> >>) }

\* Lists of encodings: with spaces, with quotes that hide a comma and a quote, and
\* lists that name no chunked encoding.
EncodedRequests ==
  { ChunkedRequest(Encoding(<<"gzip", ",", "SP", "chunked", "SP">>), << <<"x">> >>),
    ChunkedRequest(Encoding(<<"\"", "g", ",", "\\", "\"", "\"", ",", "chunked">>), <<>>),
    ChunkedRequest(Encoding(<<"g", ",", "\"", "chunked", "\"">>), << <<"x">> >>),
    Request(Encoding(<<"\"", "g", ",", "chunked", "\"">>), <<>>),
    Request(Encoding(<<"g", "chunked", ",", "\"", "chunked">>), <<>>),
    Request(Encoding(<<"\"", "g", "\"", "chunked">>), <<>>) }

\* A header line longer than the request line: it begins in a full buffer.
Long == Header("Host", <<"a", "b", "c", "d", "e", "f", "g", "h">>)
LongHeader == {<<Request(Long, <<>>)>>}

Pairs == {<<a, b>> : a \in Requests \cup EncodedRequests, b \in Requests}
Alone == {<<a>> : a \in Requests}
ChunkedOnes == {<<a>> : a \in {r \in Requests : r.chunked}}

Streams == <<Rendered>>

\* One symbol of a rendered conversation replaced or left out.
Faults == {"SP", "CR", "LF", ":", "0", "-", "5", "\\x80", "HTTP/1.0", "2"}
Faulty(bytes) ==
  {[bytes EXCEPT ![k] = f] : k \in DOMAIN bytes, f \in Faults}
  \cup {RemoveAt(bytes, k) : k \in DOMAIN bytes}
Response == <<"HTTP/1.1", "SP", "2", "0", "0", "SP", "o", "CR", "LF", "CR", "LF">>
NegativeLength == Render(Request(Header("Content-Length", <<"-", "5">>), << <<"x">> >>))
FaultyOnes ==
  UNION {Faulty(bytes) \cup {bytes} : bytes \in Rendered \cup {Response}} \cup {NegativeLength}

\* A faulty connection, and after it one that inherits the state of its parser.
FaultyStreams == <<FaultyOnes, Rendered>>
=============================================================================
