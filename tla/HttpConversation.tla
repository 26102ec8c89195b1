-------------------------- MODULE HttpConversation --------------------------
(***************************************************************************)
(* The assembler at work on what a client sends: requests written down as  *)
(* bytes, the messages the application should get for them, and what       *)
(* main() answers.                                                         *)
(***************************************************************************)
EXTENDS HttpAssembler, SequencesExt

CONSTANT Conversations   \* sequences of requests that a client may send

(* A request: its method, uri and version, its headers as a sequence of    *)
(* names and values, and its body: a sequence of chunks, or one chunk, or  *)
(* none.  The headers say which; chunked is what the client means by them. *)

HeaderLine(h) == <<h.name, ":", "SP">> \o h.value \o <<"CR", "LF">>

ChunkBytes(chunk) ==
  <<ToString(Len(chunk)), "CR", "LF">> \o chunk \o <<"CR", "LF">>

Render(m) ==
  <<m.method, "SP", m.uri, "SP", m.version, "CR", "LF">>
  \o FlattenSeq([k \in DOMAIN m.headers |-> HeaderLine(m.headers[k])])
  \o <<"CR", "LF">>
  \o IF m.chunked
     THEN FlattenSeq([k \in DOMAIN m.chunks |-> ChunkBytes(m.chunks[k])])
          \o <<"0", "CR", "LF", "CR", "LF">>
     ELSE FlattenSeq(m.chunks)

HeaderMap(m) ==
  [n \in {toLowerAscii(<<m.headers[k].name>>) : k \in DOMAIN m.headers} |->
     m.headers[CHOOSE k \in DOMAIN m.headers : toLowerAscii(<<m.headers[k].name>>) = n].value]

(* What the application gets: a request with a body of known length is one *)
(* message; a chunked one is a message per chunk and an empty one at its   *)
(* end, the first of them with the headers.                                *)
Delivery(m) ==
  LET message(headers, body) ==
        [version |-> m.version, method |-> m.method, uri |-> <<m.uri>>,
         headers |-> headers, body |-> body]
      parts == IF m.chunked THEN Append(m.chunks, <<>>) ELSE <<FlattenSeq(m.chunks)>>
  IN  [k \in DOMAIN parts |-> message(IF k = 1 THEN HeaderMap(m) ELSE NoHeaders, parts[k])]

RenderAll(ms) == FlattenSeq([k \in DOMAIN ms |-> Render(ms[k])])
DeliverAll(ms) == FlattenSeq([k \in DOMAIN ms |-> Delivery(ms[k])])

Rendered == {RenderAll(ms) : ms \in Conversations}

\* What a rendered conversation should deliver, and how many requests it has.
Sent == [bytes \in Rendered |-> CHOOSE ms \in Conversations : RenderAll(ms) = bytes]
Meaning == [bytes \in Rendered |-> DeliverAll(Sent[bytes])]

(* main(): a message is answered unless it is chunked and not empty.  The  *)
(* two arguments of containsToken are swapped in headerContainsValue: the  *)
(* header must be an element of the list that consists of the value.       *)
headerContainsValue(message, header, value) ==
  /\ <<header>> \in DOMAIN message.headers
  /\ containsToken(<<value>>, message.headers[<<header>>])
Answered(message) ==
  headerContainsValue(message, "transfer-encoding", "chunked") => message.body = <<>>

-----------------------------------------------------------------------------
(* Whatever the segments, the application gets what was sent, in order.    *)
DeliveredAsSent == input \in Rendered => IsPrefix(out, Meaning[input])

(* Moreover everything is delivered in the end: the parser implements the  *)
(* message stream, no matter how the network cuts the bytes and how often  *)
(* a body fills the buffer.                                                *)
Stream == INSTANCE MessageStream WITH
  delivered <- out,
  coming <- SubSeq(Meaning[input], Len(out) + 1, Len(Meaning[input]))
IsAMessageStream == Stream!FairSpec

(* The empty message ends a chunked request: it is answered then, once, as *)
(* every other request is.                                                 *)
OneAnswerPerRequest ==
  input \in Rendered => Len(SelectSeq(out, Answered)) <= Len(Sent[input])
=============================================================================
