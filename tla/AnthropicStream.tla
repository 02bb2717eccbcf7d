--------------------------- MODULE AnthropicStream ---------------------------
(***************************************************************************)
(* TranslateAnthropicStream (internal/adapter/stream_translator.go): the   *)
(* loop that reads an Anthropic event stream line by line and writes it to *)
(* the client as OpenAI chunks.                                            *)
(*                                                                         *)
(* The upstream may send any lines in any order and stop anywhere: after a *)
(* line, in the middle of one, or with an error.  The client may go away   *)
(* at any write.  The status line and the headers are sent before anything *)
(* is read, so a failure can only cut the stream short.                    *)
(***************************************************************************)
EXTENDS Naturals, Sequences, FiniteSetsExt, AdapterJSON

CONSTANTS
    Types,          \* values of an "event:" line
    Docs,           \* payloads of a "data:" line
    Whole,          \* the document of a sequence of payloads that are one
                    \* document when they are joined
    MaxLines        \* bound on the lines of a stream

ASSUME WholeAssumption == \A data \in DOMAIN Whole : Whole[data] \in Docs

VARIABLES
    lines,          \* the lines read so far
    event,          \* currentEvent
    model,          \* anthropicStreamState.model; msgID is kept the same way
    out,            \* the chunks written to the client
    result          \* "running", or how the translation returned

vars == <<lines, event, model, out, result>>

-----------------------------------------------------------------------------
(* Lines, payloads and chunks.                                             *)

\* A payload: the document is valid JSON or not, and its fields as far as
\* the translator reads them; text is the kind of characters it carries.
NoDoc == [json |-> FALSE, type |-> "", block |-> "", delta |-> "",
          text |-> "printable", stop |-> "", model |-> ""]

JSONDoc(type) == [NoDoc EXCEPT !.json = TRUE, !.type = type]

\* sseDonePayload, which is not valid JSON for any of the event payloads.
DonePayload == [NoDoc EXCEPT !.type = "[DONE]"]

Blank       == [kind |-> "blank", value |-> NoDoc]
EventLine(t) == [kind |-> "event", value |-> JSONDoc(t)]
DataLine(d) == [kind |-> "data", value |-> d]
OtherLine   == [kind |-> "other", value |-> NoDoc]

Line == {Blank, OtherLine} \cup {EventLine(t) : t \in Types}
                           \cup {DataLine(d) : d \in Docs}

\* Several data lines are joined by newlines: the parts of a document make
\* it whole, two documents make none.
joined(data) ==
    IF Len(data) = 1 THEN data[1]
    ELSE IF data \in DOMAIN Whole THEN Whole[data] ELSE NoDoc

Chunk(m, delta, text, finish) ==
    [model |-> m, delta |-> delta, text |-> text, finish |-> finish]

DoneChunk == Chunk("", "[DONE]", "itself", "")

-----------------------------------------------------------------------------
(* Events.                                                                 *)

NoEvent == [eventType |-> "", data |-> <<>>]

consume(e, line) ==
    CASE line.kind = "event" -> [e EXCEPT !.eventType = line.value.type]
      [] line.kind = "data"  -> [e EXCEPT !.data = Append(@, line.value)]
      [] OTHER               -> e

\* dispatchAnthropicSSEEvent: without an event line, or with an empty one, the
\* document's own type.
envelopeType(doc) == IF doc.json THEN doc.type ELSE ""

evType(e) ==
    IF e.eventType # "" THEN e.eventType ELSE envelopeType(joined(e.data))

names(type, doc) == type = "message_start" /\ doc.json /\ doc.model # ""

modelAfter(type, doc, m) == IF names(type, doc) THEN doc.model ELSE m

\* dispatchAnthropicEvent: the chunks an event is worth, at most one.  The
\* role and finish chunks are written whether the document decodes or not.
translate(type, doc, m) ==
    CASE type = "message_start" ->
            <<Chunk(modelAfter(type, doc, m), "role", "itself", "")>>
      [] type = "content_block_start" /\ doc.json /\ doc.block = "tool_use" ->
            <<Chunk(m, "tool", AppendQuote(doc.text), "")>>
      [] type = "content_block_delta" /\ doc.json /\ doc.delta = "text_delta" ->
            <<Chunk(m, "text", AppendQuote(doc.text), "")>>
      [] type = "content_block_delta" /\ doc.json /\ doc.delta = "input_json_delta" ->
            <<Chunk(m, "arguments", AppendQuote(doc.text), "")>>
      [] type = "message_delta" ->
            <<Chunk(m, "empty", "itself", stopReasonToFinishReason(doc.stop))>>
      [] OTHER -> <<>>

-----------------------------------------------------------------------------
(* The loop.                                                               *)

Init ==
    /\ lines = <<>>
    /\ event = NoEvent
    /\ model = "fallback"
    /\ out = <<>>
    /\ result = "running"

\* Faulty variant: the event type survives the blank line.
resetDataOnly(e) == [e EXCEPT !.data = <<>>]

reset(e) == NoEvent

\* A blank line ends the event; eof tells that no line follows it.
EndEvent(eof) ==
    LET doc  == joined(event.data)
        type == evType(event)
        done == event.data = <<DonePayload>>
        new  == IF event.data = <<>> \/ done THEN <<>> ELSE translate(type, doc, model)
        last == IF done \/ eof THEN <<DoneChunk>> ELSE <<>>
    IN  /\ event' = IF done THEN event ELSE reset(event)
        /\ model' = IF event.data = <<>> \/ done THEN model
                    ELSE modelAfter(type, doc, model)
        /\ \/ /\ out' = out \o new \o last
              /\ result' = IF done \/ eof THEN "returned" ELSE "running"
           \/ \E k \in 0..(Len(new \o last) - 1) :      \* a write fails
                 /\ out' = out \o SubSeq(new \o last, 1, k)
                 /\ result' = "write_error"

ReadLine ==
    /\ result = "running"
    /\ Len(lines) < MaxLines
    /\ \E line \in Line :
          /\ lines' = Append(lines, line)
          /\ IF line = Blank THEN EndEvent(FALSE)
             ELSE /\ event' = consume(event, line)
                  /\ UNCHANGED <<model, out, result>>

\* The stream ends after a line feed: the empty rest counts as a blank line.
ReadEOF ==
    /\ result = "running"
    /\ lines' = Append(lines, Blank)
    /\ EndEvent(TRUE)

\* The stream ends within a line: it is consumed, and its event is dropped.
ReadPartialLine ==
    /\ result = "running"
    /\ Len(lines) < MaxLines
    /\ \E line \in Line \ {Blank} :
          /\ lines' = Append(lines, line)
          /\ event' = consume(event, line)
    /\ \/ out' = Append(out, DoneChunk) /\ result' = "returned"
       \/ out' = out /\ result' = "write_error"
    /\ UNCHANGED model

ReadError ==
    /\ result = "running"
    /\ result' = "read_error"
    /\ UNCHANGED <<lines, event, model, out>>

Next == ReadLine \/ ReadEOF \/ ReadPartialLine \/ ReadError

Spec == Init /\ [][Next]_vars

-----------------------------------------------------------------------------
(* Properties.                                                             *)

\* The reference reads the finished sequence of lines.  An event is a run of
\* lines closed by a blank one: the lines after the blank one before it.
RunOf(s, i) == {j \in 1..(i - 1) : \A k \in j..(i - 1) : s[k] # Blank}

OfKind(s, i, kind) == {j \in RunOf(s, i) : s[j].kind = kind}

\* The place of i among the members of S.
Rank(S, i) == Cardinality({j \in S : j <= i})

\* The payloads of an event, those of its data lines in their order, and the
\* document they are.
Payloads(s, i) ==
    LET data == OfKind(s, i, "data")
    IN  [k \in 1..Cardinality(data) |-> s[Max({j \in data : Rank(data, j) = k})].value]

DocOf(s, i) == joined(Payloads(s, i))

\* Its type: that of its last event line, or else of its document.
TypeOf(s, i) ==
    LET headers == OfKind(s, i, "event")
        header  == IF headers = {} THEN "" ELSE s[Max(headers)].value.type
    IN  IF header # "" THEN header ELSE envelopeType(DocOf(s, i))

\* The events carry data and are not [DONE].
IsEvent(s, i) ==
    /\ s[i] = Blank
    /\ Payloads(s, i) \notin {<<>>, <<DonePayload>>}

\* The model the last event before i that names one has named.
Naming(s, i) == {j \in 1..(i - 1) : IsEvent(s, j) /\ names(TypeOf(s, j), DocOf(s, j))}

ModelAt(s, i) ==
    IF Naming(s, i) = {} THEN "fallback" ELSE DocOf(s, Max(Naming(s, i))).model

ChunkAt(s, i) == translate(TypeOf(s, i), DocOf(s, i), ModelAt(s, i))

\* The events worth a chunk.
Worth(s) == {i \in 1..Len(s) : IsEvent(s, i) /\ ChunkAt(s, i) # <<>>}

\* Every event of the stream is translated, once, in order and by itself
\* alone: no line of one event leaks into the next (reset), whatever order
\* event and data lines come in.  [DONE] is written last, exactly when the
\* translation returns without an error; after a failure the client has the
\* first chunks and no other.
TranslatesEvents ==
    LET worth == Worth(lines)
        n     == Cardinality(worth)
    IN  /\ \A i \in worth : Rank(worth, i) <= Len(out) =>
                                <<out[Rank(worth, i)]>> = ChunkAt(lines, i)
        /\ result \in {"running", "read_error"} => Len(out) = n
        /\ result = "returned" => Len(out) = n + 1 /\ out[n + 1] = DoneChunk
        /\ result = "write_error" => Len(out) <= n

=============================================================================
