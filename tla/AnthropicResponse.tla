-------------------------- MODULE AnthropicResponse --------------------------
(***************************************************************************)
(* TranslateResponse for a body that is no event stream                    *)
(* (internal/adapter/anthropic_provider.go): two fast paths, a parser      *)
(* written by hand for answers of text alone and a decoder for answers     *)
(* with tool calls (anthropic_response_fast.go,                            *)
(* anthropic_response_tool_fast.go), then the general path.                *)
(*                                                                         *)
(* A body is a JSON object, known by its members, and how it ends.  White  *)
(* space and the order of the members make no difference to any path.  A   *)
(* key stands once in an object, in one spelling: of a key given twice,    *)
(* the paths may keep different parts.  No value nests deeper than Depth.  *)
(***************************************************************************)
EXTENDS Naturals, Sequences, AdapterJSON

CONSTANTS
    Depth,
    Spelling  \* other spellings, in upper and lower case, of the known keys:
              \* Spelling["Text"] = "text"

-----------------------------------------------------------------------------
(* JSON values.                                                            *)

Null        == [kind |-> "null"]
Float       == [kind |-> "float"]
Num(n)      == [kind |-> "int", value |-> n]
Arr(items)  == [kind |-> "array", items |-> items]
Obj(fields) == [kind |-> "object", fields |-> fields]

\* A string without an escape that only one of JSON and Go knows; with one
\* of JSON's (\/ or a surrogate pair); with one of Go's (\x41).
Str(text)    == [kind |-> "string", text |-> text, escape |-> "both"]
JSONStr(text) == [Str(text) EXCEPT !.escape = "json"]
GoStr(text)  == [Str(text) EXCEPT !.escape = "go"]
Word(w)      == Str(<<w>>)

\* The ends of a body: "exact"; a comma before the last brace, or more text
\* after it ("loose"); cut off within the object ("cut").
Body(fields, end) == [value |-> Obj(fields), end |-> end]

Inner(v) ==
    CASE v.kind = "array"  -> {v.items[i] : i \in DOMAIN v.items}
      [] v.kind = "object" -> {v.fields[k] : k \in DOMAIN v.fields}
      [] OTHER             -> {}

\* The value and every value within it.
Nested(v) ==
    LET within[n \in 0..Depth] ==
            IF n = 0 THEN {v}
            ELSE LET found == within[n - 1]
                 IN  found \cup UNION {Inner(u) : u \in found}
    IN  within[Depth]

Keys(v) == UNION {DOMAIN o.fields : o \in {u \in Nested(v) : u.kind = "object"}}

\* bytes.Contains(data, `"word"`)
Mentions(v, word) == word \in Keys(v) \/ Word(word) \in Nested(v)

Has(v, key) == key \in DOMAIN v.fields

\* The field of a decoded struct: its zero value when missing or null.
StringIn(v, key) == IF Has(v, key) /\ v.fields[key].kind = "string"
                    THEN v.fields[key].text ELSE <<>>
IntIn(v, key)    == IF Has(v, key) /\ v.fields[key].kind = "int"
                    THEN v.fields[key].value ELSE 0
ItemsIn(v, key)  == IF Has(v, key) /\ v.fields[key].kind = "array"
                    THEN v.fields[key].items ELSE <<>>
ObjectIn(v, key) == IF Has(v, key) /\ v.fields[key].kind = "object"
                    THEN v.fields[key] ELSE Obj(<<>>)

-----------------------------------------------------------------------------
(* What the client gets: a chat completion, or the body as it came.        *)

Completion(id, model, content, calls, stop, usage) ==
    [translated |-> TRUE, id |-> id, model |-> model, content |-> content,
     calls |-> calls, finish |-> stopReasonToFinishReason(stop),
     prompt |-> usage[1], completion |-> usage[2], total |-> usage[1] + usage[2]]

Untranslated == [translated |-> FALSE]

Reason(text) == IF Len(text) = 1 THEN text[1] ELSE "other"

-----------------------------------------------------------------------------
(* The path for text alone.  Anything it does not expect sends the body to *)
(* the next path.                                                          *)

\* scanAdapterJSONString unquotes by Go's rules.
scanned(v) == v.kind = "string" /\ v.escape # "json"

\* scanAdapterJSONStringOrNull
scannedOrNull(v) == scanned(v) \/ v.kind = "null"

\* scanAdapterJSONInt; a fraction or an exponent is left standing.
scannedInt(v) == v.kind = "int"

\* skipAdapterJSONValue: of the numbers, only integers.
skipped(v) == \A u \in Nested(v) : /\ u.kind # "float"
                                   /\ u.kind = "string" => scanned(u)

parseAnthropicTextBlock(v) ==
    /\ v.kind = "object"
    /\ \A k \in DOMAIN v.fields :
          IF k \in {"type", "text"} THEN scanned(v.fields[k]) ELSE skipped(v.fields[k])
    /\ StringIn(v, "type") = <<"text">>

\* Faulty variant: the text before the second one is not written.
addBlockTextLost(acc, text) ==
    IF ~acc.multi /\ acc.text = <<>> THEN [acc EXCEPT !.text = text]
    ELSE [acc EXCEPT !.builder = @ \o text, !.multi = TRUE]

\* The loop of parseAnthropicTextContentArray: one text as it is, several
\* through a builder.
addBlockText(acc, text) ==
    IF ~acc.multi /\ acc.text = <<>> THEN [acc EXCEPT !.text = text]
    ELSE [acc EXCEPT !.builder = (IF acc.multi THEN @ ELSE acc.text) \o text,
                     !.multi = TRUE]

parseAnthropicTextContentArray(v) ==
    LET none == [text |-> <<>>, builder |-> <<>>, multi |-> FALSE]
        after[n \in 0..Len(v.items)] ==
            IF n = 0 THEN none
            ELSE addBlockText(after[n - 1], StringIn(v.items[n], "text"))
        all  == after[Len(v.items)]
    IN  IF all.multi THEN all.builder ELSE all.text

parseAnthropicUsageObject(v) ==
    /\ v.kind = "object"
    /\ {"input_tokens", "output_tokens"} \subseteq DOMAIN v.fields
    /\ \A k \in DOMAIN v.fields :
          IF k \in {"input_tokens", "output_tokens"} THEN scannedInt(v.fields[k])
          ELSE skipped(v.fields[k])

parseAnthropicTextOnlyResponse(body) ==
    LET fields == body.value.fields
        parsed(k, v) ==
            CASE k \in {"id", "model"} -> scanned(v)
              [] k = "stop_reason"     -> scannedOrNull(v)
              [] k = "content" -> /\ v.kind = "array"
                                  /\ \A i \in DOMAIN v.items :
                                        parseAnthropicTextBlock(v.items[i])
              [] k = "usage"   -> parseAnthropicUsageObject(v)
              [] k = "error"   -> FALSE
              [] OTHER         -> skipped(v)
    IN  /\ body.end \in {"exact", "loose"}
        /\ \A k \in DOMAIN fields : parsed(k, fields[k])
        /\ {"id", "model", "content", "usage"} \subseteq DOMAIN fields

UsageOf(v) == LET usage == ObjectIn(v, "usage")
              IN  <<IntIn(usage, "input_tokens"), IntIn(usage, "output_tokens")>>

isTextOnly(body) ==
    ~Mentions(body.value, "tool_use") /\ ~Mentions(body.value, "error")

translateAnthropicTextOnlyToOpenAI(body) ==
    LET v == body.value
    IN  IF isTextOnly(body) /\ parseAnthropicTextOnlyResponse(body)
        THEN Completion(Quoted(StringIn(v, "id")), Quoted(StringIn(v, "model")),
                 Quoted(parseAnthropicTextContentArray(v.fields["content"])), <<>>,
                 Reason(StringIn(v, "stop_reason")), UsageOf(v))
        ELSE Untranslated

-----------------------------------------------------------------------------
(* The paths that decode the body with encoding/json.                      *)

\* encoding/json finds the field of a key in any case; the parser above knows
\* one spelling.
Fold(key) == IF key \in DOMAIN Spelling THEN Spelling[key] ELSE key

Renamed(v) ==
    IF v.kind # "object" THEN v
    ELSE Obj([k \in {Fold(key) : key \in DOMAIN v.fields} |->
                 v.fields[CHOOSE key \in DOMAIN v.fields : Fold(key) = k]])

\* The members of the body, of its blocks and of its usage, by their fields.
\* The input of a tool call keeps its keys.
ByField(v) ==
    LET known == Renamed(v).fields
    IN  Obj([k \in DOMAIN known |->
                CASE k = "usage" -> Renamed(known[k])
                  [] k = "content" /\ known[k].kind = "array" ->
                        Arr([i \in DOMAIN known[k].items |-> Renamed(known[k].items[i])])
                  [] OTHER -> known[k]])

\* json.Unmarshal into a struct with these string fields, and these in a
\* content block: the whole body is JSON, and every known field has its type
\* or is null.  (The source of an image block is left out.)
Unmarshals(body, strings, blockStrings) ==
    LET v == ByField(body.value)
        fits(o, k, kind) == Has(o, k) => o.fields[k].kind \in {kind, "null"}
        usage == ObjectIn(v, "usage")
    IN  /\ body.end = "exact"
        /\ \A u \in Nested(v) : u.kind = "string" => u.escape # "go"
        /\ \A k \in strings : fits(v, k, "string")
        /\ fits(v, "content", "array") /\ fits(v, "usage", "object")
        /\ fits(v, "error", "object")
        /\ \A k \in {"input_tokens", "output_tokens"} : fits(usage, k, "int")
        /\ \A i \in DOMAIN ItemsIn(v, "content") :
              LET block == ItemsIn(v, "content")[i]
              IN  /\ block.kind \in {"object", "null"}
                  /\ block.kind = "object" =>
                        \A k \in blockStrings : fits(block, k, "string")

Failed(v) == Has(v, "error") /\ v.fields["error"].kind = "object"

\* The blocks, a null one as the zero value of its type.
BlocksIn(v) ==
    LET items == ItemsIn(v, "content")
    IN  [i \in DOMAIN items |-> IF items[i].kind = "null" THEN Obj(<<>>) ELSE items[i]]

IsOfType(b, type) == StringIn(b, "type") = <<type>>

TextOf(blocks) ==
    Joined([i \in DOMAIN blocks |->
        IF IsOfType(blocks[i], "text") THEN StringIn(blocks[i], "text") ELSE <<>>])

\* The arguments are the input as it stands, "null" without one.
toolCall(b) == [id |-> StringIn(b, "id"), name |-> StringIn(b, "name"),
                arguments |-> IF Has(b, "input") THEN b.fields["input"] ELSE Null]

toolCalls(blocks) ==
    Joined([i \in DOMAIN blocks |->
        IF IsOfType(blocks[i], "tool_use") THEN <<toolCall(blocks[i])>> ELSE <<>>])

\* The same, written by hand.
quotedCall(b) == [toolCall(b) EXCEPT !.id = Quoted(@), !.name = Quoted(@)]

quotedCalls(blocks) ==
    Joined([i \in DOMAIN blocks |->
        IF IsOfType(blocks[i], "tool_use") THEN <<quotedCall(blocks[i])>> ELSE <<>>])

translateAnthropicToolUseToOpenAI(body) ==
    LET v      == ByField(body.value)
        blocks == BlocksIn(v)
    IN  IF /\ Mentions(body.value, "tool_use")
           /\ Unmarshals(body, {"id", "model", "stop_reason"},
                         {"type", "text", "id", "name"})
           /\ ~Failed(v)
           /\ \A i \in DOMAIN blocks :
                 IsOfType(blocks[i], "text") \/ IsOfType(blocks[i], "tool_use")
           /\ toolCalls(blocks) # <<>>
        THEN Completion(Quoted(StringIn(v, "id")), Quoted(StringIn(v, "model")),
                 Quoted(TextOf(blocks)), quotedCalls(blocks),
                 Reason(StringIn(v, "stop_reason")), UsageOf(v))
        ELSE Untranslated

\* The general path: blocks of other types are left out.
generalPath(body) ==
    LET v      == ByField(body.value)
        blocks == BlocksIn(v)
    IN  IF /\ Unmarshals(body, {"id", "type", "role", "model", "stop_reason"},
                         {"type", "text", "id", "name", "tool_use_id"})
           /\ ~Failed(v)
        THEN Completion(StringIn(v, "id"), StringIn(v, "model"), TextOf(blocks),
                 toolCalls(blocks), Reason(StringIn(v, "stop_reason")), UsageOf(v))
        ELSE Untranslated

-----------------------------------------------------------------------------
(* The answer to the client.                                               *)

TranslateAnthropicToOpenAI(body) ==
    LET text == translateAnthropicTextOnlyToOpenAI(body)
        tool == translateAnthropicToolUseToOpenAI(body)
    IN  CASE text.translated -> text
          [] ~text.translated /\ tool.translated -> tool
          [] OTHER -> generalPath(body)

\* TranslateResponse: an answer other than 200, and one that cannot be
\* translated, goes through as it came.
TranslateResponse(status, body) ==
    [status |-> status,
     body   |-> IF status = 200 THEN TranslateAnthropicToOpenAI(body) ELSE Untranslated]

-----------------------------------------------------------------------------
(* The property, of one response.                                          *)

\* The two fast paths are only faster.  Whatever answer the general path can
\* translate is translated to the same completion: a fast path that gives up
\* half way leaves nothing behind, and one that goes through has read the
\* same text, calls, reason and usage.  The strings are those that
\* strconv.AppendQuote writes as JSON, and integers within tool arguments
\* those a float64 holds.  An answer that mentions no tool call spells its
\* keys as the structs do: the parser of text alone passes over "Text", which
\* the decoder reads as the text.
ResponsePathsAgree(status, body) ==
    LET answer    == TranslateResponse(status, body)
        reference == generalPath(body)
        read      == ByField(body.value)
    IN  /\ answer.status = status
        /\ status # 200 => answer.body = Untranslated
        /\ /\ status = 200 /\ reference.translated
           /\ \A u \in Nested(read) : u.kind = "string" => Quotable(u.text)
           /\ Mentions(body.value, "tool_use") \/ read = body.value
           => answer.body = reference

=============================================================================
