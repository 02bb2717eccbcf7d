------------------------------ MODULE BodyScan ------------------------------
(***************************************************************************)
(* The request body scanner (internal/middleware/body_scan.go) and the     *)
(* injection of stream_options.include_usage (internal/middleware/body.go) *)
(* against a reference grammar of JSON.                                    *)
(*                                                                         *)
(* A body is a sequence of symbols: the punctuation, the literals, and a   *)
(* string or a number as one symbol each; white space is left out.  The    *)
(* state machine enumerates bodies: objects of a few members, then one     *)
(* symbol deleted, inserted or replaced anywhere.                          *)
(***************************************************************************)
EXTENDS Naturals, Sequences, SequencesExt, FiniteSets

CONSTANTS
    Members,        \* members the enumerated objects are made of
    Symbols,        \* symbols put into a body to damage it
    MaxMembers      \* bound on the members of an object

VARIABLES
    body,           \* rawBody
    damaged         \* whether a symbol was changed

vars == <<body, damaged>>

-----------------------------------------------------------------------------
(* Strings.                                                                *)

\* Strings without an escape, by what they say.
PlainStrings == {"model", "stream", "stream_options", "include_usage",
                 "messages", "tools", "response_format", "text"}

\* Strings with an escape: \n is JSON's and Go's; \/ and surrogate pairs are
\* JSON's only, \x is Go's only.  An unterminated string, or one with a
\* control character, is neither.
EscapedStrings == {"text\\n", "text\\/", "pair", "text\\x"}

JSONStrings == PlainStrings \cup {"text\\n", "text\\/", "pair"}
GoStrings   == PlainStrings \cup {"text\\n", "text\\x"}
Literals    == {"true", "false", "null", "number"}

-----------------------------------------------------------------------------
(* The scanner.  A function returns the index after what it has scanned,   *)
(* or Failed.                                                              *)

Failed == 0

At(b, i, symbol) == i \in 1..Len(b) /\ b[i] = symbol

\* A string with an escape is unquoted by strconv.Unquote, by Go's rules.
scanJSONString(b, i) ==
    IF i \in 1..Len(b) /\ b[i] \in GoStrings THEN i + 1 ELSE Failed

\* The place of a member's value, after its key and the colon.
scanKey(b, i) ==
    IF At(b, scanJSONString(b, i), ":") THEN i + 2 ELSE Failed

RECURSIVE skipJSONValue(_, _), skipJSONObject(_, _), skipJSONArray(_, _)
RECURSIVE afterMember(_, _), afterElement(_, _)

skipJSONValue(b, i) ==
    CASE At(b, i, "{") -> skipJSONObject(b, i + 1)
      [] At(b, i, "[") -> skipJSONArray(b, i + 1)
      [] i \in 1..Len(b) /\ b[i] \in Literals -> i + 1
      [] OTHER -> scanJSONString(b, i)

\* From the place of a key on; a comma may be followed by the closing brace.
skipJSONObject(b, i) ==
    IF At(b, i, "}") THEN i + 1 ELSE afterMember(b, skipJSONValue(b, scanKey(b, i)))

afterMember(b, i) ==
    CASE At(b, i, ",") -> skipJSONObject(b, i + 1)
      [] At(b, i, "}") -> i + 1
      [] OTHER         -> Failed

skipJSONArray(b, i) ==
    IF At(b, i, "]") THEN i + 1 ELSE afterElement(b, skipJSONValue(b, i))

afterElement(b, i) ==
    CASE At(b, i, ",") -> skipJSONArray(b, i + 1)
      [] At(b, i, "]") -> i + 1
      [] OTHER         -> Failed

\* From the place of a key on: the end of the object, and whether the key was
\* met.
RECURSIVE inspectObjectForKey(_, _, _, _), afterInspected(_, _, _, _)
inspectObjectForKey(b, i, key, found) ==
    IF At(b, i, "}") THEN [end |-> i + 1, found |-> found]
    ELSE afterInspected(b, skipJSONValue(b, scanKey(b, i)), key, found \/ At(b, i, key))

afterInspected(b, i, key, found) ==
    CASE At(b, i, ",") -> inspectObjectForKey(b, i + 1, key, found)
      [] At(b, i, "}") -> [end |-> i + 1, found |-> found]
      [] OTHER         -> [end |-> Failed, found |-> found]

NoInfo == [Model |-> "", Stream |-> FALSE, HasStreamOptions |-> FALSE,
           HasIncludeUsage |-> FALSE, Start |-> 0, End |-> 0]

\* The value of a top-level member must be of the type its key asks for.
typed(b, key, i) ==
    CASE key = "model"           -> i \in 1..Len(b) /\ b[i] \in GoStrings
      [] key = "stream"          -> At(b, i, "true") \/ At(b, i, "false")
      [] key \in {"messages", "tools"} -> At(b, i, "[")
      [] key \in {"response_format", "stream_options"} -> At(b, i, "{")
      [] OTHER                   -> TRUE

\* Faulty variant: a second stream_options keeps the first one's place.
noteOptionsFirst(info, i, options) ==
    [end |-> options.end,
     info |-> [info EXCEPT !.HasStreamOptions = TRUE,
                           !.HasIncludeUsage = options.found,
                           !.Start = IF @ = 0 THEN i ELSE @,
                           !.End = IF @ = 0 THEN options.end ELSE @]]

\* The last stream_options counts.
noteOptions(info, i, options) ==
    [end |-> options.end,
     info |-> [info EXCEPT !.HasStreamOptions = TRUE,
                           !.HasIncludeUsage = options.found,
                           !.Start = i, !.End = options.end]]

\* The value of a top-level member: its end, and what is noted of it.
inspectMember(b, key, i, info) ==
    IF i = Failed \/ ~typed(b, key, i) THEN [end |-> Failed, info |-> info]
    ELSE CASE key = "model"  -> [end |-> i + 1, info |-> [info EXCEPT !.Model = b[i]]]
           [] key = "stream" -> [end |-> i + 1,
                                 info |-> [info EXCEPT !.Stream = (b[i] = "true")]]
           [] key = "stream_options" ->
                 noteOptions(info, i, inspectObjectForKey(b, i + 1, "include_usage", FALSE))
           [] OTHER -> [end |-> skipJSONValue(b, i), info |-> info]

\* The end of the object and what was noted.
RECURSIVE inspectTopLevelObject(_, _, _), afterTopLevel(_, _)
inspectTopLevelObject(b, i, info) ==
    IF At(b, i, "}") THEN [end |-> i + 1, info |-> info]
    ELSE afterTopLevel(b, inspectMember(b, b[i], scanKey(b, i), info))

afterTopLevel(b, member) ==
    CASE At(b, member.end, ",") -> inspectTopLevelObject(b, member.end + 1, member.info)
      [] At(b, member.end, "}") -> [end |-> member.end + 1, info |-> member.info]
      [] OTHER                  -> [end |-> Failed, info |-> member.info]

\* Faulty variant: what follows the object is not looked at.
inspectRequestBodyPrefix(b) ==
    LET top == IF At(b, 1, "{") THEN inspectTopLevelObject(b, 2, NoInfo)
               ELSE [end |-> Failed, info |-> NoInfo]
    IN  [ok |-> top.end # Failed, info |-> top.info]

inspectRequestBody(b) ==
    LET top == IF At(b, 1, "{") THEN inspectTopLevelObject(b, 2, NoInfo)
               ELSE [end |-> Failed, info |-> NoInfo]
    IN  [ok |-> top.end = Len(b) + 1, info |-> top.info]

-----------------------------------------------------------------------------
(* The upstream body.                                                      *)

\* Appended before the closing brace unless the text is there already.
injectStreamIncludeUsageFast(b) ==
    IF "stream_options" \in ToSet(b) THEN b
    ELSE Front(b) \o <<",", "stream_options", ":",
                       "{", "include_usage", ":", "true", "}", "}">>

injectIncludeUsageIntoStreamOptions(b, start, end) ==
    LET insertAt  == end - 1
        separator == IF insertAt = start + 1 THEN <<>> ELSE <<",">>
    IN  SubSeq(b, 1, insertAt - 1) \o separator
          \o <<"include_usage", ":", "true">> \o SubSeq(b, insertAt, Len(b))

buildUpstreamBody(b, info) ==
    CASE ~info.Stream -> b
      [] info.Stream /\ ~info.HasStreamOptions -> injectStreamIncludeUsageFast(b)
      [] info.Stream /\ info.HasStreamOptions ->
            IF info.HasIncludeUsage THEN b
            ELSE injectIncludeUsageIntoStreamOptions(b, info.Start, info.End)

-----------------------------------------------------------------------------
(* The bodies.                                                             *)

Init ==
    /\ body = <<"{", "}">>
    /\ damaged = FALSE

AddMember ==
    /\ ~damaged
    /\ Cardinality({i \in 1..Len(body) : body[i] = ":"}) < MaxMembers
    /\ \E m \in Members :
          body' = Front(body) \o (IF Len(body) = 2 THEN <<>> ELSE <<",">>)
                              \o m \o <<"}">>
    /\ UNCHANGED damaged

Damage ==
    /\ ~damaged
    /\ damaged' = TRUE
    /\ \E i \in 1..Len(body) :
          \/ body' = SubSeq(body, 1, i - 1) \o SubSeq(body, i + 1, Len(body))
          \/ \E x \in Symbols :
                \/ body' = [body EXCEPT ![i] = x]
                \/ body' = SubSeq(body, 1, i) \o <<x>> \o SubSeq(body, i + 1, Len(body))

Next == AddMember \/ Damage

Spec == Init /\ [][Next]_vars

-----------------------------------------------------------------------------
(* The reference: a JSON value, read as a whole.  With trailing set, a     *)
(* comma before a closing bracket is allowed.                              *)

Opened(s, i) == Cardinality({j \in 1..i : s[j] \in {"{", "["}})
Closed(s, i) == Cardinality({j \in 1..i : s[j] \in {"}", "]"}})

\* The pieces of s between the commas that are inside no bracket.
Pieces(s) ==
    LET cuts == {0, Len(s) + 1} \cup
                {i \in 1..Len(s) : s[i] = "," /\ Opened(s, i) = Closed(s, i)}
    IN  {SubSeq(s, a + 1, b - 1) : <<a, b>> \in
            {<<a, b>> \in cuts \X cuts :
                a < b /\ ~\E c \in cuts : a < c /\ c < b}}

Inner(s, trailing) ==
    LET inner == SubSeq(s, 2, Len(s) - 1)
    IN  IF trailing /\ inner # <<>> /\ Last(inner) = "," THEN Front(inner) ELSE inner

RECURSIVE IsJSON(_, _, _)
IsJSON(s, strings, trailing) ==
    \/ Len(s) = 1 /\ s[1] \in strings \cup Literals
    \/ /\ Len(s) >= 2 /\ s[1] = "{" /\ Last(s) = "}"
       /\ \/ Len(s) = 2
          \/ \A p \in Pieces(Inner(s, trailing)) :
                /\ Len(p) >= 3 /\ p[1] \in strings /\ p[2] = ":"
                /\ IsJSON(SubSeq(p, 3, Len(p)), strings, trailing)
    \/ /\ Len(s) >= 2 /\ s[1] = "[" /\ Last(s) = "]"
       /\ \/ Len(s) = 2
          \/ \A p \in Pieces(Inner(s, trailing)) : IsJSON(p, strings, trailing)

\* An object whose known members have values of the right types.
IsRequest(s, strings, trailing) ==
    /\ s # <<>> /\ s[1] = "{"
    /\ IsJSON(s, strings, trailing)
    /\ \A p \in Pieces(Inner(s, trailing)) : p # <<>> => typed(p, p[1], 3)

-----------------------------------------------------------------------------
(* Properties.                                                             *)

\* The scanner accepts exactly the requests of the grammar, read with Go's
\* strings and with trailing commas allowed: its four loops agree with each
\* other and none reads past the end.
ScannerIsGrammar ==
    inspectRequestBody(body).ok <=> IsRequest(body, GoStrings, TRUE)

\* Injecting include_usage into a JSON request leaves a JSON request with the
\* same model and stream flag, which asks for the usage and to which nothing
\* more would be added.  Where the text "stream_options" stands elsewhere in
\* a body without the option, nothing is injected.
InjectionSound ==
    LET seen     == inspectRequestBody(body)
        upstream == buildUpstreamBody(body, seen.info)
        again    == inspectRequestBody(upstream)
        shadowed == ~seen.info.HasStreamOptions /\ "stream_options" \in ToSet(body)
    IN  seen.ok /\ IsJSON(body, GoStrings, FALSE) =>
          /\ IsJSON(upstream, GoStrings, FALSE)
          /\ again.ok
          /\ again.info.Model = seen.info.Model
          /\ again.info.Stream = seen.info.Stream
          /\ seen.info.Stream /\ ~shadowed => again.info.HasIncludeUsage
          /\ buildUpstreamBody(upstream, again.info) = upstream

\* A body that is refused as "Invalid JSON payload." is not a JSON object of
\* the right types.
RefusedIsNotJSON ==
    ~inspectRequestBody(body).ok => ~IsRequest(body, JSONStrings, FALSE)

=============================================================================
