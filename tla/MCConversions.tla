---------------------------- MODULE MCConversions ----------------------------
(***************************************************************************)
(* The pure conversions, for TLC: one of them is chosen at the start, and  *)
(* the machine enumerates its inputs.  The request scanner and the stream  *)
(* translation bring their own; a response, a chat request and a           *)
(* configuration start from a usual one and are changed step by step.      *)
(* The stream is the one of module AnthropicStream itself.                 *)
(***************************************************************************)
EXTENDS AnthropicStream, Integers, TLC

CONSTANTS
    MaxMembers,             \* bound of BodyScan
    MaxChanges,             \* bound on the changes to a response or a file
    MaxMessages             \* bound on the messages of a chat request

VARIABLES
    subject,                        \* the conversion under test
    body, damaged,                  \* BodyScan
    input,                          \* the input of the other three
    changes                         \* steps taken to make it

bodyVars == <<body, damaged>>
allVars  == <<subject, bodyVars, vars, input, changes>>

-----------------------------------------------------------------------------
(* Request bodies: each known member, with values of its type that the     *)
(* scanner or the injection tells apart, and members that mention them.    *)
(* "tools" comes in by a replacement of "messages".                        *)

MCMembers == {
    <<"model", ":", "text">>,
    <<"stream", ":", "true">>,
    <<"stream", ":", "false">>,
    <<"stream_options", ":", "{", "}">>,
    <<"stream_options", ":", "{", "text", ":", "null", "}">>,
    <<"stream_options", ":", "{", "include_usage", ":", "true", "}">>,
    <<"messages", ":", "[", "{", "}", ",", "text", "]">>,
    <<"response_format", ":", "{", "text", ":", "[", "]", "}">>,
    <<"text", ":", "stream_options">>}

MCSymbols == {"{", "}", "[", "]", ":", ",", "model", "stream", "stream_options",
    "include_usage", "messages", "tools", "response_format", "text", "text\\n",
    "text\\/", "pair", "text\\x", "true", "false", "null", "number"}

Scanner == INSTANCE BodyScan WITH Members <- MCMembers, Symbols <- MCSymbols

-----------------------------------------------------------------------------
(* Event streams: one document of each kind the translation tells apart.   *)

Delta(kind, text) ==
    [JSONDoc("content_block_delta") EXCEPT !.delta = kind, !.text = text]

\* A text delta in two parts, each a data line of its own.
Half(which) == [JSONDoc(which) EXCEPT !.json = FALSE]

MCDocs == {
    [JSONDoc("message_start") EXCEPT !.model = "claude"],
    JSONDoc("message_start"),
    Delta("text_delta", "printable"),
    Delta("text_delta", "bell"),
    Delta("input_json_delta", "printable"),
    [JSONDoc("content_block_start") EXCEPT !.block = "tool_use"],
    [JSONDoc("message_delta") EXCEPT !.stop = "tool_use"],
    [JSONDoc("message_delta") EXCEPT !.stop = "max_tokens"],
    [JSONDoc("[DONE]") EXCEPT !.json = FALSE],
    [JSONDoc("") EXCEPT !.json = FALSE],
    Half("first"), Half("second")}

MCWhole == (<<Half("first"), Half("second")>> :> Delta("text_delta", "printable"))

MCTypes == {"", "message_start", "content_block_delta"}

-----------------------------------------------------------------------------
(* Responses.                                                              *)

MCSpelling == [Text |-> "text", Type |-> "type", Content |-> "content",
               ERROR |-> "error", Stop_Reason |-> "stop_reason"]

\* The body, its content, a block, its input, and what is in it.
R == INSTANCE AnthropicResponse WITH Depth <- 5, Spelling <- MCSpelling

TextBlock(text) == R!Obj([type |-> R!Word("text"), text |-> text])

ToolBlock == R!Obj([type |-> R!Word("tool_use"), id |-> R!Word("call"),
                    name |-> R!Word("f"),
                    input |-> R!Obj([x |-> R!Float, Text |-> R!Word("x")])])

Blocks == {TextBlock(R!Word("hi")), TextBlock(R!Str(<<>>)),
           TextBlock(R!Str(<<"newline", "tool_use">>)), TextBlock(R!Word("bell")),
           TextBlock(R!JSONStr(<<"slash">>)), TextBlock(R!Null),
           R!Obj([Type |-> R!Word("text"), Text |-> R!Word("hi")]),
           R!Obj([type |-> R!Word("thinking"), text |-> R!Word("hmm")]),
           R!Obj([type |-> R!Word("text"), text |-> R!Word("hi"), id |-> R!Num(1)]),
           R!Obj([type |-> R!Word("tool_use")]), ToolBlock, R!Null}

Usage == [input_tokens |-> R!Num(2), output_tokens |-> R!Num(3)]

\* A missing member is one of the values.
Missing == [kind |-> "missing"]

Variants ==
    [id          |-> {R!Null, R!Num(1), R!JSONStr(<<"id">>), R!GoStr(<<"id">>), Missing},
     model       |-> {R!Word("delete"), Missing},
     stop_reason |-> {R!Null, R!Word("max_tokens"), R!Word("tool_use"), Missing},
     usage       |-> {R!Obj(Usage @@ [cache |-> R!Num(1)]),
                      R!Obj(Usage @@ [cache |-> R!Float]),
                      R!Obj([input_tokens |-> R!Num(2)]),
                      R!Obj([Usage EXCEPT !.input_tokens = R!Null]),
                      R!Obj([Usage EXCEPT !.input_tokens = R!Float]), R!Null, Missing},
     error       |-> {R!Null, R!Obj([type |-> R!Word("overloaded")])},
     type        |-> {R!Word("message"), R!Word("error"), R!Num(1)},
     content     |-> {R!Null, R!Word("hi"), Missing}]

Fields(f) == [k \in {k \in DOMAIN f : f[k] # Missing} |-> f[k]]

InitResponse ==
    \E n \in 0..2 : \E blocks \in [1..n -> Blocks] :
        input = [status |-> 200, end |-> "exact",
                 fields |-> [id |-> R!Word("id"), model |-> R!Word("m"),
                             content |-> R!Arr(blocks), stop_reason |-> R!Word("end_turn"),
                             usage |-> R!Obj(Usage)]]

ChangeResponse ==
    \/ \E k \in DOMAIN Variants : \E v \in Variants[k] :
          /\ \A s \in DOMAIN input.fields : s # k => R!Fold(s) # k
          /\ input' = [input EXCEPT !.fields = Fields((k :> v) @@ @)]
    \/ \E s \in DOMAIN MCSpelling :
          /\ MCSpelling[s] \in DOMAIN input.fields
          /\ LET k == MCSpelling[s]
             IN  input' = [input EXCEPT !.fields =
                              (s :> @[k]) @@ Fields((k :> Missing) @@ @)]
    \/ \E e \in {"loose", "cut"} : input' = [input EXCEPT !.end = e]
    \/ input' = [input EXCEPT !.status = 500]

-----------------------------------------------------------------------------
(* Chat requests.                                                          *)

Q == INSTANCE AnthropicRequest

Call(json) == [id |-> "c", name |-> "f", arguments |-> "x", json |-> json]

TextPart == Q!Part("text", <<"hi">>, Q!NoURL)

Messages ==
    {Q!Plain(role, content) : role \in {"system", "user", "assistant", "tool", "developer"},
        content \in {Q!NoContent, Q!NullContent, Q!Text(<<"hi">>)}} \cup
    {Q!Plain("user", content) : content \in
        {Q!OtherContent, Q!Text(<<"bell">>),
         Q!Parts(<<TextPart, Q!Part("image_url", <<>>, "")>>)}} \cup
    {Q!Plain("system", Q!Parts(<<TextPart, Q!Part("image_url", <<>>, Q!NoURL)>>)),
     Q!Plain("user", Q!Parts(<<Q!Part("image_url", <<>>, Q!NoURL)>>)),
     Q!Message("user", Q!Text(<<"hi">>), <<>>, "", "n"),
     Q!Message("assistant", Q!Text(<<"hi">>), <<Call(TRUE)>>, "", ""),
     Q!Message("assistant", Q!NullContent, <<Call(FALSE)>>, "", ""),
     Q!Message("tool", Q!Text(<<"hi">>), <<>>, "c", "")}

PlainRequest == [model |-> <<"m">>, max_tokens |-> 0, options |-> "as given",
                 stop |-> <<>>, format |-> "none", tools |-> <<>>,
                 messages |-> <<>>]

InitRequest ==
    \/ \E format \in {"none", "", "text", "json_object", "json_schema"} :
          input = [PlainRequest EXCEPT !.format = format]
    \/ input = [PlainRequest EXCEPT !.max_tokens = 7]
    \/ input = [PlainRequest EXCEPT !.tools = <<"f">>]
    \/ \E stop \in {<<<<"hi">>>>, <<<<"hi">>, <<"delete">>>>} :
          input = [PlainRequest EXCEPT !.stop = stop]
    \/ input = [PlainRequest EXCEPT !.model = <<"bell">>]

AddMessage ==
    \E m \in Messages : input' = [input EXCEPT !.messages = Append(@, m)]

-----------------------------------------------------------------------------
(* Configurations.                                                         *)

C == INSTANCE Configuration

Padded(t) == [t EXCEPT !.padded = TRUE]

Token(name, env) ==
    [name |-> C!Text(name), value |-> C!Empty, value_env |-> C!Text(env),
     rate_limit_qps |-> C!Float(0), rate_limit_burst |-> 0, disabled |-> FALSE]

Provider(name) ==
    [name |-> C!Text(name), base_url |-> C!Text("https"), api_key |-> C!Empty,
     api_key_env |-> C!Text("KEY"), models |-> {C!Text("m")}, max_retries |-> 0,
     timeout_non_stream |-> C!Text(C!Unset), timeout_stream |-> C!Text(5000)]

Environment == (C!Text("KEY") :> C!Text("k")) @@ (C!Text("ONE") :> C!Text("t1"))
                 @@ (C!Text("TWO") :> Padded(C!Text("t2")))
                 @@ (C!Text("SAME") :> Padded(C!Text("t1")))
                 @@ (C!Text("BLANK") :> Padded(C!Empty))

InitFile ==
    input = [number |-> <<>>, rate |-> <<>>, codes |-> <<>>, duration |-> <<>>, cidrs |-> {Padded(C!Text("cidr"))},
             tokens |-> <<Token("a", "ONE"), Token("b", "TWO")>>,
             providers |-> <<Provider("p"), Provider("q")>>,
             bearer |-> [token |-> C!Empty, token_env |-> C!Text("KEY")]]

Times == {Padded(C!Text(7000)), C!Text(7000), C!Text(0), C!Text(C!Unset),
          C!Text(C!NotDuration)}

ChangeFile ==
    \/ \E f \in C!Numbers, n \in {-1, 0, 1, 70000} :
          input' = [input EXCEPT !.number = (f :> n) @@ @]
    \/ \E f \in C!Rates, x \in {C!Float(n) : n \in {-1, 0, 1, 101}} \cup {C!NaN} :
          input' = [input EXCEPT !.rate = (f :> x) @@ @]
    \/ \E codes \in {{}, {503}} :
          input' = [input EXCEPT !.codes = [retryable_status_codes |-> codes]]
    \/ \E f \in {"read_timeout", "retry_backoff", "default_timeout_stream"}, t \in Times :
          input' = [input EXCEPT !.duration = (f :> t) @@ @]
    \/ \E t \in {Token("b", "ONE"), Token("c", "SAME"), Token("c", "BLANK"),
                 [Token("c", "ONE") EXCEPT !.disabled = TRUE, !.value = C!Text("v")],
                 [Token("c", "ONE") EXCEPT !.value = C!Text("v")],
                 [Token("c", "ONE") EXCEPT !.rate_limit_qps = C!Float(-1)],
                 [Token("c", "ONE") EXCEPT !.rate_limit_qps = C!NaN],
                 [Token("b", "ONE") EXCEPT !.name = Padded(@)],
                 [Token("c", "ONE") EXCEPT !.value_env = Padded(@)]} :
          input' = [input EXCEPT !.tokens[1] = t]
    \/ \E p \in {Provider("q"), [Provider("q") EXCEPT !.name = Padded(@)],
                 [Provider("p") EXCEPT !.api_key_env = Padded(@)],
                 [Provider("p") EXCEPT !.api_key_env = C!Empty],
                 [Provider("p") EXCEPT !.api_key = C!Text("k")],
                 [Provider("p") EXCEPT !.models = {Padded(C!Empty)}],
                 [Provider("p") EXCEPT !.models = {Padded(C!Text("m")), C!Text("m")}],
                 [Provider("p") EXCEPT !.base_url = C!Text("http to a public host")],
                 [Provider("p") EXCEPT !.max_retries = -1]} :
          input' = [input EXCEPT !.providers[1] = p]
    \/ \E t \in Times : input' = [input EXCEPT !.providers[2].timeout_stream = t]
    \/ input' = [input EXCEPT !.cidrs = {C!Text("host"), Padded(C!Empty)}]
    \/ \E b \in {[token |-> C!Text("k"), token_env |-> C!Empty],
                 [token |-> C!Empty, token_env |-> C!Text("NONE")]} :
          input' = [input EXCEPT !.bearer = b]

-----------------------------------------------------------------------------
(* The enumeration.                                                        *)

MCInit ==
    /\ Scanner!Init /\ Init
    /\ changes = 0
    /\ \/ subject \in {"body", "stream"} /\ input = Missing
       \/ subject = "response" /\ InitResponse
       \/ subject = "request" /\ InitRequest
       \/ subject = "file" /\ InitFile

ScannerStep ==
    /\ subject = "body"
    /\ Scanner!Next
    /\ UNCHANGED <<subject, vars, input, changes>>

StreamStep ==
    /\ subject = "stream"
    /\ Next
    /\ UNCHANGED <<subject, bodyVars, input, changes>>

Change(which, bound, step) ==
    /\ subject = which /\ changes < bound
    /\ step
    /\ changes' = changes + 1
    /\ UNCHANGED <<subject, bodyVars, vars>>

ResponseStep == Change("response", MaxChanges, ChangeResponse)
RequestStep  == Change("request", MaxMessages, AddMessage)
FileStep     == Change("file", MaxChanges, ChangeFile)

MCNext == ScannerStep \/ StreamStep \/ ResponseStep \/ RequestStep \/ FileStep

MCSpec == MCInit /\ [][MCNext]_allVars

-----------------------------------------------------------------------------
(* The properties, of whatever is enumerated; TranslatesEvents is that of  *)
(* AnthropicStream.                                                        *)

\* The request body scanner accepts exactly what its grammar accepts.
ScannerIsGrammar == Scanner!ScannerIsGrammar

\* Asking for the usage leaves the request the one the client sent.
InjectionSound == Scanner!InjectionSound

\* The fast paths of the response translation agree with the general one.
ResponsePathsAgree ==
    subject = "response" =>
        R!ResponsePathsAgree(input.status, R!Body(input.fields, input.end))

\* The fast path of the request translation agrees with the general one.
RequestPathsAgree == subject = "request" => Q!RequestPathsAgree(input)

\* A configuration that is loaded is one the gateway can run with.
LoadedIsSound == subject = "file" => C!LoadedIsSound(input, Environment)

\* The timeout configured for an attempt is the one it has.
TimeoutHonoured == subject = "file" => C!TimeoutHonoured(input, Environment)

=============================================================================
