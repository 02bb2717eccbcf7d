-------------------------- MODULE AnthropicRequest --------------------------
(***************************************************************************)
(* TranslateOpenAIToAnthropicBody (internal/adapter/anthropic_provider.go, *)
(* anthropic_request_fast.go, anthropic_request_content.go): a chat        *)
(* completion request becomes an Anthropic one, by a fast path for plain   *)
(* conversations that writes the JSON itself, or by the general path.      *)
(*                                                                         *)
(* A request is taken as json.Unmarshal leaves it.  The temperature, the   *)
(* stream flag and top_p are one member, options: both paths copy them and *)
(* leave out the ones that are zero.                                       *)
(***************************************************************************)
EXTENDS Naturals, Sequences, FiniteSetsExt, AdapterJSON

-----------------------------------------------------------------------------
(* Requests.                                                               *)

\* The content of a message, a json.RawMessage: missing, null, a string, an
\* array of parts, or another value (a number, an object).
NoContent     == [kind |-> "missing"]
NullContent   == [kind |-> "null"]
OtherContent  == [kind |-> "other"]
Text(text)    == [kind |-> "string", text |-> text]
Parts(parts)  == [kind |-> "parts", parts |-> parts]

\* An image part may come without its image_url, or with an empty one.
NoURL == "no image_url"

Part(type, text, url) == [type |-> type, text |-> text, url |-> url]

Message(role, content, toolCalls, toolCallID, name) ==
    [role |-> role, content |-> content, toolCalls |-> toolCalls,
     toolCallID |-> toolCallID, name |-> name]

Plain(role, content) == Message(role, content, <<>>, "", "")

\* The raw bytes of a content that is neither a string nor an array.
RawBytes(content) == <<"raw", content.kind>>

-----------------------------------------------------------------------------
(* Contents.                                                               *)

\* decodeOpenAIMessageContent: null counts as undecodable.
decodes(content) == content.kind \in {"missing", "string", "parts"}

textOnly(content) ==
    CASE content.kind = "missing" -> <<>>
      [] content.kind = "string"  -> content.text
      [] content.kind = "parts"   ->
            Joined([i \in DOMAIN content.parts |->
                IF content.parts[i].type = "text" THEN content.parts[i].text ELSE <<>>])

contentAsString(content) == IF decodes(content) THEN textOnly(content) ELSE <<>>

\* Text parts, and image parts that have an image_url.
anthropicBlocks(parts) ==
    LET kept == SelectSeq(parts, LAMBDA p : \/ p.type = "text"
                                            \/ p.type = "image_url" /\ p.url # NoURL)
    IN  [i \in DOMAIN kept |->
            IF kept[i].type = "text" THEN [type |-> "text", text |-> kept[i].text]
            ELSE [type |-> "image", url |-> kept[i].url]]

-----------------------------------------------------------------------------
(* The general path.                                                       *)

\* The content is a list of blocks; a plain string is kept as one.
Said(role, content) == [role |-> role, content |-> content]

Words(text) == <<[type |-> "string", text |-> text]>>

translateUserMessage(msg) ==
    CASE msg.content.kind = "missing" -> Said("user", Words(<<>>))
      [] msg.content.kind = "string"  -> Said("user", Words(msg.content.text))
      [] msg.content.kind = "parts"   -> Said("user", anthropicBlocks(msg.content.parts))
      [] OTHER                        -> Said("user", Words(RawBytes(msg.content)))

\* toolCallArgumentsAsInput: arguments that are not JSON go as a string.
toolUse(call) ==
    [type |-> "tool_use", id |-> call.id, name |-> call.name,
     input |-> IF call.json THEN <<"raw", call.arguments>>
               ELSE <<"string", call.arguments>>]

translateAssistantMessage(msg) ==
    LET text == contentAsString(msg.content)
        said == IF text = <<>> THEN <<>> ELSE <<[type |-> "text", text |-> text]>>
        used == [i \in DOMAIN msg.toolCalls |-> toolUse(msg.toolCalls[i])]
    IN  Said("assistant", IF msg.toolCalls = <<>> THEN Words(text) ELSE said \o used)

translateToolResultMessage(msg) ==
    Said("user", <<[type |-> "tool_result", tool_use_id |-> msg.toolCallID,
                    content |-> contentAsString(msg.content)]>>)

translateMessage(msg) ==
    CASE msg.role = "tool"      -> translateToolResultMessage(msg)
      [] msg.role = "assistant" -> translateAssistantMessage(msg)
      [] OTHER                  -> translateUserMessage(msg)

\* adaptResponseFormatForAnthropic: what is added to the system prompt.
directive(format) ==
    IF format \in {"json_object", "json_schema"} THEN <<"directive", format>> ELSE <<>>

IsSystem(msg) == msg.role = "system"

SystemOnes(messages) == {i \in DOMAIN messages : IsSystem(messages[i])}

\* The last system message is the prompt; the others are dropped.
systemPrompt(messages) ==
    IF SystemOnes(messages) = {} THEN <<>>
    ELSE contentAsString(messages[Max(SystemOnes(messages))].content)

maxTokens(req) == IF req.max_tokens = 0 THEN 4096 ELSE req.max_tokens

generalRequest(req) ==
    [model |-> req.model, max_tokens |-> maxTokens(req),
     options |-> req.options, stop_sequences |-> req.stop,
     system |-> systemPrompt(req.messages) \o directive(req.format),
     tools |-> req.tools,
     messages |-> Joined([i \in DOMAIN req.messages |->
         IF IsSystem(req.messages[i]) THEN <<>>
         ELSE <<translateMessage(req.messages[i])>>])]

-----------------------------------------------------------------------------
(* The fast path.                                                          *)

\* rawMessageAsSimpleString: a missing content and null are empty strings.
isSimpleString(content) == content.kind \in {"missing", "null", "string"}

rawMessageAsSimpleString(content) ==
    IF content.kind = "string" THEN content.text ELSE <<>>

\* Faulty variant: the path is taken by messages of any role.
isSimpleAnyRole(req) ==
    /\ req.tools = <<>>
    /\ req.format \in {"none", "", "text"}
    /\ \A i \in DOMAIN req.messages :
          LET m == req.messages[i]
          IN  /\ m.toolCalls = <<>> /\ m.toolCallID = "" /\ m.name = ""
              /\ isSimpleString(m.content)
    /\ \E i \in DOMAIN req.messages : ~IsSystem(req.messages[i])

isSimple(req) ==
    /\ req.tools = <<>>
    /\ req.format \in {"none", "", "text"}
    /\ \A i \in DOMAIN req.messages :
          LET m == req.messages[i]
          IN  /\ m.toolCalls = <<>> /\ m.toolCallID = "" /\ m.name = ""
              /\ isSimpleString(m.content)
              /\ m.role \in {"system", "user", "assistant"}
    /\ \E i \in DOMAIN req.messages : ~IsSystem(req.messages[i])

translateOpenAIToAnthropicSimple(req) ==
    LET prompts == SystemOnes(req.messages)
        text(i) == Quoted(rawMessageAsSimpleString(req.messages[i].content))
    IN  [model |-> Quoted(req.model), max_tokens |-> maxTokens(req),
         options |-> req.options,
         stop_sequences |-> [i \in DOMAIN req.stop |-> Quoted(req.stop[i])],
         system |-> IF prompts = {} THEN <<>> ELSE text(Max(prompts)),
         tools |-> <<>>,
         messages |-> Joined([i \in DOMAIN req.messages |->
             IF IsSystem(req.messages[i]) THEN <<>>
             ELSE <<Said(req.messages[i].role, Words(text(i)))>>])]

TranslateOpenAIToAnthropicBody(req) ==
    IF isSimple(req) THEN translateOpenAIToAnthropicSimple(req) ELSE generalRequest(req)

-----------------------------------------------------------------------------
(* The property, of one request.                                           *)

\* The request as a reader finds it whose strings AppendQuote wrote: a text
\* it spoils is garbled, and a content that is null is as good as missing.
ContentAsRead(content) ==
    CASE content.kind = "string" -> Text(Quoted(content.text))
      [] content.kind = "null"   -> NoContent
      [] OTHER                   -> content

MessageAsRead(m) ==
    Message(m.role, ContentAsRead(m.content), m.toolCalls, m.toolCallID, m.name)

AsRead(req) ==
    [model |-> Quoted(req.model), max_tokens |-> req.max_tokens,
     options |-> req.options,
     stop |-> [i \in DOMAIN req.stop |-> Quoted(req.stop[i])],
     format |-> req.format, tools |-> req.tools,
     messages |-> [i \in DOMAIN req.messages |-> MessageAsRead(req.messages[i])]]

\* Texts that strconv.AppendQuote writes as JSON, and no user message whose
\* content is null: the fast path makes that an empty message, the general
\* one the text "null".
Comparable(req) ==
    /\ Quotable(req.model)
    /\ \A i \in DOMAIN req.stop : Quotable(req.stop[i])
    /\ \A i \in DOMAIN req.messages :
          LET m == req.messages[i]
          IN  /\ m.content.kind = "string" => Quotable(m.content.text)
              /\ m.content.kind = "null" => m.role # "user"

\* The fast path is only faster.  Whatever the conversation, the request sent
\* is the one the general path would have sent, for the conversation as it is
\* or as AppendQuote spells it; where the spelling changes nothing, it is the
\* same request.  The path asks no more than the general path knows how to
\* leave out, and forgets nothing the general path would have written.
RequestPathsAgree(req) ==
    /\ TranslateOpenAIToAnthropicBody(req)
          \in {generalRequest(req), generalRequest(AsRead(req))}
    /\ Comparable(req) => TranslateOpenAIToAnthropicBody(req) = generalRequest(req)

=============================================================================
