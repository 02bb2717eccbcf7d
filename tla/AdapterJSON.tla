----------------------------- MODULE AdapterJSON -----------------------------
(***************************************************************************)
(* What the three translations of the Anthropic adapter share: how a       *)
(* string is written, and the reason a completion ended.                   *)
(*                                                                         *)
(* A text is a sequence of characters; a character is known by its kind,   *)
(* and a word with a meaning ("tool_use") stands as one printable one.     *)
(***************************************************************************)
EXTENDS Naturals, Sequences

\* strconv.AppendQuote on each kind of character: Go's escapes, of which
\* \a, \v, \x.. and \U........ are not JSON's.
AppendQuote(char) ==
    CASE char = "newline"           -> "\\n"
      [] char = "bell"              -> "\\a"
      [] char = "delete"            -> "\\x7f"
      [] char = "unprintable"       -> "\\u200b"
      [] char = "unprintable_plane" -> "\\U000e0001"
      [] OTHER                      -> "itself"

NotJSON == {"\\a", "\\x7f", "\\U000e0001"}

\* Whether the text, written by AppendQuote, is a JSON string; it then reads
\* back as the text.  encoding/json writes every text so.
Quotable(text) == \A i \in DOMAIN text : AppendQuote(text[i]) \notin NotJSON

\* What a reader makes of the text written by AppendQuote.
Garbled == <<"no JSON string">>

Quoted(text) == IF Quotable(text) THEN text ELSE Garbled

\* The pieces one after the other: strings.Builder, and append to a slice.
Joined(pieces) ==
    LET upTo[n \in 0..Len(pieces)] ==
            IF n = 0 THEN <<>> ELSE upTo[n - 1] \o pieces[n]
    IN  upTo[Len(pieces)]

stopReasonToFinishReason(stop) ==
    CASE stop = "tool_use"   -> "tool_calls"
      [] stop = "max_tokens" -> "length"
      [] OTHER               -> "stop"

=============================================================================
