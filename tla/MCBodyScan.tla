---------------------------- MODULE MCBodyScan ----------------------------
(* The instance of BodyScan for strings; MCConversions has the other one.  *)
EXTENDS BodyScan

AllSymbols == {"{", "}", "[", "]", ":", ","} \cup PlainStrings
                  \cup EscapedStrings \cup Literals

\* Strings of every kind, as a value.
StringMembers == {<<"text", ":", t>> : t \in PlainStrings \cup EscapedStrings}

=============================================================================
