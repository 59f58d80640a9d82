----------------------------- MODULE MCDispatch -----------------------------
(***************************************************************************)
(* Requests for Dispatch: every registered path, near misses of them, and  *)
(* user ids written in two ways, unknown, and not numbers.  Before it is   *)
(* dispatched a request is decoded: input is one text, name or password a  *)
(* decoder is given, and the decoders' properties are about it.            *)
(***************************************************************************)
EXTENDS Dispatch, JsonGrammar, Base64url, Credentials, TLC

CONSTANT MaxAllocs    \* allocations a parse may make before one fails

VARIABLE input

MCParseInt64 == ("1" :> 1) @@ ("01" :> 1) @@ ("2" :> 2) @@ ("9" :> 9)

MCPaths ==
    { Routes[i].pattern : i \in DOMAIN Routes \ {10} }
    \cup { <<"v1", "users", s>> : s \in {"1", "01", "2", "9", "me", "", "count"} }
    \cup { <<"v1", "users">>, <<"v1", "users", "1", "">>, <<"v1", "admin", "users", "1">> }

\* No request fits two entries of the table, so their order is irrelevant.
ASSUME RoutesUnambiguous ==
    \A method \in Methods, path \in MCPaths : Cardinality(Matches(method, path)) <= 1
-----------------------------------------------------------------------------
(* JSON texts: all short ones, and every one-token edit of some longer ones. *)
MCHex4 ==
    ("0000" :> 0) @@ ("0001" :> 1) @@ ("000A" :> 10) @@ ("0061" :> 97) @@ ("D7FF" :> 55295)
    @@ ("D800" :> 55296) @@ ("DBFF" :> 56319) @@ ("DC00" :> 56320) @@ ("DFFF" :> 57343)
    @@ ("E000" :> 57344)

\* A token of several characters has a number of its own inside a string.
MCCodePoint ==
    ("space" :> 32) @@ ("quote" :> 34) @@ ("+" :> 43) @@ ("," :> 44) @@ ("-" :> 45)
    @@ ("." :> 46) @@ ("0" :> 48) @@ ("1" :> 49) @@ (":" :> 58) @@ ("[" :> 91)
    @@ ("backslash" :> 92) @@ ("]" :> 93) @@ ("a" :> 97) @@ ("e" :> 101) @@ ("n" :> 110)
    @@ ("u" :> 117) @@ ("{" :> 123) @@ ("}" :> 125) @@ ("U+D7FF" :> 55295)
    @@ ("U+E000" :> 57344) @@ ("U+10000" :> 65536) @@ ("U+103FF" :> 66559)
    @@ ("U+10FC00" :> 1113088) @@ ("U+10FFFF" :> 1114111) @@ ("true" :> 2000000)
    @@ ("0000" :> 2000001) @@ ("0001" :> 2000002) @@ ("000A" :> 2000003) @@ ("0061" :> 2000004)
    @@ ("D7FF" :> 2000005) @@ ("D800" :> 2000006) @@ ("DBFF" :> 2000007) @@ ("DC00" :> 2000008)
    @@ ("DFFF" :> 2000009) @@ ("E000" :> 2000010)

Characters ==
    {"{", "}", "[", "]", ",", ":", Quote, Backslash, Blank, Tab, Control,
     "-", "0", "1", ".", "e", "+", "a", "u", "n", "true"}
Tokens == Characters \cup DOMAIN MCHex4 \cup {"U+10FFFF"}

q == Quote
b == Backslash
LongTexts ==
    { <<"{", q, "a", q, ":", "1", ",", q, "a", q, ":", "[", "0", "]", "}">>,
      <<"{", q, "a", b, "u", "0000", q, ":", "0", ",", q, "a", q, ":", q, "n", q, "}">>,
      <<"{", q, "a", q, ":", "0", ",", q, "n", q, ":", "0", ",", q, "u", q, ":", "0", "}">>,
      <<"[", "true", ",", "[", "[", "]", "]", ",", "1", "]">>,
      <<"[", "[", "{", "}", "]", "]">>,
      <<q, b, "u", "D800", b, "u", "DC00", q>>,
      <<q, "a", b, "u", "DBFF", b, "u", "DFFF", b, "n", q>>,
      <<q, "a", b, q, b, b, b, "u", "0001", "a", q>>,
      <<"-", "0", ".", "1", "e", "+", "1">>,
      <<"-", "1", "0", "1", "0", "1", "0">> }

\* Four hex digits come after a u only.
Plausible(text) ==
    \A i \in DOMAIN text : text[i] \in DOMAIN MCHex4 => i > 1 /\ text[i - 1] = "u"

Edits(text) ==
    LET cut(i, k) == SubSeq(text, 1, i - 1) \o SubSeq(text, i + k, Len(text))
        put(i, k, t) == SubSeq(text, 1, i - 1) \o <<t>> \o SubSeq(text, i + k, Len(text))
    IN  {cut(i, 1) : i \in DOMAIN text}
        \cup {put(i, k, t) : i \in DOMAIN text, k \in {0, 1}, t \in Tokens}

ShortTexts == UNION {[1 .. n -> Characters] : n \in 0 .. 3}
JsonTexts == {text \in LongTexts \cup UNION {Edits(t) : t \in LongTexts} : Plausible(text)}

Utf8Edges == {0, 127, 128, 2047, 2048, 55295, 57344, 65535, 65536, 1114111}
-----------------------------------------------------------------------------
Strings(chars, n) == UNION {[1 .. k -> chars] : k \in 0 .. n}

\* A B P g _ -, and + and = which are not of this alphabet.
Base64Texts == Strings({65, 66, 80, 103, 95, 45, 43, 61}, 4) \cup {[i \in 1 .. 5 |-> 65]}
ByteStrings == Strings({0, 1, 15, 16, 251, 255}, 4)

\* A a 1 _ - and a blank; with NameMin = 2 and a reserved name.
RawNames == Strings({65, 97, 49, 95, 32}, 4)
MCReserved == {<<97, 49>>, <<97, 97>>}
RawEmails == Strings({65, 64, 46, 32}, 6)

\* Lines of a and b, LF and CR.
ListFiles == Strings({97, 98, 10, 13}, 6)
Passwords == Strings({65, 98, 13}, 2)
-----------------------------------------------------------------------------
None == [kind |-> "none"]

Decoded ==
    \/ \E t \in ShortTexts : input' = [kind |-> "json", text |-> t]
    \/ \E t \in JsonTexts : input' = [kind |-> "json", text |-> t]
    \/ \E cp \in Utf8Edges : input' = [kind |-> "character", cp |-> cp]
    \/ \E n \in 0 .. 2 * MaxAllocs : input' = [kind |-> "body", allocs |-> n]
    \/ \E t \in Base64Texts : input' = [kind |-> "base64", text |-> t]
    \/ \E s \in ByteStrings : input' = [kind |-> "bytes", text |-> s]
    \/ \E s \in RawNames : input' = [kind |-> "name", text |-> s]
    \/ \E s \in RawEmails : input' = [kind |-> "email", text |-> s]
    \/ \E s \in ListFiles : input' = [kind |-> "denylist", text |-> s]

MCInit == Init /\ input = None

\* The decoders keep no state: they are tried once, before anything else.
MCNext ==
    \/ input = None /\ Next /\ UNCHANGED input
    \/ input = None /\ Init /\ Decoded /\ UNCHANGED vars
    \/ input # None /\ input' = None /\ UNCHANGED vars

MCSpec == MCInit /\ [][MCNext]_<<vars, input>>
-----------------------------------------------------------------------------
\* ps_json_parse accepts exactly the texts that denote a value within the
\* depth and the length of a number, each as that value: a later duplicate
\* key wins, a surrogate pair is one code point, a key ends at its NUL; and
\* what ps_json_write writes of it reads back the same.  Numbers are integers
\* here: one beyond the range of a double is accepted and written as null.
JsonExact ==
    [][/\ input.kind = "json" => ExactOn(input.text)
       /\ input.kind = "character" => FromUtf8(Utf8(input.cp)) = input.cp]_<<vars, input>>

\* Whichever allocation fails, json_parse.c, ps_error_envelope, status_body
\* and ps_claims_write free all they took, once: what stays allocated is the
\* value that is returned.
JsonBalanced ==
    [][/\ input.kind = "json" => \A n \in 0 .. MaxAllocs : BalancedOn(input.text, n)
       /\ input.kind = "body" => BodiesBalanced(input.allocs)]_<<vars, input>>

\* Every token has one spelling: ps_base64url_decode reads back what
\* ps_base64url_encode writes and accepts no other text for those bytes.
Base64Canonical ==
    /\ input.kind = "base64" => CanonicalText(input.text)
    /\ input.kind = "bytes" => CanonicalBytes(input.text)

\* ps_username_validate and ps_email_validate accept what their comments say
\* and store a form that they accept unchanged; the denylist refuses exactly
\* the lines of its file, whatever their order.
CredentialRules ==
    /\ input.kind = "name" => NameRule(input.text)
    /\ input.kind = "email" => EmailRule(input.text)
    /\ input.kind = "denylist" => \A p \in Passwords : DenylistRule(input.text, p)
=============================================================================
