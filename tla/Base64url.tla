------------------------------ MODULE Base64url -----------------------------
(***************************************************************************)
(* crypto/base64url.c: how refresh tokens, verification tokens and the     *)
(* parts of an access token are written.  Bytes and characters are         *)
(* numbers; a text is a sequence of ASCII codes.                           *)
(***************************************************************************)
EXTENDS Integers, Sequences, SequencesExt

\* ENCODE_TABLE
EncodeTable(n) ==
    IF n < 26 THEN 65 + n
    ELSE IF n < 52 THEN 97 + (n - 26)
    ELSE IF n < 62 THEN 48 + (n - 52)
    ELSE IF n = 62 THEN 45 ELSE 95

NotInAlphabet == -1

\* decode_char
DecodeChar(c) ==
    IF c \in 65 .. 90 THEN c - 65
    ELSE IF c \in 97 .. 122 THEN c - 97 + 26
    ELSE IF c \in 48 .. 57 THEN c - 48 + 52
    ELSE IF c = 45 THEN 62
    ELSE IF c = 95 THEN 63
    ELSE NotInAlphabet

\* The item at i of a group, a missing one as zero bits.
At(s, i) == IF i <= Len(s) THEN s[i] ELSE 0

Group(s, i, n) == SubSeq(s, i, IF i + n - 1 <= Len(s) THEN i + n - 1 ELSE Len(s))

\* s cut in groups of n, the last one possibly shorter.
Groups(s, n) == [k \in 1 .. (Len(s) + n - 1) \div n |-> Group(s, n * (k - 1) + 1, n)]

\* One, two or three bytes to two, three or four characters.
EncodeGroup(bytes) ==
    LET n == At(bytes, 1) * 65536 + At(bytes, 2) * 256 + At(bytes, 3)
    IN  [i \in 1 .. Len(bytes) + 1 |-> EncodeTable((n \div 64^(4 - i)) % 64)]

Encode(bytes) == FlattenSeq([k \in DOMAIN Groups(bytes, 3) |-> EncodeGroup(Groups(bytes, 3)[k])])

Loose_GroupOK(text) == Len(text) # 1 /\ \A i \in DOMAIN text : DecodeChar(text[i]) # NotInAlphabet

\* All in the alphabet, not a single character, and no bits set that the
\* group's bytes do not have.
GroupOK(text) ==
    /\ Len(text) # 1
    /\ \A i \in DOMAIN text : DecodeChar(text[i]) # NotInAlphabet
    /\ Len(text) = 2 => DecodeChar(text[2]) % 16 = 0
    /\ Len(text) = 3 => DecodeChar(text[3]) % 4 = 0

DecodeGroup(text) ==
    LET c == [i \in DOMAIN text |-> DecodeChar(text[i])]
        n == At(c, 1) * 262144 + At(c, 2) * 4096 + At(c, 3) * 64 + At(c, 4)
    IN  [i \in 1 .. Len(text) - 1 |-> (n \div 256^(3 - i)) % 256]

\* ps_base64url_decode: refused, or the bytes.
Refused64 == [ok |-> FALSE, bytes |-> <<>>]

Decode(text) ==
    LET groups == Groups(text, 4)
    IN  IF \E k \in DOMAIN groups : ~GroupOK(groups[k]) THEN Refused64
        ELSE [ok |-> TRUE,
              bytes |-> FlattenSeq([k \in DOMAIN groups |-> DecodeGroup(groups[k])])]

\* What bytes a text may denote: a text is read only as the one encoding of
\* what it is read as, and everything written is read back.
CanonicalText(text) == Decode(text).ok => Encode(Decode(text).bytes) = text
CanonicalBytes(bytes) == Decode(Encode(bytes)) = [ok |-> TRUE, bytes |-> bytes]
=============================================================================
