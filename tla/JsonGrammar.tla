---------------------------- MODULE JsonGrammar -----------------------------
(***************************************************************************)
(* What a JSON text denotes, by its grammar and not by reading it from     *)
(* left to right: the set of values of the tokens i .. j - 1 of a text.    *)
(* Json's parser has to accept what denotes a value, and return that one.  *)
(***************************************************************************)
EXTENDS Json

\* The UTF-16 halves of a code point above 65535.
HighOf(cp) == 55296 + ((cp - 65536) \div 1024)
LowOf(cp) == 56320 + ((cp - 65536) % 1024)

CodePoints == {CodePoint[t] : t \in DOMAIN CodePoint}

\* The code points one unit of a string denotes: a character, an escape, a
\* code unit, a pair of them.
UnitDenotes(u) ==
    LET hex(i) == u[i] = "u" /\ u[i - 1] = Backslash /\ u[i + 1] \in DOMAIN Hex4
    IN  CASE Len(u) = 1 -> IF u[1] \in {Quote, Backslash, Tab, Control} THEN {} ELSE {CodePoint[u[1]]}
          [] Len(u) = 2 -> {EscapeOf[e] : e \in {x \in DOMAIN EscapeOf : u = <<Backslash, x>>}}
          [] Len(u) = 3 -> IF hex(2) /\ Hex4[u[3]] \notin 55296 .. 57343 THEN {Hex4[u[3]]} ELSE {}
          [] Len(u) = 6 -> IF hex(2) /\ hex(5)
                           THEN {cp \in CodePoints : cp > 65535 /\ cp < 1114112
                                                     /\ HighOf(cp) = Hex4[u[3]]
                                                     /\ LowOf(cp) = Hex4[u[6]]}
                           ELSE {}
          [] OTHER      -> {}

RECURSIVE StringDenotes(_, _, _)

StringDenotes(text, i, j) ==
    IF i = j THEN {<<>>}
    ELSE UNION {{<<cp>> \o rest : cp \in UnitDenotes(SubSeq(text, i, i + k - 1)),
                                  rest \in StringDenotes(text, i + k, j)} :
                   k \in {n \in {1, 2, 3, 6} : i + n <= j}}

\* -? (0 | [1-9][0-9]*) (. [0-9]+)? (e [+-]? [0-9]+)?
IsNumber(s) ==
    LET digits(i, j) == i <= j /\ \A k \in i .. j : s[k] \in Digits
        n == Len(s)
        first == IF s[1] = "-" THEN 2 ELSE 1
    IN  \E a \in first .. n : \E b \in a .. n :
          /\ digits(first, a) /\ (s[first] = "0" => a = first)
          /\ b = a \/ (b >= a + 2 /\ s[a + 1] = "." /\ digits(a + 2, b))
          /\ \/ b = n
             \/ s[b + 1] = "e" /\ digits(b + 2, n)
             \/ b + 2 <= n /\ s[b + 1] = "e" /\ s[b + 2] \in {"+", "-"} /\ digits(b + 3, n)

\* Members in the order of their keys' first occurrence, each with its last
\* value; keys are C strings.
LastWins(members) ==
    LET key(i) == CString(members[i][1])
        firsts == {i \in DOMAIN members : \A k \in 1 .. i - 1 : key(k) # key(i)}
        last(i) == Max({k \in DOMAIN members : key(k) = key(i)})
        order == SetToSortSeq(firsts, <)
    IN  [n \in DOMAIN order |-> <<key(order[n]), members[last(order[n])][2]>>]

RECURSIVE Denotes(_, _, _, _), ItemsDenote(_, _, _, _), MembersDenote(_, _, _, _)

ItemsDenote(text, i, j, d) ==
    {<<v>> : v \in Denotes(text, i, j, d)} \cup
    UNION {{<<v>> \o rest : v \in Denotes(text, i, k, d), rest \in ItemsDenote(text, k + 1, j, d)} :
              k \in {n \in i .. j - 1 : text[n] = ","}}

OneMember(text, i, j, d) ==
    UNION {{<<key.v, v>> : key \in {s \in Denotes(text, i, k, 1) : s.t = "string"},
                           v \in Denotes(text, k + 1, j, d)} :
              k \in {n \in i .. j - 1 : text[n] = ":"}}

MembersDenote(text, i, j, d) ==
    {<<m>> : m \in OneMember(text, i, j, d)} \cup
    UNION {{<<m>> \o rest : m \in OneMember(text, i, k, d),
                            rest \in MembersDenote(text, k + 1, j, d)} :
              k \in {n \in i .. j - 1 : text[n] = ","}}

Denotes(text, i, j, d) ==
    LET n == j - i
        empty == \A k \in i + 1 .. j - 2 : text[k] \in {Blank, Tab}
    IN  IF n = 0 \/ d > MaxDepth THEN {}
        ELSE IF text[i] \in {Blank, Tab} THEN Denotes(text, i + 1, j, d)
        ELSE IF text[j - 1] \in {Blank, Tab} THEN Denotes(text, i, j - 1, d)
        ELSE IF n = 1 /\ text[i] \in Literals THEN {Value("literal", <<text[i]>>)}
        ELSE IF text[i] = Quote /\ n > 1 /\ text[j - 1] = Quote
        THEN {Value("string", s) : s \in StringDenotes(text, i + 1, j - 1)}
        ELSE IF text[i] = "[" /\ text[j - 1] = "]"
        THEN IF empty THEN {Value("array", <<>>)}
             ELSE {Value("array", items) : items \in ItemsDenote(text, i + 1, j - 1, d + 1)}
        ELSE IF text[i] = "{" /\ text[j - 1] = "}"
        THEN IF empty THEN {Object(<<>>, 0)}
             ELSE {Object(LastWins(ms), 2) : ms \in MembersDenote(text, i + 1, j - 1, d + 1)}
        ELSE IF n < NumberMax /\ IsNumber(SubSeq(text, i, j - 1))
        THEN {Value("number", SubSeq(text, i, j - 1))}
        ELSE {}

\* The bytes of a UTF-8 sequence, back to the code point.
FromUtf8(bytes) ==
    LET lead == <<0, 192, 224, 240>>[Len(bytes)]
    IN  FoldLeft(LAMBDA acc, b : acc * 64 + (b - 128), bytes[1] - lead, Tail(bytes))

RECURSIVE IntegersOnly(_)

IntegersOnly(value) ==
    LET v == value.v
    IN  CASE value.t = "number" -> \A i \in DOMAIN v : v[i] \notin {".", "e"}
          [] value.t = "array"  -> \A i \in DOMAIN v : IntegersOnly(v[i])
          [] value.t = "object" -> \A i \in DOMAIN v : IntegersOnly(v[i][2])
          [] OTHER              -> TRUE
-----------------------------------------------------------------------------
Ample == [left |-> 1000, live |-> 0]

\* The parser accepts a text exactly when it denotes a value, and returns that
\* value; and what it returns can be written, and is read back the same.
ExactOn(text) ==
    LET r == Parse(text, Ample)
        again == Parse(Write(r.val, 1), Ample)
    IN  /\ Denotes(text, 1, Len(text) + 1, 1) = IF r.ok THEN {r.val} ELSE {}
        /\ r.ok /\ IntegersOnly(r.val) => again.ok /\ again.val = r.val

\* With the allocation after the n-th failing, a parse leaves no block behind,
\* or only those of the value it returns.
BalancedOn(text, n) ==
    LET r == Parse(text, [left |-> n, live |-> 0])
    IN  r.h.live = IF r.ok THEN Blocks(r.val) ELSE 0

\* The same of the bodies the handlers build.
BodiesBalanced(n) ==
    LET h == [left |-> n, live |-> 0]
        kept(r) == r.h.live = IF r.ok THEN Blocks(r.val) ELSE 0
    IN  /\ kept(ErrorEnvelope(h))
        /\ kept(FlatBody(<<<<"status", "string">>>>, h))
        /\ \A roles \in 0 .. 2 : ClaimsWrite(roles, h).live = 0
=============================================================================
