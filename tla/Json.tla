-------------------------------- MODULE Json --------------------------------
(***************************************************************************)
(* json/json_parse.c and json/json_write.c: the recursive-descent parser,  *)
(* the values it builds, the writer, and the handlers' way of building a   *)
(* body.  A text is a sequence of tokens: characters, and groups of them   *)
(* (a literal, four hex digits) where nothing depends on their parts.      *)
(*                                                                         *)
(* Every operator that may allocate takes and returns the heap h:          *)
(*     h.left   allocations that still succeed; the next one returns NULL  *)
(*     h.live   blocks allocated and not freed                             *)
(***************************************************************************)
EXTENDS Integers, Sequences, SequencesExt

CONSTANTS
    CodePoint,   \* token -> the code point it stands for inside a string
    Hex4,        \* four hex digits -> their value
    MaxDepth,    \* PS_JSON_MAX_DEPTH
    FirstCap,    \* first capacity of an array or object; it doubles
    BufCap,      \* first capacity of a ps_buf_t, in code points; it doubles
    NumberMax    \* size of numbuf

Quote == "quote"
Backslash == "backslash"
Blank == "space"
Tab == "tab"            \* tab, CR and LF: blank too, but not in a string
Control == "control"    \* any other byte below 0x20
End == "end of input"

Digits == {"0", "1"}
Literals == {"true", "false", "null"}
EscapeOf == [quote |-> 34, backslash |-> 92, n |-> 10]
-----------------------------------------------------------------------------
\* calloc, malloc, and realloc of a block that exists already.
CanAlloc(h) == h.left > 0
Alloc(h) == [left |-> h.left - 1, live |-> h.live + 1]
Realloc(h) == [h EXCEPT !.left = @ - 1]
FreeBlocks(h, n) == [h EXCEPT !.live = @ - n]

\* count has reached the capacity it grew to.
Full(count, cap) == count = 0 \/ \E k \in 0 .. count : count = cap * 2^k

Grow(h, count) == IF count = 0 THEN Alloc(h) ELSE Realloc(h)

\* side: the arrays of an object that exist besides it.
Value(type, v) == [t |-> type, v |-> v, side |-> 0]
Object(members, side) == [t |-> "object", v |-> members, side |-> side]

RECURSIVE Blocks(_)

\* What ps_json_free frees.
Blocks(value) ==
    LET v == value.v
    IN  CASE value.t = "string" -> 2
          [] value.t = "array"  ->
               MapThenSumSet(LAMBDA i : Blocks(v[i]), DOMAIN v) + (IF v = <<>> THEN 1 ELSE 2)
          [] value.t = "object" ->
               MapThenSumSet(LAMBDA i : 1 + Blocks(v[i][2]), DOMAIN v) + 1 + value.side
          [] OTHER              -> 1

Free(h, value) == FreeBlocks(h, Blocks(value))

\* What an operator returns: success, the value, where it stopped, the heap.
Failure(h) == [ok |-> FALSE, val |-> Value("null", <<>>), pos |-> 0, h |-> h]
Success(val, pos, h) == [ok |-> TRUE, val |-> val, pos |-> pos, h |-> h]

\* ps_json_new_null, _bool, _number, _array, _object
NewValue(val, pos, h) ==
    IF CanAlloc(h) THEN Success(val, pos, Alloc(h)) ELSE Failure(h)

\* ps_json_new_string_n: the value, then its bytes.
NewString(s, pos, h) ==
    IF ~CanAlloc(h) THEN Failure(h)
    ELSE IF ~CanAlloc(Alloc(h)) THEN Failure(FreeBlocks(Alloc(h), 1))
    ELSE Success(Value("string", s), pos, Alloc(Alloc(h)))

\* ps_json_array_append
ArrayAppend(array, item, h) ==
    LET n == Len(array.v)
        grown == [array EXCEPT !.v = Append(@, item)]
    IN  IF ~Full(n, FirstCap) THEN Success(grown, 0, h)
        ELSE IF ~CanAlloc(h) THEN [Failure(h) EXCEPT !.val = array]
        ELSE Success(grown, 0, Grow(h, n))

Leaky_Replace(object, i, value, h) == Success([object EXCEPT !.v[i][2] = value], 0, h)

Replace(object, i, value, h) ==
    Success([object EXCEPT !.v[i][2] = value], 0, Free(h, object.v[i][2]))

\* ps_json_object_set: a key that is there keeps its place and loses its
\* value.  On failure the value stays with the caller; the array of keys may
\* have grown already.
ObjectSet(object, key, value, h) ==
    LET n == Len(object.v)
        same == {i \in 1 .. n : object.v[i][1] = key}
        full == Full(n, FirstCap)
        h1 == IF full THEN Grow(h, n) ELSE h
        h2 == IF full THEN Grow(h1, n) ELSE h
        keyed == Object(object.v, IF n = 0 THEN 1 ELSE object.side)
        sized == Object(object.v, IF n = 0 THEN 2 ELSE object.side)
        left(obj, hh) == [Failure(hh) EXCEPT !.val = obj]
    IN  IF same # {} THEN Replace(object, Min(same), value, h)
        ELSE IF full /\ ~CanAlloc(h) THEN left(object, h)
        ELSE IF full /\ ~CanAlloc(h1) THEN left(keyed, h1)
        ELSE IF ~CanAlloc(h2) THEN left(sized, h2)
        ELSE Success([sized EXCEPT !.v = Append(@, <<key, value>>)], 0, Alloc(h2))

\* A C string ends at its first NUL.
CString(s) ==
    LET nul == {i \in DOMAIN s : s[i] = 0}
    IN  IF nul = {} THEN s ELSE SubSeq(s, 1, Min(nul) - 1)
-----------------------------------------------------------------------------
Peek(text, pos) == IF pos <= Len(text) THEN text[pos] ELSE End

SkipWs(text, pos) == Min({p \in pos .. Len(text) + 1 : Peek(text, p) \notin {Blank, Tab}})

SkipDigits(text, pos) == Min({p \in pos .. Len(text) + 1 : Peek(text, p) \notin Digits})

Bad == 0    \* no position

\* Digits, at least one.
SomeDigits(text, pos) ==
    IF Peek(text, pos) \in Digits THEN SkipDigits(text, pos) ELSE Bad

\* The parts of parse_number: where each one ends.
IntegerEnd(text, pos) ==
    LET p == IF Peek(text, pos) = "-" THEN pos + 1 ELSE pos
    IN  IF Peek(text, p) = "0" THEN p + 1 ELSE SomeDigits(text, p)

FractionEnd(text, pos) ==
    IF pos # Bad /\ Peek(text, pos) = "." THEN SomeDigits(text, pos + 1) ELSE pos

ExponentEnd(text, pos) ==
    IF pos # Bad /\ Peek(text, pos) = "e"
    THEN SomeDigits(text, IF Peek(text, pos + 1) \in {"+", "-"} THEN pos + 2 ELSE pos + 1)
    ELSE pos

\* parse_number: the value is left as the digits strtod is given.
ParseNumber(text, pos, h) ==
    LET end == ExponentEnd(text, FractionEnd(text, IntegerEnd(text, pos)))
    IN  IF end = Bad \/ end - pos >= NumberMax THEN Failure(h)
        ELSE NewValue(Value("number", SubSeq(text, pos, end - 1)), end, h)

High(u) == u \in 55296 .. 56319
Low(u) == u \in 56320 .. 57343

\* The escape at pos, after the backslash: the code point and where it ends.
Escape(text, pos) ==
    LET e == Peek(text, pos)
        u == Hex4[Peek(text, pos + 1)]
        low == Hex4[Peek(text, pos + 4)]
        bad == [cp |-> 0, end |-> Bad]
    IN  IF e \in DOMAIN EscapeOf THEN [cp |-> EscapeOf[e], end |-> pos + 1]
        ELSE IF e # "u" \/ Peek(text, pos + 1) \notin DOMAIN Hex4 THEN bad
        ELSE IF High(u)
        THEN IF /\ Peek(text, pos + 2) = Backslash /\ Peek(text, pos + 3) = "u"
                /\ Peek(text, pos + 4) \in DOMAIN Hex4 /\ Low(low)
             THEN [cp |-> 65536 + (u - 55296) * 1024 + (low - 56320), end |-> pos + 5]
             ELSE bad
        ELSE IF Low(u) THEN bad
        ELSE [cp |-> u, end |-> pos + 2]

RECURSIVE ParseString(_, _, _, _)

\* parse_string after the opening quote, with out collected so far.
ParseString(text, pos, out, h) ==
    LET c == Peek(text, pos)
        esc == Escape(text, pos + 1)
        unit == IF c = Backslash THEN esc ELSE [cp |-> CodePoint[c], end |-> pos + 1]
        full == Full(Len(out), BufCap)
        without(hh) == IF out = <<>> THEN hh ELSE FreeBlocks(hh, 1)
        string == NewString(out, pos + 1, h)
    IN  IF c = Quote THEN [string EXCEPT !.h = without(@)]
        ELSE IF \/ c \in {End, Tab, Control}
                \/ c = Backslash /\ esc.end = Bad
                \/ full /\ ~CanAlloc(h)
        THEN Failure(without(h))
        ELSE ParseString(text, unit.end, Append(out, unit.cp),
                         IF full THEN Grow(h, Len(out)) ELSE h)
-----------------------------------------------------------------------------
RECURSIVE ParseValue(_, _, _, _), ParseItems(_, _, _, _, _), ParseMembers(_, _, _, _, _)

\* The loop of parse_array, with arr collected so far.
ParseItems(text, pos, depth, arr, h) ==
    LET item == ParseValue(text, SkipWs(text, pos), depth + 1, h)
        added == ArrayAppend(arr, item.val, item.h)
        p == SkipWs(text, item.pos)
        c == Peek(text, p)
    IN  IF ~item.ok THEN Failure(Free(item.h, arr))
        ELSE IF ~added.ok THEN Failure(Free(Free(added.h, item.val), arr))
        ELSE IF c = "," THEN ParseItems(text, p + 1, depth, added.val, added.h)
        ELSE IF c = "]" THEN Success(added.val, p + 1, added.h)
        ELSE Failure(Free(added.h, added.val))

ParseArray(text, pos, depth, h) ==
    LET arr == NewValue(Value("array", <<>>), pos, h)
        p == SkipWs(text, pos)
    IN  IF ~arr.ok THEN arr
        ELSE IF Peek(text, p) = "]" THEN [arr EXCEPT !.pos = p + 1]
        ELSE ParseItems(text, p, depth, arr.val, arr.h)

\* The loop of parse_object, with obj collected so far.
ParseMembers(text, pos, depth, obj, h) ==
    LET k == SkipWs(text, pos)
        key == ParseString(text, k + 1, <<>>, h)
        colon == SkipWs(text, key.pos)
        val == ParseValue(text, SkipWs(text, colon + 1), depth + 1, key.h)
        set == ObjectSet(obj, CString(key.val.v), val.val, val.h)
        h1 == Free(set.h, key.val)
        p == SkipWs(text, val.pos)
        c == Peek(text, p)
    IN  IF Peek(text, k) # Quote THEN Failure(Free(h, obj))
        ELSE IF ~key.ok THEN Failure(Free(key.h, obj))
        ELSE IF Peek(text, colon) # ":" THEN Failure(Free(Free(key.h, key.val), obj))
        ELSE IF ~val.ok THEN Failure(Free(Free(val.h, key.val), obj))
        ELSE IF ~set.ok THEN Failure(Free(Free(h1, val.val), set.val))
        ELSE IF c = "," THEN ParseMembers(text, p + 1, depth, set.val, h1)
        ELSE IF c = "}" THEN Success(set.val, p + 1, h1)
        ELSE Failure(Free(h1, set.val))

ParseObject(text, pos, depth, h) ==
    LET obj == NewValue(Object(<<>>, 0), pos, h)
        p == SkipWs(text, pos)
    IN  IF ~obj.ok THEN obj
        ELSE IF Peek(text, p) = "}" THEN [obj EXCEPT !.pos = p + 1]
        ELSE ParseMembers(text, p, depth, obj.val, obj.h)

ParseValue(text, pos, depth, h) ==
    LET p == SkipWs(text, pos)
        c == Peek(text, p)
    IN  IF depth > MaxDepth THEN Failure(h)
        ELSE CASE c = Quote              -> ParseString(text, p + 1, <<>>, h)
               [] c = "{"                -> ParseObject(text, p + 1, depth, h)
               [] c = "["                -> ParseArray(text, p + 1, depth, h)
               [] c \in Literals         -> NewValue(Value("literal", <<c>>), p + 1, h)
               [] c \in Digits \cup {"-"} -> ParseNumber(text, p, h)
               [] OTHER                  -> Failure(h)

\* ps_json_parse: one value and nothing after it.
Parse(text, h) ==
    LET r == ParseValue(text, 1, 1, h)
    IN  IF r.ok /\ SkipWs(text, r.pos) # Len(text) + 1 THEN Failure(Free(r.h, r.val)) ELSE r
-----------------------------------------------------------------------------
\* json_write.c.  An empty text is a refusal.
TokenOf(cp) == CHOOSE t \in DOMAIN CodePoint : CodePoint[t] = cp

WriteChar(cp) ==
    IF \E e \in DOMAIN EscapeOf : EscapeOf[e] = cp
    THEN <<Backslash, CHOOSE e \in DOMAIN EscapeOf : EscapeOf[e] = cp>>
    ELSE IF cp < 32 THEN <<Backslash, "u", CHOOSE x \in DOMAIN Hex4 : Hex4[x] = cp>>
    ELSE <<TokenOf(cp)>>

WriteString(s) ==
    <<Quote>> \o FlattenSeq([i \in DOMAIN s |-> WriteChar(s[i])]) \o <<Quote>>

\* parts with commas between them, or a refusal if one of them is.
Joined(open, parts, close) ==
    IF \E i \in DOMAIN parts : parts[i] = <<>> THEN <<>>
    ELSE <<open>>
         \o FlattenSeq([i \in DOMAIN parts |-> (IF i = 1 THEN <<>> ELSE <<",">>) \o parts[i]])
         \o <<close>>

RECURSIVE Write(_, _)

OffByOne_Write(value, depth) ==
    LET v == value.v
    IN  IF depth >= MaxDepth THEN <<>>
        ELSE CASE value.t = "string" -> WriteString(v)
               [] value.t = "array"  ->
                    Joined("[", [i \in DOMAIN v |-> Write(v[i], depth + 1)], "]")
               [] value.t = "object" ->
                    Joined("{", [i \in DOMAIN v |-> WriteString(v[i][1]) \o <<":">>
                                                   \o Write(v[i][2], depth + 1)], "}")
               [] OTHER              -> v

\* write_value.  A number that is an integer is written as it was read.
Write(value, depth) ==
    LET v == value.v
        member(i) == LET text == Write(v[i][2], depth + 1)
                     IN  IF text = <<>> THEN <<>> ELSE WriteString(v[i][1]) \o <<":">> \o text
    IN  IF depth > MaxDepth THEN <<>>
        ELSE CASE value.t = "string" -> WriteString(v)
               [] value.t = "array"  ->
                    Joined("[", [i \in DOMAIN v |-> Write(v[i], depth + 1)], "]")
               [] value.t = "object" -> Joined("{", [i \in DOMAIN v |-> member(i)], "}")
               [] OTHER              -> v

\* append_utf8
Utf8(cp) ==
    LET low(n) == 128 + ((cp \div 64^n) % 64)
    IN  IF cp <= 127 THEN <<cp>>
        ELSE IF cp <= 2047 THEN <<192 + (cp \div 64), low(0)>>
        ELSE IF cp <= 65535 THEN <<224 + (cp \div 64^2), low(1), low(0)>>
        ELSE <<240 + (cp \div 64^3), low(2), low(1), low(0)>>
-----------------------------------------------------------------------------
(***************************************************************************)
(* Building a body: obj_set_str and obj_set_num, ps_error_envelope,        *)
(* status_body of health_api.c, and ps_claims_write.                       *)
(***************************************************************************)
NewField(type, h) ==
    IF type = "string" THEN NewString(<<>>, 0, h) ELSE NewValue(Value(type, <<>>), 0, h)

\* On failure the value is freed and the object left to the caller.
SetNew(obj, key, new) ==
    LET set == ObjectSet(obj, key, new.val, new.h)
    IN  IF ~new.ok THEN [new EXCEPT !.val = obj]
        ELSE IF ~set.ok THEN [set EXCEPT !.h = Free(@, new.val)]
        ELSE set

RECURSIVE SetFields(_, _, _)

SetFields(obj, fields, h) ==
    LET set == SetNew(obj, <<fields[1][1]>>, NewField(fields[1][2], h))
    IN  IF fields = <<>> THEN Success(obj, 0, h)
        ELSE IF ~set.ok THEN set
        ELSE SetFields(set.val, Tail(fields), set.h)

\* status_body, and the object inside an error envelope.
FlatBody(fields, h) ==
    LET obj == NewValue(Object(<<>>, 0), 0, h)
        set == SetFields(obj.val, fields, obj.h)
    IN  IF ~obj.ok THEN obj
        ELSE IF ~set.ok THEN Failure(Free(set.h, set.val))
        ELSE set

\* ps_error_envelope
ErrorEnvelope(h) ==
    LET inner == FlatBody(<<<<"code", "string">>, <<"message", "string">>>>, h)
        outer == NewValue(Object(<<>>, 0), 0, inner.h)
        set == ObjectSet(outer.val, <<"error">>, inner.val, outer.h)
    IN  IF ~inner.ok THEN inner
        ELSE IF ~outer.ok THEN Failure(Free(outer.h, inner.val))
        ELSE IF ~set.ok THEN Failure(Free(Free(set.h, inner.val), set.val))
        ELSE set

ClaimFields ==
    <<<<"iss", "string">>, <<"sub", "string">>, <<"aud", "string">>,
      <<"exp", "number">>, <<"iat", "number">>, <<"nbf", "number">>,
      <<"jti", "string">>, <<"family_id", "string">>>>

RECURSIVE RoleArray(_, _, _)

\* The roles of ps_claims_write; on failure the array is left to the caller.
RoleArray(arr, n, h) ==
    LET name == NewString(<<>>, 0, h)
        added == ArrayAppend(arr, name.val, name.h)
    IN  IF n = 0 THEN Success(arr, 0, h)
        ELSE IF ~name.ok THEN [name EXCEPT !.val = arr]
        ELSE IF ~added.ok THEN [added EXCEPT !.h = Free(@, name.val)]
        ELSE RoleArray(added.val, n - 1, added.h)

\* ps_claims_write for n roles: whatever happens, nothing is kept.
ClaimsWrite(n, h) ==
    LET obj == NewValue(Object(<<>>, 0), 0, h)
        set == SetFields(obj.val, ClaimFields, obj.h)
        arr == NewValue(Value("array", <<>>), 0, set.h)
        roles == RoleArray(arr.val, n, arr.h)
        full == ObjectSet(set.val, <<"roles">>, roles.val, roles.h)
    IN  IF ~obj.ok THEN obj.h
        ELSE IF ~set.ok THEN Free(set.h, set.val)
        ELSE IF ~arr.ok THEN Free(arr.h, set.val)
        ELSE IF ~roles.ok THEN Free(Free(roles.h, roles.val), set.val)
        ELSE IF ~full.ok THEN Free(Free(full.h, roles.val), full.val)
        ELSE Free(full.h, full.val)
=============================================================================
