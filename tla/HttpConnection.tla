--------------------------- MODULE HttpConnection ---------------------------
(***************************************************************************)
(* One connection: the keep-alive loop of http/conn.c around the request   *)
(* parser of http/request.c.  Bytes arrive in pieces of any size; after    *)
(* every piece the parser runs again from the start of the buffer, and     *)
(* what is left of the buffer after a request begins the next one.         *)
(*                                                                         *)
(* A request is its shape: how long its parts are and what is wrong with   *)
(* them.  Which character is wrong does not matter to the loop.            *)
(***************************************************************************)
EXTENDS Naturals, Sequences, SequencesExt

CONSTANTS
    Shapes,       \* requests a client may send
    MaxPipeline,  \* bound on the requests of a connection
    Caps,         \* values of keepalive_max_requests to try
    MaxLine,      \* max_request_line_bytes
    MaxHeader,    \* max_header_bytes
    MaxBody,      \* max_body_bytes
    Chunk,        \* bytes one SSL_read returns at most
    CorsEnabled   \* whether an origin allowlist is configured

\* line: bytes of the request line; header: bytes of the header lines, each
\* with its CRLF; length: the Content-Length; flaw: what the parser finds
\* wrong in the line or in the headers.
Shape == [line : Nat, header : Nat, length : Nat,
          line_ok : BOOLEAN,
          flaw : {"NONE", "MALFORMED", "TOO_MANY_HEADERS",
                  "CONTENT_LENGTH_INVALID", "CHUNKED_UNSUPPORTED"},
          minor : {0, 1}, connection : {"", "close", "keep-alive"},
          target : {"OPTIONS", "no_route", "no_method", "route"}]

ASSUME ConnectionAssumption ==
    /\ Shapes \subseteq Shape
    /\ Caps \subseteq Nat
    /\ {MaxPipeline, MaxLine, MaxHeader, MaxBody} \subseteq Nat
    /\ Chunk \in Nat \ {0}
    /\ CorsEnabled \in BOOLEAN

VARIABLES
    wire,        \* the requests the client sends, in order
    cap,         \* keepalive_max_requests
    base,        \* bytes of the wire consumed by finished requests
    arrived,     \* bytes of the wire read so far; the rest is in flight
    completed,   \* requests answered
    dispatched,  \* requests handed to a handler
    answers,     \* statuses sent, in order
    state        \* "accepted", "open", or why the connection was closed

vars == <<wire, cap, base, arrived, completed, dispatched, answers, state>>
-----------------------------------------------------------------------------
\* Bytes of a request, with the CRLF of the line and the empty line.
Size(r) == r.line + 2 + r.header + 2 + r.length

\* Bytes of the first n requests of the wire.
Offset(n) == FoldLeft(LAMBDA bytes, r : bytes + Size(r), 0, SubSeq(wire, 1, n))

WireBytes == Offset(Len(wire))

\* The request that begins where the buffer begins, if one does.
Aligned == {i \in DOMAIN wire : Offset(i - 1) = base}

Current == wire[CHOOSE i \in Aligned : TRUE]

Buffered == arrived - base

(***************************************************************************)
(* ps_http_request_parse on the first len bytes of r and whatever follows: *)
(* "OK", "INCOMPLETE" or an error.  The checks are in the code's order.    *)
(***************************************************************************)
ParseHead(r, len) ==
    IF r.line + 2 > len /\ len < MaxLine THEN "INCOMPLETE"
    ELSE IF r.line + 2 > MaxLine THEN "LINE_TOO_LONG"
    ELSE IF ~r.line_ok THEN "MALFORMED"
    ELSE IF r.header > MaxHeader /\ len >= r.line + 2 + MaxHeader + 2
         THEN "HEADERS_TOO_LARGE"
    ELSE IF r.line + 2 + r.header + 2 > len THEN "INCOMPLETE"
    ELSE r.flaw

LateBodyLimit_Parse(r, len) ==
    LET head == ParseHead(r, len)
    IN  IF head # "NONE" THEN head
        ELSE IF Size(r) > len THEN "INCOMPLETE"
        ELSE IF r.length > MaxBody THEN "BODY_TOO_LARGE"
        ELSE "OK"

Parse(r, len) ==
    LET head == ParseHead(r, len)
    IN  IF head # "NONE" THEN head
        ELSE IF r.length > MaxBody THEN "BODY_TOO_LARGE"
        ELSE IF Size(r) > len THEN "INCOMPLETE"
        ELSE "OK"

\* A buffer that begins inside a request does not parse as one.
Verdict ==
    IF Buffered = 0 THEN "INCOMPLETE"
    ELSE IF Aligned = {} THEN "MALFORMED"
    ELSE Parse(Current, Buffered)

\* error_status_and_code
ErrorStatus(kind) ==
    CASE kind = "BODY_TOO_LARGE"      -> 413
      [] kind = "CHUNKED_UNSUPPORTED" -> 501
      [] OTHER                        -> 400
-----------------------------------------------------------------------------
Init ==
    /\ wire \in SeqOf(Shapes, MaxPipeline)
    /\ cap \in Caps
    /\ base = 0
    /\ arrived = 0
    /\ completed = 0
    /\ dispatched = 0
    /\ answers = <<>>
    /\ state = "accepted"

Close(reason) == state' = reason

\* Timeouts are set and the TLS handshake runs; either may fail.
Handshake ==
    /\ state = "accepted"
    /\ state' \in {"open", "ERROR"}
    /\ UNCHANGED <<wire, cap, base, arrived, completed, dispatched, answers>>

\* The check at the head of the loop.
CapReached ==
    /\ state = "open"
    /\ completed >= cap
    /\ Close("MAX_REQUESTS")
    /\ UNCHANGED <<wire, cap, base, arrived, completed, dispatched, answers>>

\* read_more: at least one byte, at most a chunk.
ReadMore ==
    /\ state = "open" /\ completed < cap
    /\ Verdict = "INCOMPLETE"
    /\ \E n \in 1 .. Chunk :
          /\ arrived + n <= WireBytes
          /\ arrived' = arrived + n
    /\ UNCHANGED <<wire, cap, base, completed, dispatched, answers, state>>

BlockWhenIdle_ReadFails ==
    /\ state = "open" /\ completed < cap
    /\ Verdict = "INCOMPLETE"
    /\ Buffered > 0
    /\ \E reason \in {"TIMEOUT", "BY_PEER", "ERROR"} : Close(reason)
    /\ UNCHANGED <<wire, cap, base, arrived, completed, dispatched, answers>>

\* poll times out or fails, the peer is gone, or memory is.
ReadFails ==
    /\ state = "open" /\ completed < cap
    /\ Verdict = "INCOMPLETE"
    /\ \E reason \in {"TIMEOUT", "BY_PEER", "ERROR"} : Close(reason)
    /\ UNCHANGED <<wire, cap, base, arrived, completed, dispatched, answers>>

\* One error answer, if it can be written, and never another request.
ParseError ==
    /\ state = "open" /\ completed < cap
    /\ Verdict \notin {"OK", "INCOMPLETE"}
    /\ \/ answers' = Append(answers, ErrorStatus(Verdict))
       \/ UNCHANGED answers
    /\ Close("ERROR")
    /\ UNCHANGED <<wire, cap, base, arrived, completed, dispatched>>
-----------------------------------------------------------------------------
\* connection_should_stay_alive
StayAlive(r, after) ==
    /\ after < cap
    /\ r.connection # "close"
    /\ r.minor = 0 => r.connection = "keep-alive"

Dispatches(r) == r.target = "route"

\* What is written: the preflight is decided before routing.  200 stands for
\* whatever the handler answers.
Status(r) ==
    CASE r.target = "OPTIONS"   -> IF CorsEnabled THEN 204 ELSE 405
      [] r.target = "no_route"  -> 404
      [] r.target = "no_method" -> 405
      [] r.target = "route"     -> 200

\* The handler has run even when its answer cannot be written.
Count(r) == dispatched' = dispatched + (IF Dispatches(r) THEN 1 ELSE 0)

SkipBody_Slide(r) == base + Size(r) - r.length

Slide(r) == base + Size(r)

Serve ==
    LET r == Current
    IN  /\ state = "open" /\ completed < cap
        /\ Verdict = "OK"
        /\ Count(r)
        /\ answers' = Append(answers, Status(r))
        /\ completed' = completed + 1
        /\ \/ StayAlive(r, completed + 1) /\ base' = Slide(r) /\ UNCHANGED state
           \/ /\ ~StayAlive(r, completed + 1)
              /\ Close(IF completed + 1 >= cap THEN "MAX_REQUESTS"
                       ELSE "CONNECTION_HEADER")
              /\ UNCHANGED base
        /\ UNCHANGED <<wire, cap, arrived>>

WriteFails ==
    /\ state = "open" /\ completed < cap
    /\ Verdict = "OK"
    /\ Count(Current)
    /\ Close("ERROR")
    /\ UNCHANGED <<wire, cap, base, arrived, completed, answers>>

Next ==
    \/ Handshake \/ CapReached
    \/ ReadMore \/ ReadFails \/ ParseError
    \/ Serve \/ WriteFails

\* poll and the socket timeouts bound every blocking call of the loop.  A
\* closed connection takes no step.
Spec == Init /\ [][Next]_vars /\ WF_vars(Next)
-----------------------------------------------------------------------------
\* Positions and histories have the declared shape.
TypeOK ==
    /\ wire \in Seq(Shapes) /\ cap \in Nat
    /\ base \in Nat /\ arrived \in Nat /\ base <= arrived
    /\ completed \in Nat /\ dispatched \in Nat
    /\ answers \in Seq({200, 204, 400, 404, 405, 413, 501})
    /\ state \in {"accepted", "open", "MAX_REQUESTS", "TIMEOUT", "BY_PEER",
                  "ERROR", "CONNECTION_HEADER"}

\* What a request is worth when all of it is there at once.
Whole(r) == Parse(r, Size(r))

Answer(r) ==
    IF Whole(r) = "OK" THEN Status(r) ELSE ErrorStatus(Whole(r))

\* Every handler runs at most once per request, in order, and at most one has
\* run without its answer being sent: when the connection broke there.
HandledOnce ==
    LET handled == Len(SelectSeq(SubSeq(wire, 1, completed), Dispatches))
    IN  /\ dispatched \in {handled, handled + 1}
        /\ dispatched = handled + 1 => state = "ERROR"

\* However the bytes are cut into reads, the i-th answer is the answer to the
\* i-th request taken whole: framing never drifts into a neighbour's bytes
\* (conn.c:209).  Another answer follows only a request that was parsed and
\* after which the connection persists, up to the cap: "HTTP/1.1 defaults to
\* persistent, HTTP/1.0 does not" (conn.c:31).  And HandledOnce
\* holds.
AnswersInOrder ==
    /\ TypeOK /\ HandledOnce
    /\ Len(answers) <= Len(wire) /\ completed <= cap
    /\ \A i \in DOMAIN answers : answers[i] = Answer(wire[i])
    /\ \A i \in 1 .. Len(answers) - 1 :
          /\ Whole(wire[i]) = "OK"
          /\ wire[i].connection # "close"
          /\ wire[i].minor = 0 => wire[i].connection = "keep-alive"

\* The buffer holds less than one largest request and one read: limits are
\* enforced before the bytes they forbid are waited for (request.c:197).
BufferBounded ==
    Buffered < MaxLine + MaxHeader + 2 + MaxBody + Chunk

\* Every connection ends and gives its worker back.
ConnectionEnds == <>(state \notin {"accepted", "open"})
=============================================================================
