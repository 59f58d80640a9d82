-------------------------- MODULE MCHttpConnection --------------------------
(***************************************************************************)
(* Requests for HttpConnection: plain ones that differ in persistence and  *)
(* target, one at each limit, and one past each limit.                     *)
(***************************************************************************)
EXTENDS HttpConnection

Plain == [line |-> 1, header |-> 0, length |-> 0, line_ok |-> TRUE,
          flaw |-> "NONE", minor |-> 1, connection |-> "", target |-> "route"]

MCShapes ==
    { Plain,
      [Plain EXCEPT !.header = MaxHeader, !.length = MaxBody],
      [Plain EXCEPT !.line = MaxLine - 2, !.target = "OPTIONS"],
      [Plain EXCEPT !.header = 1, !.connection = "close"],
      [Plain EXCEPT !.minor = 0, !.target = "no_route"],
      [Plain EXCEPT !.minor = 0, !.header = 1, !.connection = "keep-alive",
                    !.target = "no_method"],
      [Plain EXCEPT !.line = MaxLine - 1],
      [Plain EXCEPT !.line_ok = FALSE],
      [Plain EXCEPT !.header = MaxHeader + 1],
      [Plain EXCEPT !.header = 1, !.length = MaxBody + Chunk + 2],
      [Plain EXCEPT !.header = 1, !.flaw = "CHUNKED_UNSUPPORTED"] }
=============================================================================
