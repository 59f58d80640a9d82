---------------------------- MODULE UserListing -----------------------------
(***************************************************************************)
(* GET /v1/admin/users: keyset pagination over the users table             *)
(* (api/admin_api.c, store/user_store.c) while accounts are being created. *)
(* An administrator starts without a cursor, asks for page after page with *)
(* the nextAfterId of the last answer, and stops when hasMore is false.    *)
(* An answer may be an error or be lost; then the same page is asked again. *)
(***************************************************************************)
EXTENDS Naturals, FiniteSets

CONSTANTS
    Admins,    \* administrators walking the table
    Limits,    \* values of the limit parameter, 0 among them
    ListMax,   \* PS_USER_LIST_MAX
    MaxUsers   \* bound on the accounts created

ASSUME ListingAssumption ==
    /\ Limits \subseteq Nat
    /\ ListMax \in Nat \ {0}
    /\ MaxUsers \in Nat

VARIABLES
    users,   \* user_ids in the table; rows are never deleted
    walk     \* administrator -> where the walk stands

vars == <<users, walk>>

\* start: users there when the first page was asked for; cursor: the after_id
\* of the next page; seen: users listed; rows: rows listed, repeats included.
Walk == [state : {"idle", "walking", "done"}, start : SUBSET Nat,
         cursor : Nat, seen : SUBSET Nat, rows : Nat]

Init ==
    /\ users = {}
    /\ walk = [a \in Admins |->
                 [state |-> "idle", start |-> {}, cursor |-> 0, seen |-> {},
                  rows |-> 0]]

\* ps_user_store_insert: SQLite gives the row the largest rowid and one more.
Register ==
    /\ \E id \in 1 .. MaxUsers :
          /\ \A u \in users : u < id
          /\ id = 1 \/ id - 1 \in users
          /\ users' = users \cup {id}
    /\ UNCHANGED walk

\* after_id is absent: a walk starts from the beginning.
Begin(a) ==
    /\ walk[a].state # "walking"
    /\ walk' = [walk EXCEPT ![a] =
                   [state |-> "walking", start |-> users, cursor |-> 0,
                    seen |-> {}, rows |-> 0]]
    /\ UNCHANGED users
-----------------------------------------------------------------------------
Beyond(after) == {u \in users : u > after}

Unordered_ListAfter(after, limit) ==
    {rows \in SUBSET Beyond(after) :
        \/ Cardinality(rows) = limit
        \/ Cardinality(rows) < limit /\ rows = Beyond(after)}

\* ps_user_store_list_after, "WHERE user_id > ? ORDER BY user_id ASC LIMIT ?":
\* the one set of rows that is downward closed and full, or all there is.
ListAfter(after, limit) ==
    {rows \in SUBSET Beyond(after) :
        /\ \A r \in rows, u \in Beyond(after) : u < r => u \in rows
        /\ \/ Cardinality(rows) = limit
           \/ Cardinality(rows) < limit /\ rows = Beyond(after)}

\* nextAfterId: the last row's id, or the cursor that was asked with.
NextAfterId(rows, after, next) ==
    \/ rows = {} /\ next = after
    \/ next \in rows /\ \A r \in rows : r <= next

OffByOne_HasMore(rows, limit) == Cardinality(rows) + 1 = limit

Always_HasMore(rows, limit) == rows = {} \/ Cardinality(rows) = limit

HasMore(rows, limit) == Cardinality(rows) = limit

\* limit is capped at ListMax.
Capped(limit) == IF limit > ListMax THEN ListMax ELSE limit

\* The client's walk w after the answer.
Advance(w, rows, next, limit) ==
    [state  |-> IF HasMore(rows, limit) THEN "walking" ELSE "done",
     start  |-> w.start,
     cursor |-> next,
     seen   |-> w.seen \cup rows,
     rows   |-> w.rows + Cardinality(rows)]

\* A page is read and its answer reaches the client.
Page(a) ==
    /\ walk[a].state = "walking"
    /\ \E limit \in Limits \ {0} :
       \E rows \in ListAfter(walk[a].cursor, Capped(limit)) :
       \E next \in rows \cup {walk[a].cursor} :
          /\ NextAfterId(rows, walk[a].cursor, next)
          /\ walk' = [walk EXCEPT ![a] = Advance(@, rows, next, Capped(limit))]
    /\ UNCHANGED users

\* limit = 0 is a 400, a failing query a 500, and an answer may be lost: the
\* client keeps its cursor.  Nothing changes but a best-effort audit row.
NoPage(a) ==
    /\ walk[a].state = "walking"
    /\ UNCHANGED vars

Next ==
    \/ Register
    \/ \E a \in Admins : Begin(a) \/ Page(a) \/ NoPage(a)

\* The administrator keeps asking and is answered in the end.
Spec == Init /\ [][Next]_vars /\ \A a \in Admins : WF_vars(Page(a))
-----------------------------------------------------------------------------
\* User ids and walks have the declared shape.
TypeOK ==
    /\ users \in SUBSET (1 .. MaxUsers)
    /\ walk \in [Admins -> Walk]

\* Behind the cursor nothing is missing and nothing is invented, however many
\* accounts are created between two pages (admin_api.c:219).
NothingSkipped ==
    \A a \in Admins : walk[a].seen = {u \in users : u <= walk[a].cursor}

\* No user is listed on two pages: as many rows as users were returned.
ListedOnce ==
    \A a \in Admins : walk[a].rows = Cardinality(walk[a].seen)

\* "A short page proves there is nothing left" (admin_api.c:239): a finished
\* walk has listed every user who was there when it began.
WalkComplete ==
    \A a \in Admins : walk[a].state = "done" => walk[a].start \subseteq walk[a].seen

\* A walk that began ends, once accounts stop being created: the cursor moves
\* on every page, an exactly full last page costing one empty one more.
WalkEnds ==
    \A a \in Admins : walk[a].state = "walking" ~> walk[a].state = "done"
=============================================================================
