------------------------- MODULE UserListingProofs --------------------------
(***************************************************************************)
(* Proofs about UserListing, for any set of administrators, any page sizes *)
(* and any number of accounts.  The inductive invariant says where the     *)
(* cursor may stand and what lies beyond it; a finished walk is complete   *)
(* because whoever was there at the start was already behind the cursor of *)
(* the last, short page.                                                   *)
(***************************************************************************)
EXTENDS UserListing, FiniteSetTheorems, TLAPS

\* The table is finite; a cursor is the beginning or a user's id; users there
\* at the start are still there; finished walks have them behind the cursor.
IInv ==
    /\ TypeOK
    /\ NothingSkipped
    /\ ListedOnce
    /\ WalkComplete
    /\ \A a \in Admins : /\ walk[a].cursor \in users \cup {0}
                         /\ walk[a].start \subseteq users

-----------------------------------------------------------------------------
LEMMA UsersFinite == TypeOK => IsFiniteSet(users)
<1>1. IsFiniteSet(1 .. MaxUsers)
  BY FS_Interval, ListingAssumption
<1> QED
  BY <1>1, FS_Subset DEF TypeOK

\* A page is what lies between the old cursor and the new one.
LEMMA PageIsInterval ==
    ASSUME TypeOK, NEW after \in Nat, NEW limit \in Nat \ {0},
           NEW rows \in ListAfter(after, limit),
           NEW next \in rows \cup {after}, NextAfterId(rows, after, next)
    PROVE  /\ next \in Nat
           /\ rows = {u \in users : after < u /\ u <= next}
           /\ next \in users \cup {after}
           /\ after <= next
           /\ ~HasMore(rows, limit) => \A u \in users : u <= next
<1>1. users \subseteq Nat
  BY ListingAssumption DEF TypeOK
<1>2. rows \subseteq Beyond(after)
  BY DEF ListAfter
<1>3. \A r \in rows, u \in Beyond(after) : u < r => u \in rows
  BY DEF ListAfter
<1>4. next \in Nat /\ next \in users \cup {after} /\ after <= next
  BY <1>1, <1>2 DEF Beyond
<1>5. rows = {u \in users : after < u /\ u <= next}
  <2>1. CASE rows = {} /\ next = after
    <3>1. \A u \in users : ~(after < u /\ u <= next)
      BY <2>1, <1>1
    <3> QED
      BY <2>1, <3>1
  <2>2. CASE next \in rows /\ \A r \in rows : r <= next
    <3>1. \A u \in rows : u \in users /\ after < u /\ u <= next
      BY <2>2, <1>1, <1>2 DEF Beyond
    <3>2. ASSUME NEW u \in users, after < u, u <= next PROVE u \in rows
      <4>1. u \in Beyond(after)
        BY <3>2, <1>1 DEF Beyond
      <4>2. u = next \/ u < next
        BY <3>2, <1>1, <1>4
      <4> QED
        BY <4>1, <4>2, <2>2, <1>3
    <3> QED
      BY <3>1, <3>2
  <2> QED
    BY <2>1, <2>2 DEF NextAfterId
<1>6. ~HasMore(rows, limit) => rows = Beyond(after)
  BY DEF ListAfter, HasMore
<1>7. ~HasMore(rows, limit) => \A u \in users : u <= next
  BY <1>1, <1>4, <1>5, <1>6 DEF Beyond
<1> QED
  BY <1>4, <1>5, <1>7

LEMMA InitIInv == Init => IInv
  BY FS_EmptySet, ListingAssumption
  DEF Init, IInv, TypeOK, Walk, NothingSkipped, ListedOnce, WalkComplete

LEMMA RegisterIInv == IInv /\ Register => IInv'
<1> SUFFICES ASSUME IInv, Register PROVE IInv'
  OBVIOUS
<1>1. PICK id \in 1 .. MaxUsers : /\ \A u \in users : u < id
                                  /\ users' = users \cup {id}
  BY DEF Register
<1>2. walk' = walk
  BY DEF Register
<1>3. TypeOK'
  BY <1>1, <1>2 DEF IInv, TypeOK
<1>4. NothingSkipped'
  <2> SUFFICES ASSUME NEW a \in Admins
               PROVE  walk[a].seen = {u \in users' : u <= walk[a].cursor}
    BY <1>2 DEF NothingSkipped
  <2>1. walk[a].cursor < id
    BY <1>1, ListingAssumption DEF IInv
  <2>2. ~(id <= walk[a].cursor)
    BY <2>1, ListingAssumption DEF IInv, TypeOK, Walk
  <2> QED
    BY <1>1, <2>2 DEF IInv, NothingSkipped
<1> QED
  BY <1>1, <1>2, <1>3, <1>4 DEF IInv, ListedOnce, WalkComplete

LEMMA BeginIInv == ASSUME NEW a \in Admins PROVE IInv /\ Begin(a) => IInv'
<1> SUFFICES ASSUME IInv, Begin(a) PROVE IInv'
  OBVIOUS
<1> DEFINE fresh == [state |-> "walking", start |-> users, cursor |-> 0,
                     seen |-> {}, rows |-> 0]
<1>1. users' = users /\ walk' = [walk EXCEPT ![a] = fresh]
  BY DEF Begin
<1>2. users \subseteq Nat \ {0}
  BY ListingAssumption DEF IInv, TypeOK
<1>3. fresh \in Walk
  BY <1>2 DEF Walk
<1>4. TypeOK'
  BY <1>1, <1>3 DEF IInv, TypeOK
<1>5. \A b \in Admins : walk'[b] = IF b = a THEN fresh ELSE walk[b]
  BY <1>1 DEF IInv, TypeOK
<1>6. fresh.seen = {u \in users : u <= fresh.cursor}
  <2>1. \A u \in users : ~(u <= 0)
    BY <1>2
  <2> QED
    BY <2>1
<1>7. NothingSkipped'
  BY <1>1, <1>5, <1>6 DEF IInv, NothingSkipped
<1>8. ListedOnce'
  <2>1. fresh.rows = Cardinality(fresh.seen)
    BY FS_EmptySet
  <2> HIDE DEF fresh
  <2> QED
    BY <2>1, <1>5 DEF IInv, ListedOnce
<1> QED
  BY <1>1, <1>4, <1>5, <1>7, <1>8 DEF IInv, WalkComplete

LEMMA PageIInv == ASSUME NEW a \in Admins PROVE IInv /\ Page(a) => IInv'
<1> SUFFICES ASSUME IInv, Page(a) PROVE IInv'
  OBVIOUS
<1> DEFINE w == walk[a]
<1>1. PICK limit \in Limits \ {0} :
        \E rows \in ListAfter(w.cursor, Capped(limit)) :
        \E next \in rows \cup {w.cursor} :
          /\ NextAfterId(rows, w.cursor, next)
          /\ walk' = [walk EXCEPT ![a] = Advance(w, rows, next, Capped(limit))]
  BY DEF Page
<1>2. PICK rows \in ListAfter(w.cursor, Capped(limit)) :
        \E next \in rows \cup {w.cursor} :
          /\ NextAfterId(rows, w.cursor, next)
          /\ walk' = [walk EXCEPT ![a] = Advance(w, rows, next, Capped(limit))]
  BY <1>1
<1>3. PICK next \in rows \cup {w.cursor} :
          /\ NextAfterId(rows, w.cursor, next)
          /\ walk' = [walk EXCEPT ![a] = Advance(w, rows, next, Capped(limit))]
  BY <1>2
<1>4. users' = users
  BY DEF Page
<1>5. w \in Walk /\ walk \in [Admins -> Walk]
  BY DEF IInv, TypeOK
<1>6. Capped(limit) \in Nat \ {0}
  BY ListingAssumption DEF Capped
<1>7. /\ next \in Nat
      /\ rows = {u \in users : w.cursor < u /\ u <= next}
      /\ next \in users \cup {w.cursor}
      /\ w.cursor <= next
      /\ ~HasMore(rows, Capped(limit)) => \A u \in users : u <= next
  BY <1>3, <1>5, <1>6, PageIsInterval DEF IInv, Walk
<1>8. IsFiniteSet(rows) /\ IsFiniteSet(w.seen) /\ rows \cap w.seen = {}
  <2>1. users \subseteq Nat /\ IsFiniteSet(users)
    BY UsersFinite, ListingAssumption DEF IInv, TypeOK
  <2>2. w.seen = {u \in users : u <= w.cursor}
    BY DEF IInv, NothingSkipped
  <2>3. rows \subseteq users /\ w.seen \subseteq users
    BY <1>7, <2>2
  <2>4. rows \cap w.seen = {}
    BY <1>7, <2>1, <2>2, <1>5 DEF Walk
  <2> QED
    BY <2>1, <2>3, <2>4, FS_Subset
<1>9. /\ Cardinality(rows) \in Nat
      /\ Cardinality(w.seen \cup rows) = Cardinality(w.seen) + Cardinality(rows)
  <2>1. Cardinality(rows) \in Nat /\ Cardinality(w.seen) \in Nat
    BY <1>8, FS_CardinalityType
  <2>2. Cardinality(w.seen \cup rows) =
          Cardinality(w.seen) + Cardinality(rows) - Cardinality(w.seen \cap rows)
    BY <1>8, FS_Union
  <2>3. Cardinality(w.seen \cap rows) = 0
    <3>1. w.seen \cap rows = {}
      BY <1>8
    <3> QED
      BY <3>1, FS_EmptySet
  <2> QED
    BY <2>1, <2>2, <2>3
<1> DEFINE done == IF HasMore(rows, Capped(limit)) THEN "walking" ELSE "done"
           new == Advance(w, rows, next, Capped(limit))
<1>10. new \in Walk
  <2>1. users \subseteq Nat
    BY ListingAssumption DEF IInv, TypeOK
  <2>2. rows \subseteq Nat
    BY <2>1, <1>7
  <2>3. w.start \in SUBSET Nat /\ w.seen \in SUBSET Nat /\ w.rows \in Nat
    BY <1>5 DEF Walk
  <2>4. w.seen \cup rows \in SUBSET Nat
    BY <2>2, <2>3
  <2>5. w.rows + Cardinality(rows) \in Nat
    BY <2>3, <1>9
  <2> QED
    BY <2>3, <2>4, <2>5, <1>7 DEF Walk, Advance
<1>11. /\ new.cursor = next /\ new.seen = w.seen \cup rows
       /\ new.rows = w.rows + Cardinality(rows)
       /\ new.state = done /\ new.start = w.start
  BY DEF Advance
<1> HIDE DEF done, new
<1>12. walk' = [walk EXCEPT ![a] = new]
  BY <1>3 DEF new
<1>13. walk' \in [Admins -> Walk] /\ walk'[a] = new
  BY <1>5, <1>10, <1>12
<1>14. \A b \in Admins : b # a => walk'[b] = walk[b]
  BY <1>5, <1>12
<1>15. TypeOK'
  BY <1>4, <1>13 DEF IInv, TypeOK
<1>16. NothingSkipped'
  <2>1. users \subseteq Nat
    BY ListingAssumption DEF IInv, TypeOK
  <2>2. w.seen \cup rows = {u \in users : u <= next}
    <3>1. w.cursor \in Nat
      BY <1>5 DEF Walk
    <3>2. w.seen = {u \in users : u <= w.cursor}
      BY DEF IInv, NothingSkipped
    <3> DEFINE c == w.cursor
    <3>3. c \in Nat /\ next \in Nat /\ c <= next
      BY <3>1, <1>7
    <3> HIDE DEF c
    <3>4. \A u \in Nat : (u <= next) <=> ((u <= c) \/ (c < u /\ u <= next))
      BY <3>3
    <3>5. rows = {u \in users : c < u /\ u <= next}
      BY <1>7 DEF c
    <3>6. w.seen = {u \in users : u <= c}
      BY <3>2 DEF c
    <3> DEFINE s == w.seen
    <3>7. s = {u \in users : u <= c}
      BY <3>6
    <3> HIDE DEF s
    <3>8. s \cup rows = {u \in users : u <= next}
      BY <2>1, <3>4, <3>5, <3>7
    <3> QED
      BY <3>8 DEF s
  <2> QED
    BY <2>2, <1>4, <1>11, <1>13, <1>14 DEF IInv, NothingSkipped
<1>17. ListedOnce'
  BY <1>9, <1>11, <1>13, <1>14 DEF IInv, ListedOnce
<1>18. WalkComplete'
  <2>1. done = "done" => w.start \subseteq w.seen \cup rows
    <3> SUFFICES ASSUME done = "done" PROVE w.start \subseteq w.seen \cup rows
      OBVIOUS
    <3>1. \A u \in users : u <= next
      BY <1>7 DEF done
    <3>2. w.seen \cup rows = walk'[a].seen /\ walk'[a].cursor = next
      BY <1>11, <1>13
    <3>3. walk'[a].seen = users
      BY <3>1, <3>2, <1>4, <1>16 DEF NothingSkipped
    <3> QED
      BY <3>2, <3>3 DEF IInv
  <2> QED
    BY <2>1, <1>11, <1>13, <1>14 DEF IInv, WalkComplete
<1>19. \A b \in Admins : /\ walk'[b].cursor \in users' \cup {0}
                         /\ walk'[b].start \subseteq users'
  BY <1>4, <1>7, <1>11, <1>13, <1>14 DEF IInv
<1> QED
  BY <1>15, <1>16, <1>17, <1>18, <1>19 DEF IInv
-----------------------------------------------------------------------------
\* The invariant of keyset pagination holds in every reachable state.
THEOREM ListingInvariant == Spec => []IInv
<1>1. IInv /\ [Next]_vars => IInv'
  <2> SUFFICES ASSUME IInv, [Next]_vars PROVE IInv'
    OBVIOUS
  <2>1. CASE UNCHANGED vars
    BY <2>1 DEF IInv, TypeOK, NothingSkipped, ListedOnce, WalkComplete, vars
  <2>2. CASE Register
    BY <2>2, RegisterIInv
  <2>3. ASSUME NEW a \in Admins, Begin(a) PROVE IInv'
    BY <2>3, BeginIInv
  <2>4. ASSUME NEW a \in Admins, Page(a) PROVE IInv'
    BY <2>4, PageIInv
  <2>5. ASSUME NEW a \in Admins, NoPage(a) PROVE IInv'
    BY <2>5, <2>1 DEF NoPage
  <2> QED
    BY <2>1, <2>2, <2>3, <2>4, <2>5 DEF Next
<1> QED
  BY <1>1, InitIInv, PTL DEF Spec

\* Every state is well typed.
THEOREM ListingTypeOK == Spec => []TypeOK
<1>1. IInv => TypeOK
  BY DEF IInv
<1> QED
  BY <1>1, ListingInvariant, PTL

\* Accounts created between two pages never make the cursor pass a user who
\* was not listed.
THEOREM ListingNothingSkipped == Spec => []NothingSkipped
<1>1. IInv => NothingSkipped
  BY DEF IInv
<1> QED
  BY <1>1, ListingInvariant, PTL

\* No user is returned on two pages of a walk.
THEOREM ListingOnce == Spec => []ListedOnce
<1>1. IInv => ListedOnce
  BY DEF IInv
<1> QED
  BY <1>1, ListingInvariant, PTL

\* A walk ended by a short page has listed everyone who was there at its start.
THEOREM ListingComplete == Spec => []WalkComplete
<1>1. IInv => WalkComplete
  BY DEF IInv
<1> QED
  BY <1>1, ListingInvariant, PTL
=============================================================================
