------------------------ MODULE VerificationProofs --------------------------
(***************************************************************************)
(* Proofs for Verification, for any workers, users, addresses, tokens and  *)
(* limits.                                                                 *)
(*                                                                         *)
(* verify judges a token, and resend an account, in a read before the      *)
(* transaction that acts on them.  The invariants are inductive only with  *)
(* what stays true of such a request until its transaction runs.           *)
(***************************************************************************)
EXTENDS Verification, TLAPS

\* A token belongs to a registered user, and its row says to which.
Owned ==
    /\ \A tk \in DOMAIN issued : issued[tk].user \in DOMAIN users
    /\ \A tk \in DOMAIN tokens : tokens[tk].user = issued[tk].user

\* What a request has established before its next step, about the mailed and
\* issued tokens and the registered names.
Sound(r, sent, made, names) ==
    /\ r \in Requests
    /\ r.op \notin {"idle", "mail"} => r.t # 0
    /\ r.op \in {"verify_read", "verify_txn"} => r.token \in sent
    /\ r.op = "verify_txn" => r.user = made[r.token].user
    /\ r.op = "mail" => r.token \in DOMAIN made
    /\ r.op \in {"resend_recent", "resend_day", "resend_txn"} => r.user \in names

IInv ==
    /\ OneLiveToken /\ Owned /\ ActiveProved
    /\ \A w \in Workers : Sound(req[w], mailed, issued, DOMAIN users)
-----------------------------------------------------------------------------
\* The fields of a request, by its kind.
LEMMA RequestFacts ==
    ASSUME NEW r \in Requests
    PROVE  /\ r.op = "register_txn" => r.user \in Users /\ r.email \in Emails
           /\ r.op \notin {"idle", "mail"} => r.t \in Nat
           /\ r.op \in {"mail", "verify_read", "verify_txn"} => r.token \in Tokens
           /\ r.op \in {"verify_txn", "resend_recent", "resend_day", "resend_txn"} =>
                 r.user \in Users
BY DEF Requests, Idle

LEMMA ResendMovesOn ==
    ASSUME NEW r, NEW sent, NEW made, NEW names, Sound(r, sent, made, names),
           r.op \in {"resend_recent", "resend_day"}, NEW op \in {"resend_day", "resend_txn"}
    PROVE  Sound([r EXCEPT !.op = op], sent, made, names)
<1> DEFINE q == [r EXCEPT !.op = op]
           Resend == [op : {"resend_recent", "resend_day", "resend_txn"}, user : Users,
                      t : Nat]
<1>1. r \in Resend /\ r.t # 0 /\ r.user \in names
    BY DEF Sound, Requests, Idle
<1>2. q \in Resend /\ q.op = op /\ q.t = r.t /\ q.user = r.user
    BY <1>1
<1>3. q \in Requests
    BY <1>2 DEF Requests
<1> HIDE DEF q
<1>4. Sound(q, sent, made, names)
    BY <1>1, <1>2, <1>3 DEF Sound
<1>5. QED
    BY <1>4 DEF q

LEMMA IdleSound ==
    ASSUME NEW sent, NEW made, NEW names
    PROVE  Sound(Idle, sent, made, names)
BY DEF Sound, Requests, Idle

\* More mail, more tokens and more users spoil no request.
LEMMA SoundStays ==
    ASSUME NEW sent, NEW sent2, NEW made, NEW made2, NEW names, NEW names2, NEW r,
           sent \subseteq sent2, names \subseteq names2, sent \subseteq DOMAIN made,
           DOMAIN made \subseteq DOMAIN made2,
           \A tk \in DOMAIN made : made2[tk] = made[tk],
           Sound(r, sent, made, names)
    PROVE  Sound(r, sent2, made2, names2)
<1>1. r.op \in {"verify_read", "verify_txn"} => r.token \in sent /\ r.token \in DOMAIN made
    BY DEF Sound
<1>2. QED
    BY <1>1 DEF Sound

\* A request that only moves on keeps the invariant if it is sound.
LEMMA BecomeKeeps ==
    ASSUME IInv, NEW w \in Workers, NEW r,
           Sound(r, mailed, issued, DOMAIN users), Become(w, r),
           UNCHANGED <<now, db, mailed, answered, sweeper>>
    PROVE  IInv'
<1>1. UNCHANGED <<users, tokens, issued>>
    BY DEF db
<1>2. req' \in [Workers -> Requests]
    BY DEF IInv, OneLiveToken, TypeOK, Become, Sound
<1>3. OneLiveToken'
    BY <1>1, <1>2 DEF IInv, OneLiveToken, TypeOK
<1>4. Owned' /\ ActiveProved'
    BY <1>1 DEF IInv, Owned, ActiveProved
<1>5. \A v \in Workers : Sound(req'[v], mailed', issued', DOMAIN users')
    BY <1>1 DEF IInv, OneLiveToken, TypeOK, Become
<1>6. QED
    BY <1>3, <1>4, <1>5 DEF IInv

LEMMA InitIInv == Init => IInv
<1> SUFFICES ASSUME Init
             PROVE  IInv
    OBVIOUS
<1>1. DOMAIN users = {} /\ DOMAIN tokens = {} /\ DOMAIN issued = {} /\ mailed = {}
    BY DEF Init, EmptyTable
<1>2. TypeOK
    <2>1. users \in [DOMAIN users -> UserRow] /\ tokens \in [DOMAIN tokens -> TokenRow]
          /\ issued \in [DOMAIN issued -> Issue]
        BY DEF Init, EmptyTable
    <2>2. answered \in [Tokens -> Nat] /\ req \in [Workers -> Requests]
        BY DEF Init, Requests
    <2>3. QED
        BY <1>1, <2>1, <2>2 DEF Init, TypeOK
<1>3. \A w \in Workers : Sound(req[w], mailed, issued, DOMAIN users)
    BY IdleSound DEF Init
<1>4. QED
    BY <1>1, <1>2, <1>3 DEF IInv, OneLiveToken, Owned, ActiveProved

-----------------------------------------------------------------------------
(***************************************************************************)
(* The steps that write no table.                                          *)
(***************************************************************************)
LEMMA ReadsKeep ==
    ASSUME IInv, NEW w \in Workers,
           \/ RegisterArrive(w) \/ RegisterDuplicate(w) \/ VerifyArrive(w) \/ VerifyRead(w)
           \/ ResendArrive(w) \/ ResendFind(w) \/ ResendRecent(w) \/ ResendDay(w) \/ Fail(w)
    PROVE  IInv'
<1> DEFINE r == req[w]
           OK(x) == Sound(x, mailed, issued, DOMAIN users)
<1>t. TypeOK /\ now \in Nat \ {0} /\ mailed \subseteq Tokens
    BY DEF IInv, OneLiveToken, TypeOK
<1>r. r \in Requests /\ OK(r)
    BY DEF IInv, Sound
<1>i. OK(Idle)
    BY IdleSound
<1>1. CASE RegisterArrive(w)
    <2>1. PICK u \in Users, e \in Emails :
              Become(w, [op |-> "register_txn", user |-> u, email |-> e, t |-> now])
        BY <1>1 DEF RegisterArrive
    <2>2. OK([op |-> "register_txn", user |-> u, email |-> e, t |-> now])
        BY <1>t DEF Sound, Requests
    <2>3. QED
        BY <1>1, <2>1, <2>2, BecomeKeeps DEF RegisterArrive
<1>2. CASE RegisterDuplicate(w) \/ Fail(w)
    BY <1>2, <1>i, BecomeKeeps DEF RegisterDuplicate, Fail
<1>3. CASE VerifyArrive(w)
    <2>1. PICK tk \in mailed : Become(w, [op |-> "verify_read", token |-> tk, t |-> now])
        BY <1>3 DEF VerifyArrive
    <2>2. OK([op |-> "verify_read", token |-> tk, t |-> now])
        BY <1>t DEF Sound, Requests
    <2>3. QED
        BY <1>3, <2>1, <2>2, BecomeKeeps DEF VerifyArrive
<1>4. CASE VerifyRead(w)
    <2> DEFINE q == [op |-> "verify_txn", token |-> r.token,
                     user |-> tokens[r.token].user, t |-> r.t]
    <2>1. r.op = "verify_read" /\ r.token \in mailed /\ r.t \in Nat /\ r.t # 0
          /\ r.token \in Tokens
        BY <1>4, <1>r, RequestFacts DEF VerifyRead, Sound
    <2>2. CASE Usable(r.token, r.t)
        <3>1. tokens[r.token].user \in Users /\ tokens[r.token].user = issued[r.token].user
            BY <2>2, <1>t DEF Usable, TypeOK, TokenRow, IInv, Owned
        <3>2. OK(q)
            BY <2>1, <3>1 DEF Sound, Requests
        <3>3. Become(w, q)
            BY <1>4, <2>2 DEF VerifyRead
        <3>4. QED
            BY <1>4, <3>2, <3>3, BecomeKeeps DEF VerifyRead
    <2>3. CASE ~Usable(r.token, r.t)
        BY <1>4, <1>i, <2>3, BecomeKeeps DEF VerifyRead
    <2>4. QED
        BY <2>2, <2>3
<1>5. CASE ResendArrive(w)
    <2>1. PICK e \in Emails : Become(w, [op |-> "resend_find", email |-> e, t |-> now])
        BY <1>5 DEF ResendArrive
    <2>2. OK([op |-> "resend_find", email |-> e, t |-> now])
        BY <1>t DEF Sound, Requests
    <2>3. QED
        BY <1>5, <2>1, <2>2, BecomeKeeps DEF ResendArrive
<1>6. CASE ResendFind(w)
    <2>1. r.op = "resend_find" /\ r.t \in Nat /\ r.t # 0
        BY <1>6, <1>r, RequestFacts DEF ResendFind, Sound
    <2>2. ASSUME NEW v \in DOMAIN users
          PROVE  OK([op |-> "resend_recent", user |-> v, t |-> r.t])
        BY <2>1, <1>t DEF Sound, Requests, TypeOK
    <2>3. \/ Become(w, Idle)
          \/ \E v \in DOMAIN users : Become(w, [op |-> "resend_recent", user |-> v, t |-> r.t])
        BY <1>6 DEF ResendFind
    <2>4. QED
        BY <1>6, <1>i, <2>2, <2>3, BecomeKeeps DEF ResendFind
<1>7. CASE ResendRecent(w)
    <2>1. OK([r EXCEPT !.op = "resend_day"])
        BY <1>7, <1>r, ResendMovesOn DEF ResendRecent
    <2>2. Become(w, Idle) \/ Become(w, [r EXCEPT !.op = "resend_day"])
        BY <1>7 DEF ResendRecent
    <2>3. QED
        BY <1>7, <1>i, <2>1, <2>2, BecomeKeeps DEF ResendRecent
<1>8. CASE ResendDay(w)
    <2>1. OK([r EXCEPT !.op = "resend_txn"])
        BY <1>8, <1>r, ResendMovesOn DEF ResendDay
    <2>2. Become(w, Idle) \/ Become(w, [r EXCEPT !.op = "resend_txn"])
        BY <1>8 DEF ResendDay
    <2>3. QED
        BY <1>8, <1>i, <2>1, <2>2, BecomeKeeps DEF ResendDay
<1>9. QED
    BY <1>1, <1>2, <1>3, <1>4, <1>5, <1>6, <1>7, <1>8
-----------------------------------------------------------------------------
(***************************************************************************)
(* The transactions.                                                       *)
(***************************************************************************)
\* Rows after an UPDATE of consumed_at: the same tokens of the same users, and
\* none is live that was not.
LEMMA ConsumeFacts ==
    ASSUME NEW D, NEW rows \in [D -> TokenRow], NEW tks, NEW t \in Nat \ {0}
    PROVE  /\ Consume(rows, tks, t) \in [D -> TokenRow]
           /\ \A k \in D : /\ Consume(rows, tks, t)[k].user = rows[k].user
                           /\ Consume(rows, tks, t)[k].consumed_at = 0 =>
                                 k \notin tks /\ rows[k].consumed_at = 0
BY DEF Consume, TokenRow

\* A fresh token for u, when u's other tokens are spent, is u's live token.
LEMMA FreshKeeps ==
    ASSUME IInv, NEW w \in Workers, NEW rows \in [DOMAIN tokens -> TokenRow],
           NEW u \in Users, NEW t \in Nat, NEW tk \in Tokens \ DOMAIN issued,
           \A k \in DOMAIN tokens : /\ rows[k].user = tokens[k].user
                                    /\ rows[k].consumed_at = 0 =>
                                          tokens[k].consumed_at = 0 /\ tokens[k].user # u,
           InsertFreshToken(rows, tk, u, t),
           Become(w, [op |-> "mail", token |-> tk]),
           users' \in [DOMAIN users' -> UserRow], DOMAIN users' \subseteq Users,
           DOMAIN users \subseteq DOMAIN users', u \in DOMAIN users',
           \A v \in DOMAIN users' :
               users'[v].status = "ACTIVE" => v \in DOMAIN users /\ users[v].status = "ACTIVE",
           UNCHANGED <<now, mailed, answered, sweeper>>
    PROVE  IInv'
<1>t. TypeOK
    BY DEF IInv, OneLiveToken
<1>1. /\ DOMAIN tokens' = DOMAIN tokens \cup {tk} /\ tk \notin DOMAIN tokens
      /\ tokens' \in [DOMAIN tokens' -> TokenRow]
      /\ tokens'[tk] = NewToken(u, t)
      /\ \A k \in DOMAIN tokens : tokens'[k] = rows[k]
    <2>1. DOMAIN rows = DOMAIN tokens /\ tk \notin DOMAIN tokens
        BY <1>t DEF TypeOK
    <2>2. NewToken(u, t) \in TokenRow
        BY VerificationAssumption DEF NewToken, TokenRow
    <2>3. tokens' = InsertRow(rows, tk, NewToken(u, t))
        BY DEF InsertFreshToken
    <2>4. QED
        BY <2>1, <2>2, <2>3 DEF InsertRow
<1>2. /\ DOMAIN issued' = DOMAIN issued \cup {tk}
      /\ issued' \in [DOMAIN issued' -> Issue]
      /\ issued'[tk] = [user |-> u, at |-> t]
      /\ \A k \in DOMAIN issued : issued'[k] = issued[k]
    <2>1. [user |-> u, at |-> t] \in Issue
        BY DEF Issue
    <2>2. issued' = InsertRow(issued, tk, [user |-> u, at |-> t])
          /\ issued \in [DOMAIN issued -> Issue]
        BY <1>t DEF InsertFreshToken, TypeOK
    <2> DEFINE row == [user |-> u, at |-> t]
    <2> HIDE DEF row
    <2>3. issued' = InsertRow(issued, tk, row) /\ row \in Issue
        BY <2>1, <2>2 DEF row
    <2>4. /\ DOMAIN issued' = DOMAIN issued \cup {tk}
          /\ issued' \in [DOMAIN issued' -> Issue]
          /\ issued'[tk] = row
          /\ \A k \in DOMAIN issued : issued'[k] = issued[k]
        BY <2>2, <2>3 DEF InsertRow
    <2>5. QED
        BY <2>4 DEF row
<1>3. Sound([op |-> "mail", token |-> tk], mailed', issued', DOMAIN users')
    BY <1>2 DEF Sound, Requests
<1>4. \A v \in Workers : Sound(req'[v], mailed', issued', DOMAIN users')
    <2>1. ASSUME NEW v \in Workers
          PROVE  Sound(req[v], mailed', issued', DOMAIN users')
        <3>1. Sound(req[v], mailed, issued, DOMAIN users) /\ mailed \subseteq DOMAIN issued
            BY <1>t DEF IInv, TypeOK
        <3>2. QED
            BY <3>1, <1>2, SoundStays
    <2>2. QED
        BY <1>3, <1>t, <2>1 DEF Become, TypeOK
<1>5. req' \in [Workers -> Requests]
    BY <1>3, <1>t DEF Become, TypeOK, Sound
<1>6. TypeOK'
    BY <1>1, <1>2, <1>5, <1>t DEF TypeOK
<1>7. ASSUME NEW a \in DOMAIN tokens', NEW b \in DOMAIN tokens',
             tokens'[a].user = tokens'[b].user,
             tokens'[a].consumed_at = 0, tokens'[b].consumed_at = 0
      PROVE  a = b
    <2>1. tokens'[tk].user = u
        BY <1>1 DEF NewToken
    <2>2. QED
        BY <1>1, <1>7, <2>1 DEF IInv, OneLiveToken
<1>8. Owned'
    <2>1. \A k \in DOMAIN issued' : issued'[k].user \in DOMAIN users'
        BY <1>2 DEF IInv, Owned
    <2>2. \A k \in DOMAIN tokens' : tokens'[k].user = issued'[k].user
        BY <1>1, <1>2, <1>t DEF IInv, Owned, NewToken, TypeOK
    <2>3. QED
        BY <2>1, <2>2 DEF Owned
<1>9. ActiveProved'
    BY <1>2, <1>t DEF IInv, ActiveProved, TypeOK
<1>10. QED
    BY <1>4, <1>6, <1>7, <1>8, <1>9 DEF IInv, OneLiveToken

LEMMA RegisterKeeps ==
    ASSUME IInv, NEW w \in Workers, RegisterTxn(w)
    PROVE  IInv'
<1> DEFINE r == req[w]
<1>t. TypeOK
    BY DEF IInv, OneLiveToken
<1>1. /\ r.op = "register_txn" /\ r.user \in Users /\ r.email \in Emails /\ r.t \in Nat
      /\ r.user \notin DOMAIN users
    BY <1>t, RequestFacts DEF RegisterTxn, Taken, TypeOK
<1>2. PICK tk \in Tokens \ DOMAIN issued :
          /\ InsertFreshToken(tokens, tk, r.user, r.t)
          /\ Become(w, [op |-> "mail", token |-> tk])
    BY DEF RegisterTxn
<1>3. UNCHANGED <<now, mailed, answered, sweeper>>
      /\ users' = InsertRow(users, r.user, NewUser(r.email))
    BY DEF RegisterTxn
<1>4. NewUser(r.email) \in UserRow /\ NewUser(r.email).status = "PENDING"
    BY <1>1 DEF NewUser, UserRow
<1>5. \A k \in DOMAIN tokens : tokens[k].user # r.user
    BY <1>1, <1>t DEF IInv, Owned, TypeOK
<1>6. /\ users' \in [DOMAIN users' -> UserRow] /\ DOMAIN users' = DOMAIN users \cup {r.user}
      /\ users'[r.user] = NewUser(r.email)
      /\ \A v \in DOMAIN users : users'[v] = users[v]
    <2>1. users \in [DOMAIN users -> UserRow]
        BY <1>t DEF TypeOK
    <2>2. QED
        BY <1>1, <1>3, <1>4, <2>1 DEF InsertRow
<1>7. DOMAIN users' \subseteq Users /\ tokens \in [DOMAIN tokens -> TokenRow]
    BY <1>1, <1>6, <1>t DEF TypeOK
<1> HIDE DEF r
<1>8. QED
    BY <1>1, <1>2, <1>3, <1>4, <1>5, <1>6, <1>7, FreshKeeps

LEMMA ResendKeeps ==
    ASSUME IInv, NEW w \in Workers, ResendTxn(w)
    PROVE  IInv'
<1> DEFINE r == req[w]
           rows == InvalidateAll(r.user, r.t)
<1>t. TypeOK
    BY DEF IInv, OneLiveToken
<1>1. /\ r.op = "resend_txn" /\ r.user \in Users /\ r.t \in Nat \ {0}
      /\ r.user \in DOMAIN users
    BY <1>t, RequestFacts DEF ResendTxn, TypeOK, IInv, Sound
<1>2. PICK tk \in Tokens \ DOMAIN issued :
          /\ InsertFreshToken(rows, tk, r.user, r.t)
          /\ Become(w, [op |-> "mail", token |-> tk])
    BY DEF ResendTxn
<1>3. UNCHANGED <<now, users, mailed, answered, sweeper>>
    BY DEF ResendTxn
<1>4. /\ rows \in [DOMAIN tokens -> TokenRow]
      /\ \A k \in DOMAIN tokens : /\ rows[k].user = tokens[k].user
                                  /\ rows[k].consumed_at = 0 =>
                                        tokens[k].consumed_at = 0 /\ tokens[k].user # r.user
    BY <1>1, <1>t, ConsumeFacts DEF InvalidateAll, TypeOK
<1>5. users \in [DOMAIN users -> UserRow] /\ DOMAIN users \subseteq Users
    BY <1>t DEF TypeOK
<1> DEFINE u == r.user
           t == r.t
<1>6. u \in Users /\ t \in Nat /\ u \in DOMAIN users'
      /\ InsertFreshToken(rows, tk, u, t)
      /\ \A k \in DOMAIN tokens : /\ rows[k].user = tokens[k].user
                                  /\ rows[k].consumed_at = 0 =>
                                        tokens[k].consumed_at = 0 /\ tokens[k].user # u
    BY <1>1, <1>2, <1>3, <1>4
<1>7. /\ users' \in [DOMAIN users' -> UserRow] /\ DOMAIN users' \subseteq Users
      /\ DOMAIN users \subseteq DOMAIN users'
      /\ \A v \in DOMAIN users' :
            users'[v].status = "ACTIVE" => v \in DOMAIN users /\ users[v].status = "ACTIVE"
    BY <1>3, <1>5
<1> HIDE DEF r, rows, u, t
<1>8. QED
    BY <1>2, <1>3, <1>4, <1>6, <1>7, FreshKeeps, Zenon

\* The UPDATE by hash consumes the token, whatever became of its row since it
\* was read; the token was mailed to the user who becomes active.
LEMMA VerifyKeeps ==
    ASSUME IInv, NEW w \in Workers, VerifyTxn(w)
    PROVE  IInv'
<1> DEFINE r == req[w]
<1>t. TypeOK
    BY DEF IInv, OneLiveToken
<1>1. /\ r.op = "verify_txn" /\ r.user \in Users /\ r.t \in Nat \ {0} /\ r.token \in Tokens
      /\ r.token \in mailed /\ r.user = issued[r.token].user /\ r.user \in DOMAIN users
    BY <1>t, RequestFacts DEF VerifyTxn, TypeOK, IInv, Sound, Owned
<1>2. /\ tokens' = Consume(tokens, {r.token}, r.t)
      /\ users' = [users EXCEPT ![r.user].status = "ACTIVE"]
      /\ answered' = [answered EXCEPT ![r.token] = @ + 1]
      /\ req' = [req EXCEPT ![w] = Idle]
      /\ UNCHANGED <<now, issued, mailed, sweeper>>
    BY DEF VerifyTxn, Become
<1> HIDE DEF r
<1>3. /\ tokens' \in [DOMAIN tokens -> TokenRow] /\ DOMAIN tokens' = DOMAIN tokens
      /\ \A k \in DOMAIN tokens : /\ tokens'[k].user = tokens[k].user
                                  /\ tokens'[k].consumed_at = 0 => tokens[k].consumed_at = 0
    BY <1>1, <1>2, <1>t, ConsumeFacts DEF TypeOK
<1>4. /\ users' \in [DOMAIN users -> UserRow] /\ DOMAIN users' = DOMAIN users
      /\ \A v \in DOMAIN users \ {r.user} : users'[v] = users[v]
    BY <1>1, <1>2, <1>t DEF TypeOK, UserRow
<1>5. /\ answered' \in [Tokens -> Nat] /\ answered'[r.token] > 0
      /\ \A k \in Tokens : answered'[k] >= answered[k]
    BY <1>1, <1>2, <1>t DEF TypeOK
<1>6. /\ req' \in [Workers -> Requests]
      /\ \A v \in Workers : Sound(req'[v], mailed', issued', DOMAIN users')
    BY <1>2, <1>4, <1>t, IdleSound DEF IInv, TypeOK, Sound
<1>7. TypeOK'
    BY <1>2, <1>3, <1>4, <1>5, <1>6, <1>t DEF TypeOK
<1>8. ASSUME NEW a \in DOMAIN tokens', NEW b \in DOMAIN tokens',
             tokens'[a].user = tokens'[b].user,
             tokens'[a].consumed_at = 0, tokens'[b].consumed_at = 0
      PROVE  a = b
    <2>1. a \in DOMAIN tokens /\ b \in DOMAIN tokens
        BY <1>3
    <2>2. tokens[a].user = tokens[b].user /\ tokens[a].consumed_at = 0
          /\ tokens[b].consumed_at = 0
        <3>1. tokens'[a].user = tokens[a].user
            BY <1>3, <2>1
        <3>2. tokens'[b].user = tokens[b].user
            BY <1>3, <2>1
        <3>3. tokens[a].user = tokens[b].user
            BY <1>8, <3>1, <3>2
        <3>4. tokens[a].consumed_at = 0 /\ tokens[b].consumed_at = 0
            BY <1>3, <1>8, <2>1
        <3>5. QED
            BY <3>3, <3>4
    <2>3. QED
        BY <2>1, <2>2 DEF IInv, OneLiveToken
<1>9. Owned'
    <2>1. \A k \in DOMAIN issued' : issued'[k].user \in DOMAIN users'
        BY <1>2, <1>4 DEF IInv, Owned
    <2>2. ASSUME NEW k \in DOMAIN tokens'
          PROVE  tokens'[k].user = issued'[k].user
        BY <1>2, <1>3, Zenon DEF IInv, Owned
    <2>3. QED
        BY <2>1, <2>2 DEF Owned
<1>10. ActiveProved'
    <2>1. ASSUME NEW u \in DOMAIN users', users'[u].status = "ACTIVE", u # r.user
          PROVE  \E tk \in mailed' : issued'[tk].user = u /\ answered'[tk] > 0
        <3>1. PICK tk \in mailed : issued[tk].user = u /\ answered[tk] > 0
            BY <2>1, <1>4 DEF IInv, ActiveProved
        <3>2. tk \in Tokens
            BY <1>t DEF TypeOK
        <3>3. QED
            BY <1>2, <1>5, <1>t, <3>1, <3>2 DEF TypeOK
    <2>2. QED
        BY <2>1, <1>1, <1>2, <1>5 DEF ActiveProved
<1>11. QED
    BY <1>6, <1>7, <1>8, <1>9, <1>10 DEF IInv, OneLiveToken

LEMMA MailKeeps ==
    ASSUME IInv, NEW w \in Workers, Mail(w)
    PROVE  IInv'
<1>t. TypeOK
    BY DEF IInv, OneLiveToken
<1>1. /\ UNCHANGED <<now, users, tokens, issued, answered, sweeper>>
      /\ req' = [req EXCEPT ![w] = Idle]
      /\ mailed \subseteq mailed' /\ mailed' \subseteq DOMAIN issued
    BY <1>t DEF Mail, Become, db, IInv, Sound, TypeOK
<1>2. ASSUME NEW v \in Workers
      PROVE  Sound(req'[v], mailed', issued', DOMAIN users')
    <2>1. Sound(req[v], mailed', issued', DOMAIN users')
        <3>1. Sound(req[v], mailed, issued, DOMAIN users) /\ mailed \subseteq DOMAIN issued
            BY <1>t DEF IInv, TypeOK
        <3>2. QED
            BY <1>1, <3>1, SoundStays
    <2>2. QED
        BY <1>1, <1>t, <2>1, IdleSound DEF TypeOK
<1>3. req' \in [Workers -> Requests]
    BY <1>1, <1>t DEF TypeOK, Requests
<1>4. OneLiveToken'
    BY <1>1, <1>3, <1>t DEF IInv, OneLiveToken, TypeOK
<1>5. Owned' /\ ActiveProved'
    BY <1>1 DEF IInv, Owned, ActiveProved
<1>6. QED
    BY <1>2, <1>4, <1>5 DEF IInv

\* A sweep removes rows and forgets no history.
LEMMA SweepKeeps ==
    ASSUME IInv, SweepTokens
    PROVE  IInv'
<1>t. TypeOK
    BY DEF IInv, OneLiveToken
<1>1. PICK B \in SUBSET Stale : tokens' = Restrict(tokens, DOMAIN tokens \ B)
    BY DEF SweepTokens
<1>2. UNCHANGED <<now, users, issued, mailed, answered, req>> /\ sweeper' \in Nat
    BY <1>t DEF SweepTokens, TypeOK
<1>3. /\ DOMAIN tokens' \subseteq DOMAIN tokens
      /\ tokens' \in [DOMAIN tokens' -> TokenRow]
      /\ \A k \in DOMAIN tokens' : tokens'[k] = tokens[k]
    BY <1>1, <1>t DEF Restrict, TypeOK
<1>4. OneLiveToken'
    BY <1>2, <1>3, <1>t DEF IInv, OneLiveToken, TypeOK
<1>5. Owned' /\ ActiveProved'
    BY <1>2, <1>3 DEF IInv, Owned, ActiveProved
<1>6. QED
    BY <1>2, <1>4, <1>5 DEF IInv

LEMMA NextIInv == IInv /\ [Next]_vars => IInv'
<1> SUFFICES ASSUME IInv, [Next]_vars
             PROVE  IInv'
    OBVIOUS
<1>1. CASE UNCHANGED vars
    BY <1>1 DEF vars, db, IInv, OneLiveToken, TypeOK, Owned, ActiveProved
<1>2. ASSUME NEW w \in Workers, Handle(w)
      PROVE  IInv'
    BY <1>2, ReadsKeep, RegisterKeeps, VerifyKeeps, ResendKeeps, MailKeeps DEF Handle
<1>3. CASE SweepStart \/ Tick
    BY <1>3 DEF SweepStart, Tick, db, IInv, OneLiveToken, TypeOK, Owned, ActiveProved
<1>4. CASE SweepTokens
    BY <1>4, SweepKeeps
<1>5. CASE Crash
    <2>1. UNCHANGED <<now, users, tokens, issued, mailed, answered>> /\ sweeper' = 0
          /\ req' = [w \in Workers |-> Idle]
        BY <1>5 DEF Crash, db
    <2>2. /\ req' \in [Workers -> Requests]
          /\ \A w \in Workers : Sound(req'[w], mailed', issued', DOMAIN users')
        BY <2>1, IdleSound DEF Requests
    <2>3. QED
        BY <2>1, <2>2 DEF IInv, OneLiveToken, TypeOK, Owned, ActiveProved
<1>6. QED
    BY <1>1, <1>2, <1>3, <1>4, <1>5 DEF Next

LEMMA VerificationInvariant == Spec => []IInv
BY InitIInv, NextIInv, PTL DEF Spec

\* However registrations, resends, verifications, sweeps and crashes of any
\* number of workers interleave, a user has one live token at most: each
\* resend invalidates inside the transaction that inserts.
THEOREM VerificationOneLiveToken == Spec => []OneLiveToken
<1>1. IInv => OneLiveToken
    BY DEF IInv
<1>2. QED
    BY <1>1, VerificationInvariant, PTL

\* verify checks the token before its transaction and updates without a
\* condition; an account is nevertheless active only through a token that was
\* mailed for that very account.
THEOREM VerificationActiveProved == Spec => []ActiveProved
<1>1. IInv => ActiveProved
    BY DEF IInv
<1>2. QED
    BY <1>1, VerificationInvariant, PTL
=============================================================================
