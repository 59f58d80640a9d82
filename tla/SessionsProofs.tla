--------------------------- MODULE SessionsProofs ---------------------------
(***************************************************************************)
(* Proofs about Sessions, for every set of workers, users, passwords,      *)
(* families and tokens and all values of the time constants.               *)
(***************************************************************************)
EXTENDS Sessions, TLAPS

\* The revoking UPDATE touches revoked_at only, and only where it was NULL.
LEMMA RevokeFacts ==
    ASSUME NEW rows, NEW t \in Nat,
           session_families \in [DOMAIN session_families -> FamilyRow]
    PROVE  LET new == Revoke(rows, t)
           IN  /\ new \in [DOMAIN session_families -> FamilyRow]
               /\ DOMAIN new = DOMAIN session_families
               /\ \A f \in DOMAIN session_families :
                     /\ new[f].absolute_exp = session_families[f].absolute_exp
                     /\ new[f].user = session_families[f].user
                     /\ session_families[f].revoked_at # 0 =>
                           new[f] = session_families[f]
  BY DEF Revoke, FamilyRow, Time

\* Claiming a token touches its consumed mark only.
LEMMA ConsumeFacts ==
    ASSUME NEW tk \in DOMAIN refresh_tokens,
           refresh_tokens \in [DOMAIN refresh_tokens -> TokenRow]
    PROVE  LET new == Consume(tk)
           IN  /\ new \in [DOMAIN refresh_tokens -> TokenRow]
               /\ DOMAIN new = DOMAIN refresh_tokens
               /\ new[tk].consumed
               /\ \A k \in DOMAIN refresh_tokens :
                     /\ k # tk => new[k] = refresh_tokens[k]
                     /\ new[k].family = refresh_tokens[k].family
                     /\ new[k].generation = refresh_tokens[k].generation
                     /\ new[k].idle_exp = refresh_tokens[k].idle_exp
  BY DEF Consume, TokenRow

\* What the kind of a request says of its arguments.
LEMMA RequestFacts ==
    ASSUME NEW r \in Requests
    PROVE  /\ r.op \in {"login_read", "login_txn"} =>
                 r \in [op : {"login_read", "login_txn"}, user : Users,
                        pw : Passwords, t : Time]
           /\ r.op = "refresh_txn" =>
                 r \in [op : {"refresh_txn"}, token : Tokens, t : Time]
           /\ r.op = "logout_token" =>
                 r \in [op : {"logout_token"}, user : Users, token : Tokens,
                        t : Time]
           /\ r.op \in {"logout_family", "logout_txn"} =>
                 r \in [op : {"logout_family", "logout_txn"}, user : Users,
                        family : Families, t : Time]
           /\ r.op \in {"password_read", "password_txn"} =>
                 r \in [op : {"password_read", "password_txn"}, user : Users,
                        family : Families, pw : Passwords, new : Passwords,
                        t : Time]
           /\ r.op = "respond" =>
                 r \in [op : {"respond"}, user : Users, family : Families,
                        token : Tokens, t : Time]
  BY DEF Requests, Idle

\* Every step keeps the declared shape of all tables, requests and ids.
LEMMA TypeOKStep == TypeOK /\ [Next]_vars => TypeOK'
  <1> SUFFICES ASSUME TypeOK, [Next]_vars
               PROVE  TypeOK'
    OBVIOUS
  <1> USE ConstantsAssumption DEF tables, ids, clients, Time
  <1>1. ASSUME NEW w \in Workers, Arrive(w)
        PROVE  TypeOK'
    <2>1. CASE LoginArrive(w)
      BY <2>1 DEF LoginArrive, TypeOK, Become, Requests
    <2>2. CASE RefreshArrive(w)
      BY <2>2 DEF RefreshArrive, TypeOK, Become, Requests
    <2>3. CASE LogoutArrive(w)
      BY <2>3 DEF LogoutArrive, Bearers, Claims, TypeOK, Become, Requests
    <2>4. CASE PasswordArrive(w)
      BY <2>4 DEF PasswordArrive, Bearers, Claims, TypeOK, Become, Requests
    <2> QED
      BY <1>1, <2>1, <2>2, <2>3, <2>4 DEF Arrive
  <1>2. ASSUME NEW w \in Workers, Request(w)
        PROVE  TypeOK'
    <2> DEFINE r == req[w]
    <2>0. r \in Requests
      BY DEF TypeOK
    <2>1. CASE LoginRead(w)
      <3>1. r \in [op : {"login_read", "login_txn"}, user : Users,
                   pw : Passwords, t : Time]
        BY <2>0, <2>1, RequestFacts DEF LoginRead
      <3>2. [r EXCEPT !.op = "login_txn"] \in Requests /\ Idle \in Requests
        BY <3>1 DEF Requests
      <3> QED
        BY <2>1, <3>2 DEF LoginRead, TypeOK, Become
    <2>2. CASE LoginTxn(w)
      <3>1. r \in [op : {"login_read", "login_txn"}, user : Users,
                   pw : Passwords, t : Time]
        BY <2>0, <2>2, RequestFacts DEF LoginTxn
      <3>2. PICK f \in Families \ usedFamilies, tk \in Tokens \ usedTokens :
               /\ CreateSession(f, tk, r)
               /\ Become(w, [op |-> "respond", user |-> r.user, family |-> f,
                             token |-> tk, t |-> r.t])
        BY <2>2 DEF LoginTxn
      <3>3. NewFamily(r.user, r.pw, r.t) \in FamilyRow
        BY <3>1 DEF NewFamily, FamilyRow
      <3>4. NewToken(f, 1, r.t) \in TokenRow
        BY <3>1 DEF NewToken, TokenRow
      <3>5. /\ session_families' \in [DOMAIN session_families' -> FamilyRow]
            /\ DOMAIN session_families' = DOMAIN session_families \cup {f}
        BY <3>2, <3>3 DEF CreateSession, InsertRow, TypeOK
      <3>6. /\ refresh_tokens' \in [DOMAIN refresh_tokens' -> TokenRow]
            /\ DOMAIN refresh_tokens' = DOMAIN refresh_tokens \cup {tk}
        BY <3>2, <3>4 DEF CreateSession, InsertRow, TypeOK
      <3>7. req' \in [Workers -> Requests]
        BY <3>1, <3>2 DEF Become, TypeOK, Requests
      <3> QED
        BY <2>2, <3>2, <3>5, <3>6, <3>7 DEF LoginTxn, CreateSession, TypeOK
    <2>3. CASE Respond(w)
      <3>1. r \in [op : {"respond"}, user : Users, family : Families,
                   token : Tokens, t : Time]
        BY <2>0, <2>3, RequestFacts DEF Respond
      <3> QED
        BY <2>3, <3>1 DEF Respond, TypeOK, Become, Requests, Claims
    <2>4. CASE RefreshUnknown(w) \/ Fail(w)
      BY <2>4 DEF RefreshUnknown, Fail, TypeOK, Become, Requests
    <2>5. CASE RefreshReuse(w)
      <3> DEFINE f == refresh_tokens[r.token].family
      <3>1. r \in [op : {"refresh_txn"}, token : Tokens, t : Time]
        BY <2>0, <2>5, RequestFacts DEF RefreshReuse
      <3>2. f \in Families
        BY <2>5 DEF RefreshReuse, Known, GetToken, TypeOK, TokenRow
      <3>3. /\ session_families' \in [DOMAIN session_families -> FamilyRow]
            /\ DOMAIN session_families' = DOMAIN session_families
        BY <2>5, <3>1, RevokeFacts DEF RefreshReuse, TypeOK
      <3> QED
        BY <2>5, <3>2, <3>3 DEF RefreshReuse, TypeOK, Become, Requests
    <2>6. CASE RefreshDead(w)
      <3>1. /\ refresh_tokens' \in [DOMAIN refresh_tokens -> TokenRow]
            /\ DOMAIN refresh_tokens' = DOMAIN refresh_tokens
        BY <2>6, ConsumeFacts DEF RefreshDead, Known, GetToken, TypeOK
      <3> QED
        BY <2>6, <3>1 DEF RefreshDead, TypeOK, Become, Requests
    <2>7. CASE RefreshRotate(w)
      <3> DEFINE tk == r.token
                 f  == refresh_tokens[tk].family
      <3>1. r \in [op : {"refresh_txn"}, token : Tokens, t : Time]
        BY <2>0, <2>7, RequestFacts DEF RefreshRotate
      <3>2. tk \in DOMAIN refresh_tokens /\ refresh_tokens[tk] \in TokenRow
        BY <2>7 DEF RefreshRotate, Known, GetToken, TypeOK
      <3>3. f \in Families /\ session_families[f].user \in Users
        BY <2>7, <3>2
        DEF RefreshRotate, Known, GetFamily, TypeOK, TokenRow, FamilyRow
      <3>4. PICK new \in Tokens \ usedTokens :
               /\ refresh_tokens' =
                     InsertRow(Consume(tk), new,
                               Successor(refresh_tokens[tk], r.t))
               /\ usedTokens' = usedTokens \cup {new}
               /\ Become(w, [op |-> "respond",
                             user |-> session_families[f].user,
                             family |-> f, token |-> new, t |-> r.t])
        BY <2>7 DEF RefreshRotate
      <3>5. Successor(refresh_tokens[tk], r.t) \in TokenRow
        BY <3>1, <3>2 DEF Successor, NewToken, TokenRow
      <3>6. /\ Consume(tk) \in [DOMAIN Consume(tk) -> TokenRow]
            /\ DOMAIN Consume(tk) = DOMAIN refresh_tokens
        BY <3>2, ConsumeFacts DEF TypeOK
      <3>7. /\ refresh_tokens' \in [DOMAIN refresh_tokens' -> TokenRow]
            /\ DOMAIN refresh_tokens' = DOMAIN refresh_tokens \cup {new}
        BY <3>4, <3>5, <3>6 DEF InsertRow
      <3>8. req' \in [Workers -> Requests]
        BY <3>1, <3>3, <3>4 DEF Become, TypeOK, Requests
      <3> QED
        BY <2>7, <3>4, <3>7, <3>8 DEF RefreshRotate, TypeOK
    <2>8. CASE LogoutReadToken(w)
      <3>1. r \in [op : {"logout_token"}, user : Users, token : Tokens,
                   t : Time]
        BY <2>0, <2>8, RequestFacts DEF LogoutReadToken
      <3>2. GetToken(r.token) => refresh_tokens[r.token].family \in Families
        BY DEF GetToken, TypeOK, TokenRow
      <3> QED
        BY <2>8, <3>1, <3>2 DEF LogoutReadToken, TypeOK, Become, Requests
    <2>9. CASE LogoutReadFamily(w)
      <3>1. r \in [op : {"logout_family", "logout_txn"}, user : Users,
                   family : Families, t : Time]
        BY <2>0, <2>9, RequestFacts DEF LogoutReadFamily
      <3>2. [r EXCEPT !.op = "logout_txn"] \in Requests /\ Idle \in Requests
        BY <3>1 DEF Requests
      <3> QED
        BY <2>9, <3>2 DEF LogoutReadFamily, TypeOK, Become
    <2>10. CASE LogoutTxn(w)
      <3>1. r \in [op : {"logout_family", "logout_txn"}, user : Users,
                   family : Families, t : Time]
        BY <2>0, <2>10, RequestFacts DEF LogoutTxn
      <3>2. /\ session_families' \in [DOMAIN session_families -> FamilyRow]
            /\ DOMAIN session_families' = DOMAIN session_families
        BY <2>10, <3>1, RevokeFacts DEF LogoutTxn, TypeOK
      <3> QED
        BY <2>10, <3>1, <3>2 DEF LogoutTxn, TypeOK, Become, Requests
    <2>11. CASE PasswordRead(w)
      <3>1. r \in [op : {"password_read", "password_txn"}, user : Users,
                   family : Families, pw : Passwords, new : Passwords,
                   t : Time]
        BY <2>0, <2>11, RequestFacts DEF PasswordRead
      <3>2. [r EXCEPT !.op = "password_txn"] \in Requests /\ Idle \in Requests
        BY <3>1 DEF Requests
      <3> QED
        BY <2>11, <3>2 DEF PasswordRead, TypeOK, Become
    <2>12. CASE PasswordTxn(w)
      <3> DEFINE revoked == Revoke(OtherFamilies(r.user, r.family), r.t)
      <3>1. r \in [op : {"password_read", "password_txn"}, user : Users,
                   family : Families, pw : Passwords, new : Passwords,
                   t : Time]
        BY <2>0, <2>12, RequestFacts DEF PasswordTxn
      <3>2. /\ revoked \in [DOMAIN session_families -> FamilyRow]
            /\ DOMAIN revoked = DOMAIN session_families
        BY <3>1, RevokeFacts DEF TypeOK
      <3>3. \A f \in DOMAIN revoked :
               [revoked[f] EXCEPT !.pw = r.new] \in FamilyRow
        BY <3>1, <3>2 DEF FamilyRow
      <3>4. /\ session_families' \in [DOMAIN session_families -> FamilyRow]
            /\ DOMAIN session_families' = DOMAIN session_families
        BY <2>12, <3>2, <3>3 DEF PasswordTxn
      <3> QED
        BY <2>12, <3>1, <3>4 DEF PasswordTxn, TypeOK, Become, Requests
    <2> QED
      BY <1>2, <2>1, <2>2, <2>3, <2>4, <2>5, <2>6, <2>7, <2>8, <2>9, <2>10,
         <2>11, <2>12 DEF Request
  <1>3. CASE Sweep
    <2>1. CASE SweepStart \/ SweepFails
      BY <2>1 DEF SweepStart, SweepFails, Sweeps, Asleep, TypeOK
    <2>2. CASE SweepTokens
      <3>1. PICK B : /\ refresh_tokens' = DeleteRows(refresh_tokens, B)
                     /\ Resume(B, [sweeper EXCEPT !.pc = "families"])
        BY <2>2 DEF SweepTokens
      <3>2. /\ refresh_tokens' \in [DOMAIN refresh_tokens' -> TokenRow]
            /\ DOMAIN refresh_tokens' \subseteq DOMAIN refresh_tokens
        BY <3>1 DEF TypeOK, DeleteRows, Restrict
      <3>3. sweeper' \in Sweeps
        BY <2>2, <3>1 DEF SweepTokens, Resume, Sweeps, Asleep, TypeOK
      <3> QED
        BY <2>2, <3>2, <3>3 DEF SweepTokens, TypeOK
    <2>3. CASE SweepFamilies
      <3>1. PICK B : /\ session_families' = DeleteRows(session_families, B)
                     /\ refresh_tokens' = Cascade(B)
                     /\ Resume(B, Asleep)
        BY <2>3 DEF SweepFamilies
      <3>2. /\ session_families' \in [DOMAIN session_families' -> FamilyRow]
            /\ DOMAIN session_families' \subseteq DOMAIN session_families
        BY <3>1 DEF TypeOK, DeleteRows, Restrict
      <3>3. /\ refresh_tokens' \in [DOMAIN refresh_tokens' -> TokenRow]
            /\ DOMAIN refresh_tokens' \subseteq DOMAIN refresh_tokens
        BY <3>1 DEF TypeOK, Cascade, DeleteRows, Restrict
      <3>4. sweeper' \in Sweeps
        BY <3>1 DEF Resume, Sweeps, TypeOK
      <3> QED
        BY <2>3, <3>2, <3>3, <3>4 DEF SweepFamilies, TypeOK
    <2> QED
      BY <1>3, <2>1, <2>2, <2>3 DEF Sweep
  <1>4. CASE Tick
    BY <1>4 DEF Tick, TypeOK
  <1>5. CASE Crash
    BY <1>5 DEF Crash, TypeOK, Requests, Sweeps
  <1>6. CASE UNCHANGED vars
    BY <1>6 DEF vars, TypeOK
  <1> QED
    BY <1>1, <1>2, <1>3, <1>4, <1>5, <1>6 DEF Next

\* Spec keeps the type invariant.
THEOREM SessionsTypeOK == Spec => []TypeOK
  <1>1. Init => TypeOK
    BY DEF Init, TypeOK, EmptyTable, Requests, Sweeps, FamilyRow, TokenRow
  <1> QED
    BY <1>1, TypeOKStep, PTL DEF Spec
-----------------------------------------------------------------------------
(***************************************************************************)
(* The steps that touch a token or add or delete a row are five.  All      *)
(* others leave the tokens alone and at most revoke families.              *)
(***************************************************************************)
Quiet ==
    /\ UNCHANGED <<refresh_tokens, usedFamilies, usedTokens>>
    /\ DOMAIN session_families' = DOMAIN session_families
    /\ \A f \in DOMAIN session_families :
          /\ session_families'[f].absolute_exp
                = session_families[f].absolute_exp
          /\ session_families[f].revoked_at # 0 =>
                session_families'[f].revoked_at
                   = session_families[f].revoked_at

Writes ==
    \/ \E w \in Workers : LoginTxn(w) \/ RefreshDead(w) \/ RefreshRotate(w)
    \/ SweepTokens
    \/ SweepFamilies

\* Every step is quiet or one of the five writes.
LEMMA StepKinds ==
    ASSUME TypeOK, [Next]_vars
    PROVE  Quiet \/ Writes
  <1> USE DEF tables, ids, clients, Quiet
  <1>1. CASE \E w \in Workers : Arrive(w)
    BY <1>1 DEF Arrive, LoginArrive, RefreshArrive, LogoutArrive,
                PasswordArrive
  <1>2. ASSUME NEW w \in Workers, Request(w)
        PROVE  Quiet \/ Writes
    <2> DEFINE r == req[w]
    <2>0. r \in Requests
      BY DEF TypeOK
    <2>1. CASE \/ LoginRead(w) \/ Respond(w) \/ RefreshUnknown(w)
               \/ LogoutReadToken(w) \/ LogoutReadFamily(w)
               \/ PasswordRead(w) \/ Fail(w)
      BY <2>1 DEF LoginRead, Respond, RefreshUnknown, LogoutReadToken,
                  LogoutReadFamily, PasswordRead, Fail
    <2>2. CASE LoginTxn(w) \/ RefreshDead(w) \/ RefreshRotate(w)
      BY <2>2 DEF Writes
    <2>3. CASE RefreshReuse(w)
      <3>1. r.t \in Nat
        BY <2>0, <2>3, RequestFacts DEF RefreshReuse, Time
      <3> QED
        BY <2>3, <3>1, RevokeFacts DEF RefreshReuse, TypeOK
    <2>4. CASE LogoutTxn(w)
      <3>1. r.t \in Nat
        BY <2>0, <2>4, RequestFacts DEF LogoutTxn, Time
      <3> QED
        BY <2>4, <3>1, RevokeFacts DEF LogoutTxn, TypeOK
    <2>5. CASE PasswordTxn(w)
      <3> DEFINE revoked == Revoke(OtherFamilies(r.user, r.family), r.t)
      <3>1. r.t \in Nat
        BY <2>0, <2>5, RequestFacts DEF PasswordTxn, Time
      <3>2. /\ revoked \in [DOMAIN session_families -> FamilyRow]
            /\ DOMAIN revoked = DOMAIN session_families
            /\ \A f \in DOMAIN session_families :
                  /\ revoked[f].absolute_exp = session_families[f].absolute_exp
                  /\ session_families[f].revoked_at # 0 =>
                        revoked[f] = session_families[f]
        BY <3>1, RevokeFacts DEF TypeOK
      <3>3. \A f \in DOMAIN revoked : \A p :
               LET q == [revoked[f] EXCEPT !.pw = p]
               IN  /\ q.absolute_exp = revoked[f].absolute_exp
                   /\ q.revoked_at = revoked[f].revoked_at
        BY <3>2 DEF FamilyRow
      <3> QED
        BY <2>5, <3>2, <3>3 DEF PasswordTxn
    <2> QED
      BY <1>2, <2>1, <2>2, <2>3, <2>4, <2>5 DEF Request
  <1>3. CASE Sweep
    BY <1>3 DEF Sweep, SweepStart, SweepFails, Writes
  <1>4. CASE Tick \/ Crash
    BY <1>4 DEF Tick, Crash
  <1>5. CASE UNCHANGED vars
    BY <1>5 DEF vars
  <1> QED
    BY <1>1, <1>2, <1>3, <1>4, <1>5 DEF Next

\* The inductive invariant behind the session theorems: the shape of the
\* tables, no orphaned token, one chain of tokens per family, and the cap.
IInv == TypeOK /\ ReferentialIntegrity /\ TokenChain /\ AbsoluteCap

\* A quiet step cannot break it.
LEMMA QuietKeeps ==
    ASSUME IInv, TypeOK', Quiet
    PROVE  IInv'
  <1>1. ReferentialIntegrity'
    BY DEF IInv, Quiet, ReferentialIntegrity
  <1>2. TokenChain'
    BY DEF IInv, Quiet, TokenChain
  <1>3. AbsoluteCap'
    BY DEF IInv, Quiet, AbsoluteCap
  <1> QED
    BY <1>1, <1>2, <1>3 DEF IInv

\* A login starts a chain of its own: no row can mention the fresh family.
LEMMA LoginKeeps ==
    ASSUME IInv, TypeOK', NEW w \in Workers, LoginTxn(w)
    PROVE  IInv'
  <1> DEFINE r == req[w]
  <1>0. r.t \in Nat
    BY RequestFacts DEF IInv, TypeOK, LoginTxn, Time
  <1>1. PICK f \in Families \ usedFamilies, tk \in Tokens \ usedTokens :
           CreateSession(f, tk, r)
    BY DEF LoginTxn
  <1>2. /\ f \notin DOMAIN session_families
        /\ tk \notin DOMAIN refresh_tokens
        /\ \A k \in DOMAIN refresh_tokens : refresh_tokens[k].family # f
    BY <1>1 DEF IInv, TypeOK, ReferentialIntegrity
  <1>3. /\ DOMAIN session_families' = DOMAIN session_families \cup {f}
        /\ session_families'[f].absolute_exp = r.t + AbsoluteTTL
        /\ \A g \in DOMAIN session_families :
              session_families'[g] = session_families[g]
    BY <1>1, <1>2 DEF CreateSession, InsertRow, NewFamily
  <1>4. /\ DOMAIN refresh_tokens' = DOMAIN refresh_tokens \cup {tk}
        /\ refresh_tokens'[tk] = NewToken(f, 1, r.t)
        /\ \A k \in DOMAIN refresh_tokens :
              refresh_tokens'[k] = refresh_tokens[k]
    BY <1>1, <1>2 DEF CreateSession, InsertRow
  <1>5. ReferentialIntegrity'
    BY <1>3, <1>4 DEF IInv, ReferentialIntegrity, NewToken
  <1>6. TokenChain'
    BY <1>2, <1>4 DEF IInv, TokenChain, NewToken
  <1>7. AbsoluteCap'
    <2> SUFFICES ASSUME NEW k \in DOMAIN refresh_tokens'
                 PROVE  refresh_tokens'[k].idle_exp
                           <= session_families'[refresh_tokens'[k].family].absolute_exp
                                 + IdleTTL
      BY DEF AbsoluteCap
    <2>1. CASE k = tk
      BY <1>0, <1>3, <1>4, <2>1, ConstantsAssumption DEF NewToken
    <2>2. CASE k # tk
      BY <1>2, <1>3, <1>4, <2>2 DEF IInv, ReferentialIntegrity, AbsoluteCap
    <2> QED
      BY <2>1, <2>2
  <1> QED
    BY <1>5, <1>6, <1>7 DEF IInv

\* Spending a token without replacing it leaves the chain in order.
LEMMA DeadKeeps ==
    ASSUME IInv, TypeOK', NEW w \in Workers, RefreshDead(w)
    PROVE  IInv'
  <1> DEFINE tk == req[w].token
  <1>1. /\ tk \in DOMAIN refresh_tokens
        /\ refresh_tokens' = Consume(tk)
        /\ UNCHANGED session_families
    BY DEF RefreshDead, Known, GetToken
  <1>2. /\ DOMAIN refresh_tokens' = DOMAIN refresh_tokens
        /\ refresh_tokens'[tk].consumed
        /\ \A k \in DOMAIN refresh_tokens :
              /\ k # tk => refresh_tokens'[k] = refresh_tokens[k]
              /\ refresh_tokens'[k].family = refresh_tokens[k].family
              /\ refresh_tokens'[k].generation = refresh_tokens[k].generation
              /\ refresh_tokens'[k].idle_exp = refresh_tokens[k].idle_exp
    BY <1>1, ConsumeFacts DEF IInv, TypeOK
  <1>3. ReferentialIntegrity'
    BY <1>1, <1>2 DEF IInv, ReferentialIntegrity
  <1>4. TokenChain'
    BY <1>2 DEF IInv, TokenChain
  <1>5. AbsoluteCap'
    BY <1>1, <1>2 DEF IInv, AbsoluteCap
  <1> QED
    BY <1>3, <1>4, <1>5 DEF IInv

\* What a rotation does to the token table: tk, presented at time t, was the
\* family's one spendable token, and new takes its place.
Rotated(tk, t, new) ==
    LET f == refresh_tokens[tk].family
    IN  /\ t \in Nat
        /\ tk \in DOMAIN refresh_tokens
        /\ f \in DOMAIN session_families
        /\ f \in Families
        /\ tk \in Tokens
        /\ ~refresh_tokens[tk].consumed
        /\ session_families[f].revoked_at = 0
        /\ session_families[f].absolute_exp >= t
        /\ usedTokens' = usedTokens \cup {new}
        /\ UNCHANGED <<session_families, usedFamilies>>
        /\ new \notin DOMAIN refresh_tokens
        /\ DOMAIN refresh_tokens' = DOMAIN refresh_tokens \cup {new}
        /\ refresh_tokens'[new].family = f
        /\ refresh_tokens'[new].generation = refresh_tokens[tk].generation + 1
        /\ refresh_tokens'[new].idle_exp = t + IdleTTL
        /\ ~refresh_tokens'[new].consumed
        /\ refresh_tokens'[tk].consumed
        /\ \A k \in DOMAIN refresh_tokens :
              /\ k # tk => refresh_tokens'[k] = refresh_tokens[k]
              /\ refresh_tokens'[k].family = refresh_tokens[k].family
              /\ refresh_tokens'[k].generation = refresh_tokens[k].generation
              /\ refresh_tokens'[k].idle_exp = refresh_tokens[k].idle_exp

LEMMA RotateFacts ==
    ASSUME TypeOK, NEW w \in Workers, RefreshRotate(w)
    PROVE  \E new \in Tokens \ usedTokens :
              Rotated(req[w].token, req[w].t, new)
  <1> DEFINE tk == req[w].token
             f  == refresh_tokens[tk].family
  <1>1. req[w].t \in Nat
    BY RequestFacts DEF TypeOK, RefreshRotate, Time
  <1>2. /\ tk \in DOMAIN refresh_tokens
        /\ f \in DOMAIN session_families
        /\ ~refresh_tokens[tk].consumed
        /\ session_families[f].revoked_at = 0
        /\ session_families[f].absolute_exp >= req[w].t
        /\ UNCHANGED <<session_families, usedFamilies>>
    BY DEF RefreshRotate, Known, GetToken, GetFamily, Rotatable
  <1>3. PICK new \in Tokens \ usedTokens :
           /\ refresh_tokens' =
                 InsertRow(Consume(tk), new,
                           Successor(refresh_tokens[tk], req[w].t))
           /\ usedTokens' = usedTokens \cup {new}
    BY DEF RefreshRotate
  <1>4. /\ DOMAIN Consume(tk) = DOMAIN refresh_tokens
        /\ Consume(tk)[tk].consumed
        /\ \A k \in DOMAIN refresh_tokens :
              /\ k # tk => Consume(tk)[k] = refresh_tokens[k]
              /\ Consume(tk)[k].family = refresh_tokens[k].family
              /\ Consume(tk)[k].generation = refresh_tokens[k].generation
              /\ Consume(tk)[k].idle_exp = refresh_tokens[k].idle_exp
    BY <1>2, ConsumeFacts DEF TypeOK
  <1>5. /\ new \notin DOMAIN refresh_tokens
        /\ f \in Families
        /\ tk \in Tokens
    BY <1>2, <1>3 DEF TypeOK
  <1>6. /\ DOMAIN refresh_tokens' = DOMAIN refresh_tokens \cup {new}
        /\ refresh_tokens'[new] = Successor(refresh_tokens[tk], req[w].t)
        /\ \A k \in DOMAIN refresh_tokens :
              refresh_tokens'[k] = Consume(tk)[k]
    BY <1>3, <1>4, <1>5 DEF InsertRow
  <1>7. /\ refresh_tokens'[new].family = f
        /\ refresh_tokens'[new].generation = refresh_tokens[tk].generation + 1
        /\ refresh_tokens'[new].idle_exp = req[w].t + IdleTTL
        /\ ~refresh_tokens'[new].consumed
    BY <1>6 DEF Successor, NewToken
  <1>8. /\ refresh_tokens'[tk].consumed
        /\ \A k \in DOMAIN refresh_tokens :
              /\ k # tk => refresh_tokens'[k] = refresh_tokens[k]
              /\ refresh_tokens'[k].family = refresh_tokens[k].family
              /\ refresh_tokens'[k].generation = refresh_tokens[k].generation
              /\ refresh_tokens'[k].idle_exp = refresh_tokens[k].idle_exp
    BY <1>2, <1>4, <1>6
  <1>9. Rotated(tk, req[w].t, new)
    BY <1>1, <1>2, <1>3, <1>5, <1>6, <1>7, <1>8, Zenon DEF Rotated
  <1> QED
    BY <1>9

\* Rotation extends the chain at its head.
LEMMA RotateKeeps ==
    ASSUME IInv, TypeOK', NEW w \in Workers, RefreshRotate(w)
    PROVE  IInv'
  <1> DEFINE tk == req[w].token
             f  == refresh_tokens[tk].family
             t  == req[w].t
  <1>0. PICK new \in Tokens \ usedTokens : Rotated(tk, t, new)
    BY RotateFacts DEF IInv
  <1>1. /\ t \in Nat
        /\ tk \in DOMAIN refresh_tokens
        /\ f \in DOMAIN session_families
        /\ ~refresh_tokens[tk].consumed
        /\ session_families[f].absolute_exp >= t
        /\ UNCHANGED session_families
        /\ new \notin DOMAIN refresh_tokens
        /\ DOMAIN refresh_tokens' = DOMAIN refresh_tokens \cup {new}
        /\ refresh_tokens'[new].family = f
        /\ refresh_tokens'[new].generation = refresh_tokens[tk].generation + 1
        /\ refresh_tokens'[new].idle_exp = t + IdleTTL
        /\ ~refresh_tokens'[new].consumed
        /\ refresh_tokens'[tk].consumed
        /\ \A k \in DOMAIN refresh_tokens :
              /\ k # tk => refresh_tokens'[k] = refresh_tokens[k]
              /\ refresh_tokens'[k].family = refresh_tokens[k].family
              /\ refresh_tokens'[k].generation = refresh_tokens[k].generation
              /\ refresh_tokens'[k].idle_exp = refresh_tokens[k].idle_exp
    BY <1>0 DEF Rotated
  <1>2. ReferentialIntegrity'
    BY <1>1 DEF IInv, ReferentialIntegrity
  <1>3. \A k \in DOMAIN refresh_tokens :
           /\ refresh_tokens[k].generation \in Nat
           /\ refresh_tokens[k].family = f =>
                 refresh_tokens[k].generation <= refresh_tokens[tk].generation
           /\ refresh_tokens[k].family = f => refresh_tokens'[k].consumed
    <2>1. \A k \in DOMAIN refresh_tokens :
             refresh_tokens[k].generation \in Nat
      BY DEF IInv, TypeOK, TokenRow
    <2>2. \A k \in DOMAIN refresh_tokens :
             k # tk /\ refresh_tokens[k].family = f =>
                /\ refresh_tokens[k].generation < refresh_tokens[tk].generation
                /\ ~(refresh_tokens[tk].generation < refresh_tokens[k].generation)
                /\ refresh_tokens[k].consumed
      BY <1>1, <2>1 DEF IInv, TokenChain
    <2> QED
      BY <1>1, <2>1, <2>2
  <1>4. TokenChain'
    <2> SUFFICES ASSUME NEW a \in DOMAIN refresh_tokens',
                        NEW b \in DOMAIN refresh_tokens',
                        a # b,
                        refresh_tokens'[a].family = refresh_tokens'[b].family
                 PROVE  /\ refresh_tokens'[a].generation
                              # refresh_tokens'[b].generation
                        /\ ~refresh_tokens'[a].consumed =>
                              refresh_tokens'[b].generation
                                 < refresh_tokens'[a].generation
      BY DEF TokenChain
    <2>1. CASE a = new
      BY <1>1, <1>3, <2>1
    <2>2. CASE b = new
      BY <1>1, <1>3, <2>2
    <2>3. CASE a # new /\ b # new
      <3>1. /\ a \in DOMAIN refresh_tokens
            /\ b \in DOMAIN refresh_tokens
            /\ refresh_tokens[a].family = refresh_tokens[b].family
            /\ ~refresh_tokens'[a].consumed => ~refresh_tokens[a].consumed
        BY <1>1, <2>3
      <3> QED
        BY <1>1, <3>1 DEF IInv, TokenChain
    <2> QED
      BY <2>1, <2>2, <2>3
  <1>5. AbsoluteCap'
    <2>1. \A g \in DOMAIN session_families :
             session_families[g].absolute_exp \in Nat
      BY DEF IInv, TypeOK, FamilyRow, Time
    <2> QED
      BY <1>1, <2>1, ConstantsAssumption DEF IInv, AbsoluteCap
  <1> QED
    BY <1>2, <1>4, <1>5 DEF IInv

\* The sweep only deletes rows, and families go together with their tokens.
LEMMA SweepFacts ==
    ASSUME SweepTokens \/ SweepFamilies
    PROVE  /\ DOMAIN session_families' \subseteq DOMAIN session_families
           /\ \A f \in DOMAIN session_families' :
                 session_families'[f] = session_families[f]
           /\ DOMAIN refresh_tokens' \subseteq DOMAIN refresh_tokens
           /\ \A tk \in DOMAIN refresh_tokens' :
                 /\ refresh_tokens'[tk] = refresh_tokens[tk]
                 /\ refresh_tokens[tk].family \in DOMAIN session_families =>
                       refresh_tokens[tk].family \in DOMAIN session_families'
           /\ UNCHANGED <<usedFamilies, usedTokens>>
  <1>1. CASE SweepTokens
    BY <1>1 DEF SweepTokens, DeleteRows, Restrict, ids
  <1>2. CASE SweepFamilies
    BY <1>2 DEF SweepFamilies, Cascade, DeleteRows, Restrict, ids
  <1> QED
    BY <1>1, <1>2

LEMMA SweepKeeps ==
    ASSUME IInv, TypeOK', SweepTokens \/ SweepFamilies
    PROVE  IInv'
  <1>1. ReferentialIntegrity'
    BY SweepFacts DEF IInv, ReferentialIntegrity
  <1>2. TokenChain'
    BY SweepFacts DEF IInv, TokenChain
  <1>3. AbsoluteCap'
    BY SweepFacts DEF IInv, AbsoluteCap
  <1> QED
    BY <1>1, <1>2, <1>3 DEF IInv

LEMMA IInvStep == IInv /\ [Next]_vars => IInv'
  <1> SUFFICES ASSUME IInv, [Next]_vars
               PROVE  IInv'
    OBVIOUS
  <1>1. TypeOK /\ TypeOK'
    BY TypeOKStep DEF IInv
  <1> QED
    BY <1>1, StepKinds, QuietKeeps, LoginKeeps, DeadKeeps, RotateKeeps,
       SweepKeeps DEF Writes

\* The inductive invariant holds in every reachable state.
THEOREM SessionsInvariant == Spec => []IInv
  <1>1. Init => IInv
    BY DEF Init, IInv, TypeOK, EmptyTable, Requests, Sweeps, FamilyRow,
           TokenRow, ReferentialIntegrity, TokenChain, AbsoluteCap
  <1> QED
    BY <1>1, IInvStep, PTL DEF Spec

\* No refresh token ever outlives its family row.
THEOREM SessionsReferentialIntegrity == Spec => []ReferentialIntegrity
  BY SessionsInvariant, PTL DEF IInv

\* A family never offers two spendable tokens, and generations never repeat.
THEOREM SessionsTokenChain == Spec => []TokenChain
  BY SessionsInvariant, PTL DEF IInv

\* Rotation never carries a session past its absolute cap.
THEOREM SessionsAbsoluteCap == Spec => []AbsoluteCap
  BY SessionsInvariant, PTL DEF IInv
-----------------------------------------------------------------------------
\* No step, of whatever request or sweep, undoes a revocation or adds a token
\* to a revoked family.
THEOREM SessionsRevocationFinal == Spec => RevocationFinal
  <1>1. IInv /\ [Next]_vars => [RevocationKept]_vars
    <2> SUFFICES ASSUME IInv, [Next]_vars
                 PROVE  RevocationKept
      OBVIOUS
    <2>0. TypeOK
      BY DEF IInv
    <2>1. CASE Quiet
      BY <2>1 DEF Quiet, RevocationKept
    <2>2. ASSUME NEW w \in Workers, LoginTxn(w)
          PROVE  RevocationKept
      <3>1. PICK f \in Families \ usedFamilies, tk \in Tokens \ usedTokens :
               CreateSession(f, tk, req[w])
        BY <2>2 DEF LoginTxn
      <3>2. f \notin DOMAIN session_families
        BY <2>0, <3>1 DEF TypeOK
      <3> QED
        BY <3>1, <3>2 DEF CreateSession, InsertRow, NewToken, RevocationKept
    <2>3. ASSUME NEW w \in Workers, RefreshDead(w)
          PROVE  RevocationKept
      <3>1. /\ UNCHANGED session_families
            /\ DOMAIN refresh_tokens' = DOMAIN refresh_tokens
        BY <2>0, <2>3, ConsumeFacts DEF RefreshDead, Known, GetToken, TypeOK
      <3> QED
        BY <3>1 DEF RevocationKept
    <2>4. ASSUME NEW w \in Workers, RefreshRotate(w)
          PROVE  RevocationKept
      <3>1. PICK new \in Tokens \ usedTokens :
               Rotated(req[w].token, req[w].t, new)
        BY <2>0, <2>4, RotateFacts
      <3>2. /\ UNCHANGED session_families
            /\ DOMAIN refresh_tokens' = DOMAIN refresh_tokens \cup {new}
            /\ session_families[refresh_tokens'[new].family].revoked_at = 0
        BY <3>1 DEF Rotated
      <3> QED
        BY <3>2 DEF RevocationKept
    <2>5. CASE SweepTokens \/ SweepFamilies
      BY <2>5, SweepFacts DEF RevocationKept
    <2> QED
      BY <2>0, <2>1, <2>2, <2>3, <2>4, <2>5, StepKinds DEF Writes
  <1> QED
    BY <1>1, SessionsInvariant, PTL DEF Spec, RevocationFinal
-----------------------------------------------------------------------------
(***************************************************************************)
(* The refinement.  Login opens, rotation rotates; every other step can    *)
(* only take a family's one token away, which is End.                      *)
(***************************************************************************)
\* A family offers at most one token.
LEMMA LiveAtMostOne ==
    ASSUME IInv, NEW f \in Families, NEW a \in Live(f), NEW b \in Live(f)
    PROVE  a = b
  <1>1. /\ a \in DOMAIN refresh_tokens /\ b \in DOMAIN refresh_tokens
        /\ ~refresh_tokens[a].consumed /\ ~refresh_tokens[b].consumed
        /\ refresh_tokens[a].family = refresh_tokens[b].family
        /\ refresh_tokens[a].generation \in Nat
        /\ refresh_tokens[b].generation \in Nat
    BY DEF Live, IInv, TypeOK, TokenRow
  <1> QED
    BY <1>1 DEF IInv, TokenChain

\* A step that issues nothing and only takes tokens away is End.
LEMMA ShrinkEnds ==
    ASSUME IInv, UNCHANGED <<usedFamilies, usedTokens>>,
           \A f \in Families : Live(f)' \subseteq Live(f)
    PROVE  Contract!Next
  <1> DEFINE ended == {f \in Families : Live(f)' = {}}
  <1>1. \A f \in Families : f \notin ended => Live(f)' = Live(f)
    BY LiveAtMostOne
  <1>2. [f \in Families |-> Live(f)]'
           = [f \in Families |->
                IF f \in ended THEN {} ELSE [g \in Families |-> Live(g)][f]]
    BY <1>1
  <1>3. Contract!End(ended)
    BY <1>2 DEF Contract!End
  <1> QED
    BY <1>3 DEF Contract!Next

LEMMA LoginOpens ==
    ASSUME IInv, NEW w \in Workers, LoginTxn(w)
    PROVE  Contract!Next
  <1>1. PICK f \in Families \ usedFamilies, tk \in Tokens \ usedTokens :
           CreateSession(f, tk, req[w])
    BY DEF LoginTxn
  <1>2. /\ f \notin DOMAIN session_families
        /\ tk \notin DOMAIN refresh_tokens
        /\ \A k \in DOMAIN refresh_tokens : refresh_tokens[k].family # f
    BY <1>1 DEF IInv, TypeOK, ReferentialIntegrity
  <1>3. /\ DOMAIN session_families' = DOMAIN session_families \cup {f}
        /\ session_families'[f].revoked_at = 0
        /\ \A g \in DOMAIN session_families :
              session_families'[g] = session_families[g]
    BY <1>1, <1>2 DEF CreateSession, InsertRow, NewFamily
  <1>4. /\ DOMAIN refresh_tokens' = DOMAIN refresh_tokens \cup {tk}
        /\ refresh_tokens'[tk].family = f
        /\ ~refresh_tokens'[tk].consumed
        /\ \A k \in DOMAIN refresh_tokens :
              refresh_tokens'[k] = refresh_tokens[k]
    BY <1>1, <1>2 DEF CreateSession, InsertRow, NewToken
  <1>5. Live(f)' = {tk}
    BY <1>2, <1>3, <1>4 DEF Live
  <1>6. \A g \in Families : g # f => Live(g)' = Live(g)
    BY <1>2, <1>3, <1>4 DEF Live
  <1>7. [g \in Families |-> Live(g)]'
           = [[g \in Families |-> Live(g)] EXCEPT ![f] = {tk}]
    BY <1>5, <1>6
  <1>8. Contract!Open(f, tk)
    BY <1>1, <1>7 DEF Contract!Open, CreateSession
  <1> QED
    BY <1>8 DEF Contract!Next

LEMMA RotateRotates ==
    ASSUME IInv, NEW w \in Workers, RefreshRotate(w)
    PROVE  Contract!Next
  <1>1. PICK tk : tk = req[w].token
    OBVIOUS
  <1>2. PICK f : f = refresh_tokens[tk].family
    OBVIOUS
  <1>3. PICK new \in Tokens \ usedTokens : Rotated(tk, req[w].t, new)
    BY <1>1, RotateFacts DEF IInv
  <1>4. /\ f \in Families /\ tk \in Tokens /\ tk \in Live(f)
        /\ usedTokens' = usedTokens \cup {new}
        /\ UNCHANGED <<session_families, usedFamilies>>
        /\ f \in DOMAIN session_families
        /\ session_families[f].revoked_at = 0
        /\ DOMAIN refresh_tokens' = DOMAIN refresh_tokens \cup {new}
        /\ new \notin DOMAIN refresh_tokens
        /\ refresh_tokens'[new].family = f
        /\ ~refresh_tokens'[new].consumed
        /\ refresh_tokens'[tk].consumed
        /\ refresh_tokens'[tk].family = f
        /\ \A k \in DOMAIN refresh_tokens :
              k # tk => refresh_tokens'[k] = refresh_tokens[k]
    BY <1>2, <1>3 DEF Rotated, Live
  <1>5. Live(f) = {tk}
    BY <1>4, LiveAtMostOne
  <1>6. \A k \in DOMAIN refresh_tokens' :
           (k \in Live(f))' <=> k = new
    BY <1>4, <1>5 DEF Live
  <1>7. Live(f)' = {new}
    BY <1>4, <1>6 DEF Live
  <1>8. \A g \in Families : g # f => Live(g)' = Live(g)
    BY <1>2, <1>4 DEF Live
  <1>9. [g \in Families |-> Live(g)]'
           = [[g \in Families |-> Live(g)] EXCEPT ![f] = {new}]
    BY <1>7, <1>8
  <1>10. Contract!Rotate(f, tk, new)
    BY <1>4, <1>5, <1>9 DEF Contract!Rotate
  <1> QED
    BY <1>4, <1>10 DEF Contract!Next

\* The handlers, the sweep and crashes implement the session contract.
THEOREM SessionsRefinement == Spec => ImplementsContract
  <1>1. Init => Contract!Init
    BY DEF Init, Contract!Init, Live, EmptyTable
  <1>2. IInv /\ [Next]_vars => Contract!Next
    <2> SUFFICES ASSUME IInv, [Next]_vars
                 PROVE  Contract!Next
      OBVIOUS
    <2>0. TypeOK
      BY DEF IInv
    <2>1. CASE Quiet
      <3>1. \A f \in Families : Live(f)' \subseteq Live(f)
        BY <2>1 DEF Quiet, Live
      <3> QED
        BY <2>1, <3>1, ShrinkEnds DEF Quiet
    <2>2. ASSUME NEW w \in Workers, RefreshDead(w)
          PROVE  Contract!Next
      <3>1. req[w].token \in DOMAIN refresh_tokens
        BY <2>2 DEF RefreshDead, Known, GetToken
      <3>2. /\ UNCHANGED <<session_families, usedFamilies, usedTokens>>
            /\ refresh_tokens' = Consume(req[w].token)
        BY <2>2 DEF RefreshDead, ids
      <3>3. \A f \in Families : Live(f)' \subseteq Live(f)
        BY <2>0, <3>1, <3>2, ConsumeFacts DEF Live, TypeOK
      <3> QED
        BY <3>2, <3>3, ShrinkEnds
    <2>3. CASE SweepTokens \/ SweepFamilies
      <3>1. \A f \in Families : Live(f)' \subseteq Live(f)
        BY <2>3, SweepFacts DEF Live
      <3> QED
        BY <2>3, <3>1, SweepFacts, ShrinkEnds
    <2> QED
      BY <2>0, <2>1, <2>2, <2>3, StepKinds, LoginOpens, RotateRotates
      DEF Writes
  <1> QED
    BY <1>1, <1>2, SessionsInvariant, PTL
    DEF Spec, ImplementsContract, Contract!Spec
=============================================================================
