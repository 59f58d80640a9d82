-------------------------- MODULE SessionContract --------------------------
(***************************************************************************)
(* What the session layer promises, without clocks, rows or requests: a    *)
(* family is opened once, offers one token at a time, hands a new token    *)
(* only in exchange for the one it offers, and once it offers none it      *)
(* never offers one again.  No token is ever issued twice.                 *)
(***************************************************************************)
CONSTANTS Families, Tokens

VARIABLES
    live,    \* the tokens a family offers for exchange
    opened,  \* families ever opened
    issued   \* tokens ever issued

Init ==
    /\ live = [f \in Families |-> {}]
    /\ opened = {}
    /\ issued = {}

Open(f, tk) ==
    /\ f \notin opened
    /\ tk \notin issued
    /\ live' = [live EXCEPT ![f] = {tk}]
    /\ opened' = opened \cup {f}
    /\ issued' = issued \cup {tk}

Rotate(f, old, new) ==
    /\ live[f] = {old}
    /\ new \notin issued
    /\ live' = [live EXCEPT ![f] = {new}]
    /\ issued' = issued \cup {new}
    /\ UNCHANGED opened

\* Logout, password change, reuse, expiry and the sweep end families, the
\* password change and the sweep several at a time.
End(ended) ==
    /\ live' = [f \in Families |-> IF f \in ended THEN {} ELSE live[f]]
    /\ UNCHANGED <<opened, issued>>

Next ==
    \/ \E f \in Families, tk \in Tokens : Open(f, tk)
    \/ \E f \in Families, old, new \in Tokens : Rotate(f, old, new)
    \/ \E ended \in SUBSET Families : End(ended)

Spec == Init /\ [][Next]_<<live, opened, issued>>
============================================================================
