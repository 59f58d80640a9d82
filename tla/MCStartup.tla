----------------------------- MODULE MCStartup ------------------------------
(***************************************************************************)
(* Startup, and before it what a process makes of its configuration: input *)
(* is one file and environment, or one list of origins.                    *)
(***************************************************************************)
EXTENDS Startup, Config, TLC

VARIABLE input

\* Nothing set, a variable missing, a value that does not pass, and good
\* credentials of accounts that share name and address, one of them, or none.
MCEnvironments ==
    {Unset, [Unset EXCEPT !.password = "good"], [Unset EXCEPT !.username = "root", !.email = "root@x"],
     [username |-> "root", email |-> "root@x", password |-> "weak"]}
    \cup [username : Usernames, email : Emails, password : {"good"}]

MCLongOf == ("-1" :> -1) @@ ("0" :> 0) @@ ("1" :> 1) @@ ("2" :> 2) @@ ("3" :> 3)
            @@ ("9" :> 9) @@ ("99" :> 99)
MCBoolOf == ("true" :> TRUE) @@ ("1" :> TRUE) @@ ("false" :> FALSE) @@ ("0" :> FALSE)
MCTextOf == [raw \in {"", "x", "secret", "*", "a, *", "a,b", "a,b,c", "a,b,c,d"} |->
               CASE raw = ""       -> <<>>
                 [] raw = "x"      -> <<"x">>
                 [] raw = "secret" -> <<"s", "e", "c">>
                 [] raw = "*"      -> <<"*">>
                 [] raw = "a, *"   -> <<"a", ",", " ", "*">>
                 [] raw = "a,b"    -> <<"a", ",", "b">>
                 [] raw = "a,b,c"  -> <<"a", ",", "b", ",", "c">>
                 [] OTHER          -> <<"a", ",", "b", ",", "c", ",", "d">>]
MCIntRange == -1 .. 9

\* Raw values worth giving a setting: good, bad, and at the bounds.
Raws(s) ==
    CASE s = "cors_allowed_origins" -> {"", "*", "a, *", "a,b", "a,b,c", "a,b,c,d"}
      [] s = "jwt_secret"           -> {"", "x", "secret"}
      [] SETTINGS[s].type = "BOOL"  -> {"", "true", "0", "2"}
      [] OTHER                      -> {"", "x", "0", "1", "2", "9", "99"}

Lines ==
    {[kind |-> "skip"], [kind |-> "bare"], [kind |-> "set", key |-> "typo", raw |-> "1"]}
    \cup UNION {{[kind |-> "set", key |-> s, raw |-> r] : r \in Raws(s)} : s \in DOMAIN SETTINGS}

\* Pairs of settings that meet in a check, or one setting twice.
Related ==
    {{"refresh_idle_ttl_s", "refresh_absolute_ttl_s"},
     {"password_min_length", "password_max_length"},
     {"cors_allowed_origins", "cors_allow_credentials"}}
    \cup {{s} : s \in DOMAIN SETTINGS}

About(line, settings) == line.kind # "set" \/ line.key \in settings \cup {"typo", "jwt_secret"}

FilesAbout(settings) ==
    LET lines == {line \in Lines : About(line, settings)}
    IN  UNION {[1 .. n -> lines] : n \in 0 .. 2}

EnvsAbout(settings) ==
    UNION {{("jwt_secret" :> k) @@ [s \in set |-> raws[s]] :
               raws \in {f \in [set -> UNION {Raws(s) : s \in set}] : \A s \in set : f[s] \in Raws(s)},
               k \in Raws("jwt_secret")} : set \in SUBSET settings}

OriginLists == UNION {[1 .. n -> {"*", "a", ",", " "}] : n \in 0 .. 5}
-----------------------------------------------------------------------------
None == [kind |-> "none"]

Configured ==
    \/ \E settings \in Related : \E file \in FilesAbout(settings), e \in EnvsAbout(settings) :
          \E dev \in BOOLEAN :
             input' = [kind |-> "config", file |-> file, env |-> e, dev |-> dev]
    \/ \E text \in OriginLists : input' = [kind |-> "origins", text |-> text]

MCInit == Init /\ input = None

MCNext ==
    \/ input = None /\ Next /\ UNCHANGED input
    \/ input = None /\ Init /\ Configured /\ UNCHANGED vars
    \/ input # None /\ input' = None /\ UNCHANGED vars

MCSpec == MCInit /\ [][MCNext]_<<vars, input>>
-----------------------------------------------------------------------------
\* A process gets past its configuration exactly when every line and variable
\* is sound and what they come to is valid; and then it runs with that: the
\* environment before the last line of the file before the default, the
\* signing secret from the environment alone.  config.c and cors.c, which
\* scan the list of origins each on its own, agree on it.
ConfigExact ==
    /\ input.kind = "config" =>
         LET r == Prepare(input.file, input.env, input.dev)
             meant == Effective(input.file, input.env)
             entries == Entries(meant.cors_allowed_origins)
         IN  /\ r.ok <=> /\ Sound(input.file, input.env)
                         /\ Validate(meant) /\ meant.tls_enabled
                         /\ Len(entries) <= MaxOrigins
             /\ r.ok => /\ r.cfg = [meant EXCEPT !.dev_mode = @ \/ input.dev]
                        /\ r.policy.origins = entries
                        /\ r.cfg.jwt_secret = TextOf[input.env["jwt_secret"]]
                        /\ r.cfg.cors_allow_credentials => ~OriginAllowed(r.policy, <<"*">>)
    /\ input.kind = "origins" =>
         LET entries == Entries(input.text)
             policy(credentials) == ScanOrigins(input.text, 1, credentials, <<>>)
         IN  /\ ContainsWildcard(input.text, 1) <=> Contains(entries, <<"*">>)
             /\ policy(FALSE).ok <=> Len(entries) <= MaxOrigins
             /\ policy(TRUE).ok <=> policy(FALSE).ok /\ ~ContainsWildcard(input.text, 1)
             /\ policy(FALSE).ok => policy(FALSE).origins = entries
=============================================================================
