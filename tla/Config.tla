------------------------------- MODULE Config -------------------------------
(***************************************************************************)
(* Loading the configuration (platform/config.c), what main makes of it    *)
(* before it opens anything, and the list of CORS origins (http/cors.c).   *)
(* A raw value is a model string; the constants say what it parses as.     *)
(* One row stands for the settings that are treated alike.                 *)
(***************************************************************************)
EXTENDS Integers, Sequences, SequencesExt

CONSTANTS
    LongOf,      \* raw -> the number parse_long makes of it; others fail
    BoolOf,      \* raw -> the boolean parse_bool makes of it; others fail
    TextOf,      \* raw -> its characters
    IntRange,    \* INT_MIN .. INT_MAX
    PortMax,     \* 65535
    StrSize,     \* capacity of a string field, with its NUL
    SecretMin,   \* PS_JWT_SECRET_MIN
    KdfMin,      \* 1000
    PasswordMin, \* 8
    MaxOrigins   \* PS_CORS_MAX_ORIGINS

Setting(type, dflt, env_only) == [type |-> type, dflt |-> dflt, env_only |-> env_only]

SETTINGS ==
    [ port                   |-> Setting("U16", "3", FALSE),
      dev_mode               |-> Setting("BOOL", "false", FALSE),
      http_limit             |-> Setting("INT", "3", FALSE),
      cors_allowed_origins   |-> Setting("STR", "", FALSE),
      cors_allow_credentials |-> Setting("BOOL", "false", FALSE),
      tls_enabled            |-> Setting("BOOL", "true", FALSE),
      access_token_ttl_s     |-> Setting("INT", "3", FALSE),
      refresh_idle_ttl_s     |-> Setting("INT", "2", FALSE),
      refresh_absolute_ttl_s |-> Setting("INT", "3", FALSE),
      kdf_iterations         |-> Setting("INT", "3", FALSE),
      lockout_threshold      |-> Setting("INT", "3", FALSE),
      password_min_length    |-> Setting("INT", "2", FALSE),
      password_max_length    |-> Setting("INT", "3", FALSE),
      maintenance_batch_size |-> Setting("INT", "3", FALSE),
      ratelimit_max_entries  |-> Setting("INT", "3", FALSE),
      jwt_secret             |-> Setting("STR", "", TRUE) ]

\* apply_value: what the setting takes for a value, and as what.
Accepts(s, raw) ==
    LET type == SETTINGS[s].type
    IN  CASE type = "STR"  -> Len(TextOf[raw]) < StrSize
          [] type = "INT"  -> raw \in DOMAIN LongOf /\ LongOf[raw] \in IntRange
          [] type = "U16"  -> raw \in DOMAIN LongOf /\ LongOf[raw] \in 1 .. PortMax
          [] type = "BOOL" -> raw \in DOMAIN BoolOf

Stored(s, raw) ==
    LET type == SETTINGS[s].type
    IN  CASE type = "STR" -> TextOf[raw] [] type = "BOOL" -> BoolOf[raw] [] OTHER -> LongOf[raw]

Defaults == [s \in DOMAIN SETTINGS |-> Stored(s, SETTINGS[s].dflt)]

Loading(ok, cfg) == [ok |-> ok, cfg |-> cfg]

ApplyValue(cfg, s, raw) ==
    IF Accepts(s, raw) THEN Loading(TRUE, [cfg EXCEPT ![s] = Stored(s, raw)])
    ELSE Loading(FALSE, cfg)

\* A line is blank or a comment, or has no =, or is key = value.
LenientLine(load, line) ==
    IF ~load.ok \/ line.kind = "skip" THEN load
    ELSE IF line.kind = "bare" THEN Loading(FALSE, load.cfg)
    ELSE IF line.key \notin DOMAIN SETTINGS THEN load
    ELSE IF SETTINGS[line.key].env_only THEN Loading(FALSE, load.cfg)
    ELSE ApplyValue(load.cfg, line.key, line.raw)

FileLine(load, line) ==
    IF ~load.ok \/ line.kind = "skip" THEN load
    ELSE IF line.kind = "bare" \/ line.key \notin DOMAIN SETTINGS THEN Loading(FALSE, load.cfg)
    ELSE IF SETTINGS[line.key].env_only THEN Loading(FALSE, load.cfg)
    ELSE ApplyValue(load.cfg, line.key, line.raw)

LoadFile(cfg, file) == FoldLeft(FileLine, Loading(TRUE, cfg), file)

\* env is defined for the variables that are set; an empty one is ignored.
Overrides(env) == {s \in DOMAIN env : env[s] # ""}

LoadEnv(cfg, env) ==
    IF \E s \in Overrides(env) : ~Accepts(s, env[s]) THEN Loading(FALSE, cfg)
    ELSE Loading(TRUE, [s \in DOMAIN cfg |->
                           IF s \in Overrides(env) THEN Stored(s, env[s]) ELSE cfg[s]])
-----------------------------------------------------------------------------
\* The list of origins, read twice by the same kind of scan.
Separators == {",", " "}

SkipSeparators(text, p) ==
    Min({i \in p .. Len(text) + 1 : i > Len(text) \/ text[i] \notin Separators})

EntryEnd(text, p) == Min({i \in p .. Len(text) + 1 : i > Len(text) \/ text[i] = ","})

\* The entry from p up to end, blanks at its end cut.
Entry(text, p, end) ==
    SubSeq(text, p, Max({p - 1} \cup {i \in p .. end - 1 : text[i] # " "}))

RECURSIVE ContainsWildcard(_, _), ScanOrigins(_, _, _, _)

\* cors_origins_contains_wildcard
ContainsWildcard(text, pos) ==
    LET p == SkipSeparators(text, pos)
        end == EntryEnd(text, p)
    IN  IF p > Len(text) THEN FALSE
        ELSE Entry(text, p, end) = <<"*">> \/ ContainsWildcard(text, end)

Policy_(ok, origins) == [ok |-> ok, origins |-> origins]

\* ps_cors_policy_init
ScanOrigins(text, pos, credentials, origins) ==
    LET p == SkipSeparators(text, pos)
        end == EntryEnd(text, p)
        entry == Entry(text, p, end)
    IN  IF p > Len(text) THEN Policy_(TRUE, origins)
        ELSE IF credentials /\ entry = <<"*">> THEN Policy_(FALSE, origins)
        ELSE IF Len(origins) >= MaxOrigins THEN Policy_(FALSE, origins)
        ELSE ScanOrigins(text, IF end > Len(text) THEN end ELSE end + 1, credentials,
                         Append(origins, entry))

\* ps_cors_origin_allowed
OriginAllowed(policy, origin) == \E i \in DOMAIN policy.origins : policy.origins[i] = origin
-----------------------------------------------------------------------------
\* ps_config_validate
Validate(cfg) ==
    /\ Len(cfg.jwt_secret) >= SecretMin
    /\ cfg.access_token_ttl_s > 0
    /\ cfg.refresh_absolute_ttl_s >= cfg.refresh_idle_ttl_s
    /\ cfg.kdf_iterations >= KdfMin
    /\ cfg.password_min_length >= PasswordMin
    /\ cfg.password_max_length >= cfg.password_min_length
    /\ cfg.lockout_threshold >= 1
    /\ cfg.maintenance_batch_size >= 1
    /\ cfg.ratelimit_max_entries >= 1
    /\ cfg.http_limit >= 1
    /\ ~(cfg.cors_allow_credentials /\ ContainsWildcard(cfg.cors_allowed_origins, 1))

\* ps_config_load
ConfigLoad(file, env) ==
    LET fromFile == LoadFile(Defaults, file)
        fromEnv == LoadEnv(fromFile.cfg, env)
    IN  IF ~fromFile.ok THEN fromFile
        ELSE IF ~fromEnv.ok THEN fromEnv
        ELSE Loading(Validate(fromEnv.cfg), fromEnv.cfg)

\* main up to the database: the --dev flag, TLS, the CORS policy.
Prepare(file, env, dev) ==
    LET load == ConfigLoad(file, env)
        cfg == [load.cfg EXCEPT !.dev_mode = @ \/ dev]
        policy == ScanOrigins(cfg.cors_allowed_origins, 1, cfg.cors_allow_credentials, <<>>)
    IN  [ok |-> load.ok /\ cfg.tls_enabled /\ policy.ok, cfg |-> cfg, policy |-> policy]
-----------------------------------------------------------------------------
\* The entries of a list: what stands between commas, without blanks around
\* it, where that is something.
Entries(text) ==
    LET cuts == <<0>> \o SetToSortSeq({i \in DOMAIN text : text[i] = ","}, <)
                \o <<Len(text) + 1>>
        solid(k) == {i \in cuts[k] + 1 .. cuts[k + 1] - 1 : text[i] # " "}
        entry(k) == IF solid(k) = {} THEN <<>> ELSE SubSeq(text, Min(solid(k)), Max(solid(k)))
    IN  SelectSeq([k \in 1 .. Len(cuts) - 1 |-> entry(k)], LAMBDA e : e # <<>>)

\* What a file and an environment come to: the environment, then the last
\* line of the file, then the default.
Effective(file, env) ==
    [s \in DOMAIN SETTINGS |->
        LET lines == {i \in DOMAIN file : file[i].kind = "set" /\ file[i].key = s}
        IN  Stored(s, IF s \in Overrides(env) THEN env[s]
                      ELSE IF lines # {} THEN file[Max(lines)].raw
                      ELSE SETTINGS[s].dflt)]

\* Nothing in them is wrong or out of place, used or not.
Sound(file, env) ==
    /\ \A i \in DOMAIN file :
          \/ file[i].kind = "skip"
          \/ /\ file[i].kind = "set"
             /\ file[i].key \in DOMAIN SETTINGS \ {"jwt_secret"}
             /\ Accepts(file[i].key, file[i].raw)
    /\ \A s \in Overrides(env) : Accepts(s, env[s])
=============================================================================
