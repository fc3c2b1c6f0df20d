------------------------------- MODULE Config -------------------------------
(***************************************************************************)
(* How the settings of a server come about (config.go): defaults, under the *)
(* YAML file, under the environment; then the switch that discards S3; then *)
(* validation. The part about S3 and its proxy, the part about JWT and the  *)
(* resource metadata are optional blocks, nil pointers until a file or an   *)
(* environment variable names them.                                         *)
(*                                                                          *)
(* A configuration is [blocks, value]: the blocks that are there and the    *)
(* value of every setting, Unset for an empty text. A file is the same with *)
(* only some settings in the domain of value. The environment is a function *)
(* from some settings to texts: a number whose text Atoi refuses is Garbage.*)
(* Ports, logging, descriptions of tools and OAuth endpoints are left out.  *)
(***************************************************************************)
EXTENDS Integers

CONSTANTS Unset, Garbage

Texts ==
    {"server.transport", "database.driver", "database.sqlite.path",
     "database.postgres.dsn", "database.libsql.url", "auth.tokens",
     "auth.named_tokens", "auth.jwt.jwks_url", "auth.jwt.issuer", "auth.jwt.audience",
     "auth.jwt.required_scopes", "auth.jwt.identity_claim",
     "auth.resource_metadata.resource", "auth.resource_metadata.authorization_servers",
     "s3.region", "s3.bucket", "s3.proxy.hmac_secret", "s3.proxy.base_url"}
Switches == {"auth.enabled", "expiration.enabled", "s3.enabled"}
Numbers ==
    {"expiration.interval_hours", "expiration.ttl_hours", "s3.presign_ttl_minutes",
     "s3.max_file_size_bytes", "s3.proxy.url_ttl_minutes",
     "s3.proxy.history_retention_days"}
Settings == Texts \cup Switches \cup Numbers

JWTSettings ==
    {"auth.jwt.jwks_url", "auth.jwt.issuer", "auth.jwt.audience",
     "auth.jwt.required_scopes", "auth.jwt.identity_claim"}
MetadataSettings ==
    {"auth.resource_metadata.resource", "auth.resource_metadata.authorization_servers"}
ProxySettings ==
    {"s3.proxy.hmac_secret", "s3.proxy.base_url", "s3.proxy.url_ttl_minutes",
     "s3.proxy.history_retention_days"}
S3Settings == ProxySettings \cup
    {"s3.enabled", "s3.region", "s3.bucket", "s3.presign_ttl_minutes", "s3.max_file_size_bytes"}

\* The blocks that a setting needs; naming it creates them.
BlocksOf(k) ==
    {b \in {"jwt", "resource_metadata", "s3", "proxy"} :
        \/ b = "jwt" /\ k \in JWTSettings
        \/ b = "resource_metadata" /\ k \in MetadataSettings
        \/ b = "s3" /\ k \in S3Settings
        \/ b = "proxy" /\ k \in ProxySettings}

-----------------------------------------------------------------------------
(* Load *)

\* A nil pointer or an empty text is Unset, a number that nobody set is 0.
Defaults ==
    [blocks |-> {},
     value  |-> [k \in Settings |->
        CASE k = "server.transport" -> "stdio"
          [] k = "database.driver" -> "sqlite"
          [] k = "database.sqlite.path" -> "./data/word-store.db"
          [] k \in {"auth.enabled", "expiration.enabled"} -> TRUE
          [] k = "expiration.interval_hours" -> 24
          [] k = "expiration.ttl_hours" -> 168
          [] k \in Numbers \ {"expiration.interval_hours", "expiration.ttl_hours"} -> 0
          [] OTHER -> Unset]]

\* yaml.Unmarshal into the defaults: what the file names is replaced.
ApplyFile(cfg, file) ==
    [blocks |-> cfg.blocks \cup file.blocks,
     value  |-> [k \in Settings |->
        IF k \in DOMAIN file.value THEN file.value[k] ELSE cfg.value[k]]]

\* A switch is on for "true" and "1"; only s3.enabled takes "True" and "TRUE".
TextMeansTrue(k, text) ==
    text \in {"true", "1"} \/ (k = "s3.enabled" /\ text = "TRUE")

\* A number that does not parse changes nothing, but its block is there.
EnvValue(cfg, k, text) ==
    IF k \in Switches THEN TextMeansTrue(k, text)
    ELSE IF k \in Numbers /\ text = Garbage THEN cfg.value[k] ELSE text

ApplyEnvOverrides(cfg, env) ==
    [blocks |-> cfg.blocks \cup UNION {BlocksOf(k) : k \in DOMAIN env},
     value  |-> [k \in Settings |->
        IF k \in DOMAIN env THEN EnvValue(cfg, k, env[k]) ELSE cfg.value[k]]]

S3SwitchedOff(cfg) == "s3" \in cfg.blocks /\ cfg.value["s3.enabled"] = FALSE

\* Mutant: only the flag is kept; the block stays.
KeepDisabledS3(cfg) == cfg

\* An explicit s3.enabled = false discards the block, whatever else is in it.
DropDisabledS3(cfg) ==
    IF S3SwitchedOff(cfg) THEN [cfg EXCEPT !.blocks = @ \ {"s3", "proxy"}] ELSE cfg

DatabaseLocated(cfg) ==
    \/ cfg.value["database.driver"] = "sqlite" /\ cfg.value["database.sqlite.path"] # Unset
    \/ cfg.value["database.driver"] = "postgres" /\ cfg.value["database.postgres.dsn"] # Unset
    \/ cfg.value["database.driver"] = "libsql" /\ cfg.value["database.libsql.url"] # Unset

\* What validate refuses. Nothing about S3 and its proxy is refused.
Validate(cfg) ==
    /\ cfg.value["server.transport"] \in {"stdio", "sse", "streamable-http", "http"}
    /\ DatabaseLocated(cfg)
    /\ "jwt" \in cfg.blocks => cfg.value["auth.jwt.jwks_url"] # Unset
    /\ "resource_metadata" \in cfg.blocks => \A k \in MetadataSettings : cfg.value[k] # Unset
    /\ cfg.value["expiration.interval_hours"] >= 1
    /\ cfg.value["expiration.ttl_hours"] >= 0

\* What validate sets right. history_retention_days has no lower bound but -1.
Normalise(cfg) ==
    LET v == cfg.value
        set(k, bad, default) == IF bad THEN default ELSE v[k]
    IN  IF "s3" \notin cfg.blocks THEN cfg
        ELSE [cfg EXCEPT !.value = [k \in Settings |->
            CASE k = "s3.presign_ttl_minutes" -> set(k, v[k] <= 0, 15)
              [] k = "s3.max_file_size_bytes" -> set(k, v[k] <= 0, 1073741824)
              [] k = "s3.proxy.url_ttl_minutes" ->
                    set(k, "proxy" \in cfg.blocks /\ v[k] <= 0, 5)
              [] k = "s3.proxy.history_retention_days" ->
                    set(k, "proxy" \in cfg.blocks /\ v[k] < 0, 90)
              [] OTHER -> v[k]]]

\* What the file and the environment come to, before validation.
Merge(file, env) == DropDisabledS3(ApplyEnvOverrides(ApplyFile(Defaults, file), env))

\* Load returns no error, and what it returns then.
Loads(file, env) == Validate(Merge(file, env))
Load(file, env) == Normalise(Merge(file, env))
=============================================================================
