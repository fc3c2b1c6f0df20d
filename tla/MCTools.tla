------------------------------- MODULE MCTools -------------------------------
(* A small instance of Tools. *)
EXTENDS Tools, TLC

cat == 10   \* a letter, after the digits
OneWord == {<<cat>>}
NilTTLOnly == {NilTTL}

\* What is inside of the tokens that look like JWTs: "ci.x.y" is a named token.
MCClaims ==
    [t \in {"alice.jwt", "nameless.jwt", "noscope.jwt", "foreign.jwt", "elsewhere.jwt",
           "forged.jwt", "ci.x.y"} |->
        [genuine |-> t \notin {"forged.jwt", "ci.x.y"},
         iss     |-> IF t = "foreign.jwt" THEN "another" ELSE "idp",
         aud     |-> IF t = "elsewhere.jwt" THEN {"mail"} ELSE {"mail", "watchword"},
         scopes  |-> IF t = "noscope.jwt" THEN {} ELSE {"store"},
         says    |-> IF t = "nameless.jwt" THEN [email |-> "n@x"] ELSE [sub |-> "alice"]]]
MCGiven ==
    ("alice.jwt" :> "alice") @@ ("nameless.jwt" :> Anonymous) @@ ("ci.x.y" :> "ci")
        @@ ("plain" :> Anonymous)

MCHeaders ==
    {[form |-> "none", token |-> NoToken], [form |-> "other", token |-> "plain"],
     [form |-> "bearer", token |-> NoToken]}
        \cup [form : {"bearer"}, token : DOMAIN MCClaims \cup {"plain", "wrong"}]

Named == <<[name |-> "ci", token |-> "ci.x.y"]>>
File(settings) ==
    [blocks |-> UNION {BlocksOf(k) : k \in DOMAIN settings},
     value  |-> settings @@ ("expiration.ttl_hours" :> DefaultTTL)]
None == [k \in {} |-> Unset]

\* Both kinds of tokens; the plain ones end in an empty one.
Guarded == File(("server.transport" :> "http") @@ ("auth.named_tokens" :> Named)
    @@ ("auth.tokens" :> <<"plain", NoToken>>) @@ ("auth.jwt.jwks_url" :> "url")
    @@ ("auth.jwt.issuer" :> "idp") @@ ("auth.jwt.audience" :> "watchword")
    @@ ("auth.jwt.required_scopes" :> {"store"}))
Local == File("auth.named_tokens" :> Named)

S3File == ("s3.region" :> "r") @@ ("s3.bucket" :> "b")
ProxyFile == ("s3.proxy.hmac_secret" :> "h") @@ ("s3.proxy.base_url" :> "u")
S3Fragments ==
    {None, S3File, S3File @@ ProxyFile, ProxyFile, "s3.region" :> "r",
     "s3.proxy.history_retention_days" :> Garbage, "s3.max_file_size_bytes" :> -1}
S3Switch == {None} \cup {"s3.enabled" :> t : t \in {"true", "TRUE", "false"}}

D(file, env, token, keys) == [file |-> file, env |-> env, token |-> token, keys |-> keys]

\* Everything about S3 that may be set or leak in, and the other settings in turn.
MCDeployments ==
    {D(Guarded, fragment @@ switch, NoToken, keys) :
        fragment \in S3Fragments, switch \in S3Switch, keys \in BOOLEAN}
    \cup {D(File(S3File @@ ("s3.enabled" :> FALSE)), env, NoToken, TRUE) :
        env \in {"s3.enabled" :> "true", ProxyFile}}
    \cup {D(File(None), env, NoToken, FALSE) : env \in
        {"auth.enabled" :> "True", "auth.jwt.required_scopes" :> {"store"},
         "auth.jwt.issuer" :> "idp", "auth.jwt.audience" :> "watchword",
         "database.driver" :> "libsql", "expiration.interval_hours" :> 0,
         "expiration.interval_hours" :> Garbage}}
    \cup {D(Local, None, token, FALSE) : token \in {"ci.x.y", "wrong"}}
MCRedeployments == {D(Guarded, None, NoToken, FALSE)}

MCQueries ==
    {[pattern |-> NoPattern, status |-> "", sort_by |-> "word", sort_order |-> "asc"],
     [pattern |-> NoPattern, status |-> "all", sort_by |-> "", sort_order |-> ""],
     [pattern |-> <<cat, AnyRun>>, status |-> "all", sort_by |-> "word", sort_order |-> ""],
     [pattern |-> <<AnyRun>>, status |-> "all", sort_by |-> "word", sort_order |-> ""]}

Symmetry == Permutations(Ids)
=============================================================================
