-------------------------------- MODULE Tools --------------------------------
(***************************************************************************)
(* The tools as their callers meet them: a process is started with some     *)
(* settings (Config), lets callers in (Auth), runs the tools of EntryStore  *)
(* for them, and answers list_entries, search_entries and search_words      *)
(* page by page, with the total from one statement and the rows from        *)
(* another.                                                                 *)
(*                                                                          *)
(* A walk is a client that reads a whole list: it asks for page after page, *)
(* each time further by the limit that the answer echoes, while the table   *)
(* changes. The server keeps nothing between two pages.                     *)
(***************************************************************************)
EXTENDS EntryStore, Config, Auth

CONSTANTS
    Deployments,     \* what an operator may start the first process with
    Redeployments,   \* bound of the model: and what, once entries are stored
    Headers,         \* the Authorization headers that clients send
    Queries,         \* the lists that clients ask for
    Limits,          \* the limits they ask with
    Readers,         \* bound of the model: with authentication on, off or both
    AnyRun, AnyOne,  \* the wildcards % and _ of a pattern
    NoPattern, Down, NoDeployment, Unasked,
    DefaultLimit, MaxLimit, MaxPatternLength,
    Given            \* token -> the name it was given under, by the operator or
                     \* the identity provider, or Anonymous

ASSUME ToolsAssumption ==
    /\ Redeployments \subseteq Deployments
    /\ Letters \subseteq Nat \ Digits    \* words are compared as numbers are
    /\ MaxLimit \in Nat /\ DefaultLimit \in 1 .. MaxLimit
    /\ Limits \subseteq Nat \ {0}       \* a walk goes forward

VARIABLES
    deployment,   \* what the process that is being started was given
    running,      \* what the process serves with, or Down
    creator,      \* id -> created_by
    created,      \* id -> created_at
    author,       \* history: id -> the token it was stored with, if asked for one
    walk          \* the list a client is reading

toolVars == <<vars, deployment, running, creator, created, author, walk>>

-----------------------------------------------------------------------------
(* The start: main up to the transports *)

Authenticator(cfg) ==
    LET v == cfg.value
        list(k) == IF v[k] = Unset THEN <<>> ELSE v[k]
    IN  [enabled |-> v["auth.enabled"],
         named   |-> list("auth.named_tokens"),
         tokens  |-> list("auth.tokens"),
         jwt     |-> "jwt" \in cfg.blocks,
         issuer  |-> {v["auth.jwt.issuer"]} \ {Unset},
         audience |-> {v["auth.jwt.audience"]} \ {Unset},
         scopes  |-> IF v["auth.jwt.required_scopes"] = Unset THEN {}
                     ELSE v["auth.jwt.required_scopes"],
         claim   |-> IF v["auth.jwt.identity_claim"] = Unset THEN "sub"
                     ELSE v["auth.jwt.identity_claim"]]

\* The bucket's client needs a bucket, a region and both keys; what is missing
\* costs the file tools, not the start.
FilesOn(cfg, keys) ==
    /\ "s3" \in cfg.blocks /\ keys
    /\ cfg.value["s3.bucket"] # Unset /\ cfg.value["s3.region"] # Unset

ProxyOn(cfg, keys) ==
    /\ FilesOn(cfg, keys) /\ "proxy" \in cfg.blocks
    /\ cfg.value["s3.proxy.hmac_secret"] # Unset /\ cfg.value["s3.proxy.base_url"] # Unset

\* Days that the download history is kept: what the proxy's block says, which is
\* 0, for ever, if it does not say; 90 without a proxy.
Retention(cfg, keys) ==
    IF ProxyOn(cfg, keys) THEN cfg.value["s3.proxy.history_retention_days"] ELSE 90

\* What a process serves with: entries with `core`, files with the rest.
Boot(d) ==
    LET cfg == Load(d.file, d.env)
        stdio == cfg.value["server.transport"] = "stdio"
    IN  [core |-> [driver |-> cfg.value["database.driver"],
                   stdio  |-> stdio,
                   token  |-> IF stdio THEN d.token ELSE NoToken,
                   auth   |-> Authenticator(cfg),
                   worker |-> cfg.value["expiration.enabled"]],
         files |-> FilesOn(cfg, d.keys),
         proxy |-> ProxyOn(cfg, d.keys),
         retention |-> Retention(cfg, d.keys)]

\* The start does not fail. On stdio the caller is identified here.
Starts(d) ==
    /\ Loads(d.file, d.env)
    /\ Boot(d).core.stdio => ValidateToken(Boot(d).core.auth, d.token).ok

\* The same deployment without any setting of S3 and its proxy.
WithoutS3(d) ==
    LET drop(f) == [k \in DOMAIN f \ S3Settings |-> f[k]]
    IN  [file |-> [blocks |-> d.file.blocks \ {"s3", "proxy"}, value |-> drop(d.file.value)],
         env |-> drop(d.env), token |-> d.token, keys |-> d.keys]

\* Given says of every token a server could take whose it is: of the named ones in
\* its settings, of the plain ones, and of the JWTs that its identity provider
\* issued for it with the scopes asked for, whose claim is the name. One token has
\* one name: none is listed twice under two, or renamed between two deployments.
ASSUME GivenAssumption ==
    /\ Unasked \notin DOMAIN Given
    /\ \A d \in Deployments : Starts(d) =>
          LET a == Boot(d).core.auth
              given(token, name) == token \in DOMAIN Given /\ Given[token] = name
          IN  /\ DOMAIN a.named = 1 .. Len(a.named)
              /\ \A i \in DOMAIN a.named : given(a.named[i].token, a.named[i].name)
              /\ \A i \in DOMAIN a.tokens :
                    a.tokens[i] # NoToken => given(a.tokens[i], Anonymous)
              /\ \A t \in DOMAIN Claims :
                    /\ a.jwt /\ Claims[t].genuine /\ a.scopes \subseteq Claims[t].scopes
                    /\ a.issuer \subseteq {Claims[t].iss} /\ a.audience \subseteq Claims[t].aud
                    => given(t, ClaimedIdentity(a, t))

\* The operator says no: WORDSTORE_S3_ENABLED, or else the file.
S3IsOff(d) ==
    IF "s3.enabled" \in DOMAIN d.env THEN d.env["s3.enabled"] \in {"false", "0"}
    ELSE "s3.enabled" \in DOMAIN d.file.value /\ d.file.value["s3.enabled"] = FALSE

Deploy ==
    /\ running = Down
    /\ \E d \in IF minted = {} THEN Deployments ELSE Redeployments : deployment' = d
    /\ UNCHANGED <<vars, running, creator, created, author, walk>>

\* Mutant: the settings are looked at again while the process runs.
StartAndWatch ==
    /\ deployment # NoDeployment
    /\ running' = IF Starts(deployment) THEN Boot(deployment).core ELSE Down
    /\ UNCHANGED <<vars, deployment, creator, created, author, walk>>

\* The process reads its settings once.
Start ==
    /\ deployment # NoDeployment
    /\ running' = IF Starts(deployment) THEN Boot(deployment).core ELSE Down
    /\ deployment' = NoDeployment
    /\ UNCHANGED <<vars, creator, created, author, walk>>

\* The caller of a tool: on stdio whoever holds the token of the start.
Caller(header) ==
    IF running.stdio THEN ValidateToken(running.auth, running.token)
    ELSE HTTPMiddleware(running.auth, header)

SomebodyCalls == running # Down /\ \E h \in Headers : Caller(h).ok

-----------------------------------------------------------------------------
(* Lists *)

\* A word matches a pattern if it can be cut into one piece for each item. (On
\* SQLite LIKE takes either case of an ASCII letter; the letters here have none.)
Like(w, pattern) ==
    \E cut \in [0 .. Len(pattern) -> 0 .. Len(w)] :
        /\ cut[0] = 0 /\ cut[Len(pattern)] = Len(w)
        /\ \A i \in 1 .. Len(pattern) :
              CASE pattern[i] = AnyRun -> cut[i - 1] <= cut[i]
                [] pattern[i] = AnyOne -> cut[i] = cut[i - 1] + 1
                [] OTHER -> cut[i] = cut[i - 1] + 1 /\ w[cut[i]] = pattern[i]

\* Empty, too long and wildcards only are refused. list_entries has no pattern.
ValidatePattern(pattern) ==
    pattern # NoPattern =>
        /\ Len(pattern) \in 1 .. MaxPatternLength
        /\ \E i \in DOMAIN pattern : pattern[i] \notin {AnyRun, AnyOne}

\* The status asked for; none means active.
Status(q) == IF q.status = "" THEN "active" ELSE q.status

\* The WHERE clause.
Matching(table, q) ==
    {id \in Ids :
        /\ table[id] # NoRow
        /\ Status(q) = "all" \/ table[id].status = Status(q)
        /\ q.pattern = NoPattern \/ Like(table[id].word, q.pattern)}

\* The order of the words: of bytes on SQLite, of the collation on PostgreSQL.
Precedes(u, v) ==
    \E n \in 0 .. Len(u) :
        /\ n <= Len(v) /\ SubSeq(u, 1, n) = SubSeq(v, 1, n)
        /\ \/ n = Len(u) /\ n < Len(v)
           \/ n < Len(u) /\ n < Len(v) /\ u[n + 1] < v[n + 1]

\* a may not stand after b: ORDER BY word or created_at, ASC or DESC. A search is
\* by word; a list by anything unknown is by created_at, and descending unless
\* it says asc.
Before(q, a, b) ==
    LET less(x, y) == IF q.pattern # NoPattern \/ q.sort_by = "word"
                      THEN Precedes(entries[x].word, entries[y].word)
                      ELSE created[x] < created[y]
    IN  IF q.pattern # NoPattern \/ q.sort_order = "asc" THEN less(a, b) ELSE less(b, a)

\* Mutant: a statement without ORDER BY.
AnyOrder(q) ==
    LET rows == Matching(entries, q)
    IN  {s \in [1 .. Cardinality(rows) -> rows] : \A i, j \in DOMAIN s : i # j => s[i] # s[j]}

\* The orders in which the database may return the rows: ties in any order.
Orders(q) ==
    LET rows == Matching(entries, q)
    IN  {s \in [1 .. Cardinality(rows) -> rows] :
            \A i, j \in DOMAIN s : i < j => s[i] # s[j] /\ ~Before(q, s[j], s[i])}

Tied(q) ==
    \E a, b \in Matching(entries, q) : a # b /\ ~Before(q, a, b) /\ ~Before(q, b, a)

\* A limit out of range is replaced by the default one, not by the maximum.
EffectiveLimit(limit) == IF limit \in 1 .. MaxLimit THEN limit ELSE DefaultLimit

\* LIMIT and OFFSET.
Page(s, limit, offset) ==
    LET end == offset + EffectiveLimit(limit)
    IN  SubSeq(s, offset + 1, IF end < Len(s) THEN end ELSE Len(s))

\* A list changes nothing; its answer takes the place of the last one.
ListFrame ==
    UNCHANGED <<entries, minted, now, deleting, deployment, running, creator, created, author>>

NoWalk == [at |-> "none"]
Reading == walk.at \in {"counted", "paged"}

\* The first page is asked for. `stop` is how the client knows the last one: by
\* the total or by a page that is not full.
WalkBegins(q, limit, stop) ==
    /\ SomebodyCalls /\ ~Reading /\ running.auth.enabled \in Readers
    /\ ValidatePattern(q.pattern)
    /\ walk' = [at |-> "counted", query |-> q, limit |-> limit, stop |-> stop, offset |-> 0,
                total |-> Cardinality(Matching(entries, q)), seen |-> {}, twice |-> FALSE,
                kept |-> Matching(entries, q), left |-> FALSE, came |-> FALSE, tied |-> FALSE]
    /\ reply' = NoReply
    /\ ListFrame

\* SELECT COUNT(*) for the next page.
Count ==
    /\ walk.at = "paged" /\ SomebodyCalls
    /\ walk' = [walk EXCEPT !.at = "counted",
                            !.total = Cardinality(Matching(entries, walk.query))]
    /\ reply' = NoReply
    /\ ListFrame

\* The rows, and the answer: the client notes them and asks for more or not.
Fetch ==
    /\ walk.at = "counted" /\ running # Down
    /\ \E s \in Orders(walk.query) :
          LET page == Page(s, walk.limit, walk.offset)
              rows == {page[i] : i \in DOMAIN page}
              next == walk.offset + walk.limit
              last == IF walk.stop = "total" THEN next >= walk.total ELSE Len(page) < walk.limit
          IN  walk' = [walk EXCEPT !.at = IF last THEN "done" ELSE "paged",
                                   !.offset = next,
                                   !.twice = @ \/ rows \cap walk.seen # {},
                                   !.seen = @ \cup rows,
                                   !.tied = @ \/ Tied(walk.query)]
    /\ reply' = NoReply
    /\ ListFrame

\* History of the walk: which rows are on its list all the time, under one word,
\* and whether others left it or came to it. A walk that is over is forgotten.
Watch ==
    LET before == Matching(entries, walk.query)
        after == Matching(entries', walk.query)
        same == {id \in before \cap after : entries'[id].word = entries[id].word}
    IN  walk' = IF ~Reading THEN NoWalk
                ELSE [walk EXCEPT !.kept = @ \cap same,
                                  !.left = @ \/ before # same,
                                  !.came = @ \/ after # same]

-----------------------------------------------------------------------------
(* The tools that write, and the worker *)

\* store_entry records who called.
ToolStoreEntry(h, w, payload, ttl) ==
    /\ running # Down /\ Caller(h).ok
    /\ StoreEntry(w, payload, ttl)
    /\ LET new == minted' \ minted
           token == IF running.stdio THEN running.token ELSE h.token
           set(f, v) == [id \in Ids |-> IF id \in new THEN v ELSE f[id]]
       IN  /\ creator' = set(creator, Caller(h).identity)
           /\ created' = set(created, now)
           /\ author' = set(author, IF running.auth.enabled THEN token ELSE Unasked)
    /\ Watch
    /\ UNCHANGED <<deployment, running>>

\* No other tool touches created_by and created_at.
Tool(step) ==
    /\ SomebodyCalls
    /\ step
    /\ Watch
    /\ UNCHANGED <<deployment, running, creator, created, author>>

\* The worker runs if expiration.enabled is on.
ToolSweep ==
    /\ running # Down /\ running.worker
    /\ Sweep
    /\ Watch
    /\ UNCHANGED <<deployment, running, creator, created, author>>

ToolTick == Tick /\ Watch /\ UNCHANGED <<deployment, running, creator, created, author>>

\* The process ends, however it does; a client that was reading gives up.
Stop ==
    /\ running # Down
    /\ Crash
    /\ running' = Down
    /\ walk' = NoWalk
    /\ UNCHANGED <<deployment, creator, created, author>>

ToolsInit ==
    /\ Init
    /\ deployment = NoDeployment
    /\ running = Down
    /\ creator = [id \in Ids |-> Anonymous]
    /\ created = [id \in Ids |-> 0]
    /\ author = [id \in Ids |-> Unasked]
    /\ walk = NoWalk

ToolsNext ==
    \/ Deploy
    \/ Start
    \/ Stop
    \/ \E h \in Headers, w \in RequestWords, ttl \in TTLArgs : ToolStoreEntry(h, w, "fits", ttl)
    \/ \E ref \in Ids, ttl \in TTLArgs : Tool(RestoreEntry(ref, ttl))
    \/ \E ref \in Ids, ttl \in TTLArgs : Tool(UpdateExpiration(ref, ttl))
    \/ \E c \in Clients, ref \in Ids : Tool(DeleteEntry(c, ref))
    \/ \E q \in Queries, limit \in Limits, stop \in {"total", "short page"} :
          WalkBegins(q, limit, stop)
    \/ Count
    \/ Fetch
    \/ ToolSweep
    \/ ToolTick

ToolsSpec == ToolsInit /\ [][ToolsNext]_toolVars

-----------------------------------------------------------------------------
(* Properties *)

\* Every variable keeps its range: settings are given only to a process that does
\* not run, no entry is created in the future, ids not yet used have no creator,
\* and what a walk could see throughout is still on its list (main.go:32-83).
ToolsTypeOK ==
    /\ TypeOK
    /\ deployment \in Deployments \cup {NoDeployment}
    /\ running # Down => deployment = NoDeployment
    /\ \A id \in Ids : created[id] \in 0 .. now
    /\ \A id \in Ids \ minted : creator[id] = Anonymous
    /\ Reading => walk.kept \subseteq Matching(entries, walk.query)

\* What a client knows at the end of a walk, although no two of the statements it
\* caused saw the same table (sqlite.go:182-249):
\*   - if no entry left the list, it saw every entry that was there all the time
\*     (with the total as its guide, if none came either),
\*   - if no entry came, it saw none twice,
\*   - by word, and with one status, rows never tie, so the order is one order.
\* A limit out of range is left out: the answer echoes it, but has fewer rows.
WalkComplete ==
    walk.at = "done" /\ walk.limit \in 1 .. MaxLimit =>
        /\ walk.query.sort_by = "word" /\ Status(walk.query) # "all" => ~walk.tied
        /\ ~walk.tied =>
              /\ ~walk.left /\ (walk.stop = "short page" \/ ~walk.came)
                    => walk.kept \subseteq walk.seen
              /\ ~walk.came => ~walk.twice

\* created_by is who stored the entry, and stays so when others restore or change
\* it and the server restarts with other settings (README.md:353-377): the name
\* its token was given under, nobody if it was given without a name or nobody
\* asked for a token, and no entry is stored with a token that was not given.
CreatedByIsTrue ==
    \A id \in minted :
        IF author[id] = Unasked THEN creator[id] = Anonymous
        ELSE author[id] \in DOMAIN Given /\ creator[id] = Given[author[id]]

\* Whatever is set about S3 and its proxy, the rest of the server starts and works
\* as without it, and s3.enabled = false leaves no trace of it (README.md:400,436).
S3Isolated ==
    deployment # NoDeployment =>
        LET bare == WithoutS3(deployment)
        IN  /\ Starts(deployment) <=> Starts(bare)
            /\ Starts(deployment) => Boot(deployment).core = Boot(bare).core
            /\ Starts(deployment) /\ S3IsOff(deployment) => Boot(deployment) = Boot(bare)
=============================================================================
