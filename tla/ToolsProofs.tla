----------------------------- MODULE ToolsProofs -----------------------------
(***************************************************************************)
(* The tools, for every deployment, every caller and every list: S3 leaves  *)
(* the rest of the server alone, created_by is the truth, and a walk of the *)
(* pages of a list sees what it has to see.                                 *)
(*                                                                          *)
(* A walk is reasoned about by ranks: the rank of a row is the number of    *)
(* rows that have to stand before it. Where no rows tie, the row at place i *)
(* has rank i - 1 (PlaceIsRank), so a page is the rows whose ranks lie in a *)
(* window (PageRanks). While no row leaves the list no rank falls, and what *)
(* is still to be read stays behind the offset (NothingSkipped); while none *)
(* comes no rank grows, and what was read stays before it (NothingRepeated).*)
(***************************************************************************)
EXTENDS Tools, DirectoryProofs

USE IdsAssumption, WordsAssumption, ShapeAssumption

-----------------------------------------------------------------------------
(* The settings of S3 and the others *)

Others == Settings \ S3Settings

\* The merged settings of a deployment.
Merged(d) == Merge(d.file, d.env)

\* Two configurations that differ only about S3.
AlikeButS3(a, b) ==
    /\ \A k \in Others : a.value[k] = b.value[k]
    /\ \A block \in {"jwt", "resource_metadata"} : block \in a.blocks <=> block \in b.blocks

LEMMA ReadSettings ==
    /\ \A k \in JWTSettings \cup MetadataSettings : k \in Others
    /\ \A k \in {"server.transport", "database.driver", "database.sqlite.path",
                 "database.postgres.dsn", "database.libsql.url", "auth.tokens",
                 "auth.named_tokens", "auth.enabled", "expiration.enabled",
                 "expiration.interval_hours", "expiration.ttl_hours"} : k \in Others
BY DEF Others, Settings, Texts, Switches, Numbers, JWTSettings, MetadataSettings, S3Settings,
       ProxySettings

\* A setting that is not about S3 needs no block of S3, and the other way round.
LEMMA BlocksApart ==
    ASSUME NEW k
    PROVE  /\ k \in S3Settings => BlocksOf(k) \subseteq {"s3", "proxy"}
           /\ k \notin S3Settings => BlocksOf(k) \cap {"s3", "proxy"} = {}
BY DEF BlocksOf, JWTSettings, MetadataSettings, S3Settings, ProxySettings

\* Dropping the settings of S3 changes nothing else.
LEMMA MergedAlike ==
    ASSUME NEW d
    PROVE  /\ AlikeButS3(Merged(d), Merged(WithoutS3(d)))
           /\ "s3" \notin Merged(WithoutS3(d)).blocks
<1>. DEFINE e == WithoutS3(d)
            raw(x) == ApplyEnvOverrides(ApplyFile(Defaults, x.file), x.env)
<1>1. /\ e.file.blocks = d.file.blocks \ {"s3", "proxy"}
      /\ e.file.value = [k \in DOMAIN d.file.value \ S3Settings |-> d.file.value[k]]
      /\ e.env = [k \in DOMAIN d.env \ S3Settings |-> d.env[k]]
  BY DEF WithoutS3
<1>2. ASSUME NEW k \in Others PROVE raw(d).value[k] = raw(e).value[k]
  <2>1. k \in Settings /\ k \notin S3Settings
    BY DEF Others
  <2>2. ApplyFile(Defaults, d.file).value[k] = ApplyFile(Defaults, e.file).value[k]
    BY <1>1, <2>1 DEF ApplyFile
  <2>. QED BY <1>1, <2>1, <2>2 DEF ApplyEnvOverrides, EnvValue
<1>3. ASSUME NEW block
      PROVE  block \in raw(d).blocks
                <=> block \in d.file.blocks \/ \E k \in DOMAIN d.env : block \in BlocksOf(k)
  BY DEF ApplyEnvOverrides, ApplyFile, Defaults
<1>4. ASSUME NEW block
      PROVE  block \in raw(e).blocks
                <=> \/ block \in d.file.blocks \ {"s3", "proxy"}
                    \/ \E k \in DOMAIN d.env \ S3Settings : block \in BlocksOf(k)
  BY <1>1 DEF ApplyEnvOverrides, ApplyFile, Defaults
<1>5. ASSUME NEW block \in {"jwt", "resource_metadata"}
      PROVE  block \in raw(d).blocks <=> block \in raw(e).blocks
  <2>1. block \notin {"s3", "proxy"}
    OBVIOUS
  <2>. QED BY <1>3, <1>4, <2>1, BlocksApart
<1>6. "s3" \notin raw(e).blocks
  BY <1>4, BlocksApart
<1>7. ASSUME NEW x
      PROVE  /\ DropDisabledS3(raw(x)).value = raw(x).value
             /\ DropDisabledS3(raw(x)).blocks
                   \in {raw(x).blocks, raw(x).blocks \ {"s3", "proxy"}}
  <2>1. raw(x) = [blocks |-> raw(x).blocks, value |-> raw(x).value]
    BY DEF ApplyEnvOverrides
  <2>. HIDE DEF raw
  <2>. QED BY <2>1 DEF DropDisabledS3
<1>8. Merged(d) = DropDisabledS3(raw(d)) /\ Merged(e) = DropDisabledS3(raw(e))
  BY DEF Merged, Merge
<1>. HIDE DEF raw, e
<1>9. \A k \in Others : Merged(d).value[k] = Merged(e).value[k]
  BY <1>2, <1>7, <1>8
<1>10. ASSUME NEW block \in {"jwt", "resource_metadata"}
       PROVE  block \in Merged(d).blocks <=> block \in Merged(e).blocks
  <2>1. block \notin {"s3", "proxy"}
    OBVIOUS
  <2>. QED BY <1>5, <1>7, <1>8, <2>1
<1>11. "s3" \notin Merged(e).blocks
  BY <1>6, <1>7, <1>8
<1>. QED BY <1>9, <1>10, <1>11 DEF AlikeButS3, e

\* Normalising touches settings of S3 only, and blocks not at all.
LEMMA NormaliseKeeps ==
    ASSUME NEW cfg, cfg = [blocks |-> cfg.blocks, value |-> cfg.value]
    PROVE  /\ Normalise(cfg).blocks = cfg.blocks
           /\ \A k \in Others : Normalise(cfg).value[k] = cfg.value[k]
BY DEF Normalise, Others, Settings, S3Settings, ProxySettings

\* Validation and the core of the server read nothing about S3.
LEMMA AlikeValidate ==
    ASSUME NEW a, NEW b, AlikeButS3(a, b)
    PROVE  Validate(a) <=> Validate(b)
<1>1. DatabaseLocated(a) <=> DatabaseLocated(b)
  BY ReadSettings DEF AlikeButS3, DatabaseLocated
<1>2. ("jwt" \in a.blocks => a.value["auth.jwt.jwks_url"] # Unset)
      <=> ("jwt" \in b.blocks => b.value["auth.jwt.jwks_url"] # Unset)
  BY ReadSettings DEF AlikeButS3, JWTSettings
<1>3. ("resource_metadata" \in a.blocks => \A k \in MetadataSettings : a.value[k] # Unset)
      <=> ("resource_metadata" \in b.blocks => \A k \in MetadataSettings : b.value[k] # Unset)
  BY ReadSettings DEF AlikeButS3
<1>4. \A k \in {"server.transport", "expiration.interval_hours", "expiration.ttl_hours"} :
         a.value[k] = b.value[k]
  BY ReadSettings DEF AlikeButS3
<1>. QED BY <1>1, <1>2, <1>3, <1>4 DEF Validate

LEMMA AlikeAuthenticator ==
    ASSUME NEW a, NEW b, AlikeButS3(a, b)
    PROVE  Authenticator(a) = Authenticator(b)
<1>1. /\ a.value["auth.enabled"] = b.value["auth.enabled"]
      /\ a.value["auth.named_tokens"] = b.value["auth.named_tokens"]
      /\ a.value["auth.tokens"] = b.value["auth.tokens"]
      /\ a.value["auth.jwt.issuer"] = b.value["auth.jwt.issuer"]
      /\ a.value["auth.jwt.audience"] = b.value["auth.jwt.audience"]
      /\ a.value["auth.jwt.required_scopes"] = b.value["auth.jwt.required_scopes"]
      /\ a.value["auth.jwt.identity_claim"] = b.value["auth.jwt.identity_claim"]
  BY ReadSettings DEF AlikeButS3, JWTSettings
<1>2. ("jwt" \in a.blocks) = ("jwt" \in b.blocks)
  BY DEF AlikeButS3
<1>. QED BY <1>1, <1>2, Zenon DEF Authenticator

\* Boot and Starts read a configuration only in these ways.
LEMMA CoreAlike ==
    ASSUME NEW d
    PROVE  LET e == WithoutS3(d)
           IN  /\ Loads(d.file, d.env) <=> Loads(e.file, e.env)
               /\ Boot(d).core = Boot(e).core
               /\ e.token = d.token /\ e.keys = d.keys
<1>. DEFINE e == WithoutS3(d)
            a == Load(d.file, d.env)
            b == Load(e.file, e.env)
<1>1. AlikeButS3(Merged(d), Merged(e))
  BY MergedAlike
<1>2. Loads(d.file, d.env) <=> Loads(e.file, e.env)
  BY <1>1, AlikeValidate DEF Loads, Merged
<1>3. e.token = d.token /\ e.keys = d.keys
  BY DEF WithoutS3
<1>4. AlikeButS3(a, b)
  <2>1. ASSUME NEW x PROVE Merged(x) = [blocks |-> Merged(x).blocks, value |-> Merged(x).value]
    BY DEF Merged, Merge, DropDisabledS3, ApplyEnvOverrides
  <2>2. a = Normalise(Merged(d)) /\ b = Normalise(Merged(e))
    BY DEF Load, Merged
  <2>. HIDE DEF a, b, e
  <2>. QED BY <1>1, <2>1, <2>2, NormaliseKeeps DEF AlikeButS3
<1>5. Authenticator(a) = Authenticator(b)
  BY <1>4, AlikeAuthenticator
<1>6. /\ a.value["server.transport"] = b.value["server.transport"]
      /\ a.value["database.driver"] = b.value["database.driver"]
      /\ a.value["expiration.enabled"] = b.value["expiration.enabled"]
  BY <1>4, ReadSettings DEF AlikeButS3
<1>7. Boot(d).core = Boot(e).core
  <2>1. ASSUME NEW x
        PROVE  Boot(x).core =
                 [driver |-> Load(x.file, x.env).value["database.driver"],
                  stdio  |-> Load(x.file, x.env).value["server.transport"] = "stdio",
                  token  |-> IF Load(x.file, x.env).value["server.transport"] = "stdio"
                             THEN x.token ELSE NoToken,
                  auth   |-> Authenticator(Load(x.file, x.env)),
                  worker |-> Load(x.file, x.env).value["expiration.enabled"]]
    BY Zenon DEF Boot
  <2>. HIDE DEF a, b, e
  <2>. QED BY <1>3, <1>5, <1>6, <2>1, Zenon DEF a, b
<1>. QED BY <1>2, <1>3, <1>7

\* A switch that says no discards the block of S3.
LEMMA SwitchedOff ==
    ASSUME NEW d, S3IsOff(d)
    PROVE  "s3" \notin Merged(d).blocks
<1>. DEFINE raw == ApplyEnvOverrides(ApplyFile(Defaults, d.file), d.env)
<1>1. CASE "s3" \notin raw.blocks
  BY <1>1 DEF Merged, Merge, DropDisabledS3, S3SwitchedOff
<1>2. CASE "s3" \in raw.blocks
  <2>1. "s3.enabled" \in Settings /\ "s3.enabled" \in Switches
    BY DEF Settings, Switches
  <2>2. raw.value["s3.enabled"] = FALSE
    <3>1. CASE "s3.enabled" \in DOMAIN d.env
      <4>1. raw.value["s3.enabled"] = TextMeansTrue("s3.enabled", d.env["s3.enabled"])
        BY <2>1, <3>1, Zenon DEF ApplyEnvOverrides, EnvValue
      <4>2. ~TextMeansTrue("s3.enabled", d.env["s3.enabled"])
        BY <3>1 DEF S3IsOff, TextMeansTrue
      <4>3. TextMeansTrue("s3.enabled", d.env["s3.enabled"]) \in BOOLEAN
        BY DEF TextMeansTrue
      <4>. QED BY <4>1, <4>2, <4>3
    <3>2. CASE "s3.enabled" \notin DOMAIN d.env
      <4>1. d.file.value["s3.enabled"] = FALSE /\ "s3.enabled" \in DOMAIN d.file.value
        BY <3>2 DEF S3IsOff
      <4>. QED BY <2>1, <3>2, <4>1 DEF ApplyEnvOverrides, ApplyFile
    <3>. QED BY <3>1, <3>2
  <2>3. Merged(d) = [raw EXCEPT !.blocks = @ \ {"s3", "proxy"}]
    BY <1>2, <2>2 DEF Merged, Merge, DropDisabledS3, S3SwitchedOff
  <2>4. raw = [blocks |-> raw.blocks, value |-> raw.value]
    BY DEF ApplyEnvOverrides
  <2>. HIDE DEF raw
  <2>. QED BY <2>3, <2>4
<1>. QED BY <1>1, <1>2

\* Without the block nothing is served from a bucket.
LEMMA NoBucket ==
    ASSUME NEW x, "s3" \notin Merged(x).blocks
    PROVE  Boot(x) = [core |-> Boot(x).core, files |-> FALSE, proxy |-> FALSE, retention |-> 90]
<1>1. Load(x.file, x.env) = Merged(x)
  BY DEF Load, Merged, Normalise
<1>2. FilesOn(Load(x.file, x.env), x.keys) = FALSE
  BY <1>1 DEF FilesOn
<1>3. ProxyOn(Load(x.file, x.env), x.keys) = FALSE
  BY <1>2 DEF ProxyOn
<1>4. Retention(Load(x.file, x.env), x.keys) = 90
  BY <1>3 DEF Retention
<1>. QED BY <1>2, <1>3, <1>4, Zenon DEF Boot

\* Whatever is set about S3 and its proxy, the server starts as without it and
\* serves entries as without it, and s3.enabled = false leaves no trace of the
\* rest, for every deployment (config.go:266-270, main.go:92-137).
THEOREM S3LeavesTheRestAlone == ToolsSpec => []S3Isolated
<1>1. ASSUME NEW d PROVE Starts(d) <=> Starts(WithoutS3(d))
  BY CoreAlike DEF Starts
<1>2. ASSUME NEW d, S3IsOff(d) PROVE Boot(d) = Boot(WithoutS3(d))
  <2>1. "s3" \notin Merged(d).blocks /\ "s3" \notin Merged(WithoutS3(d)).blocks
    BY <1>2, SwitchedOff, MergedAlike
  <2>2. Boot(d).core = Boot(WithoutS3(d)).core
    BY CoreAlike
  <2>. QED BY <2>1, <2>2, NoBucket
<1>3. S3Isolated
  BY <1>1, <1>2, CoreAlike DEF S3Isolated
<1>. QED BY <1>3, PTL
-----------------------------------------------------------------------------
(* The order of words *)

LEMMA LeastNatural ==
    ASSUME NEW S \in SUBSET Nat, S # {}
    PROVE  \E n \in S : \A m \in S : n <= m
<1>1. PICK n \in S : \A m \in S : ~(<<m, n>> \in OpToRel(<, Nat))
  BY NatLessThanWellFounded, WFMin
<1>2. ASSUME NEW m \in S PROVE n <= m
  <2>1. ~(m < n)
    BY <1>1 DEF OpToRel
  <2>. QED BY <2>1
<1>. QED BY <1>2

LEMMA LettersOfWords ==
    ASSUME NEW w \in Words
    PROVE  /\ Len(w) \in Nat /\ w \in [1 .. Len(w) -> Nat]
<1>1. Letters \cup Digits \subseteq Nat
  BY ToolsAssumption DEF Digits
<1>2. Len(w) \in Nat /\ w \in [1 .. Len(w) -> Letters \cup Digits]
  BY DEF Words
<1>. QED BY <1>1, <1>2

\* What tells that one word precedes another.
LEMMA PrecedesAt ==
    ASSUME NEW u, NEW v, NEW n \in Nat, n <= Len(u), n <= Len(v), Len(u) \in Nat,
           SubSeq(u, 1, n) = SubSeq(v, 1, n),
           \/ n = Len(u) /\ n < Len(v)
           \/ n < Len(u) /\ n < Len(v) /\ u[n + 1] < v[n + 1]
    PROVE  Precedes(u, v)
<1>1. n \in 0 .. Len(u)
  OBVIOUS
<1>. QED BY <1>1, Zenon DEF Precedes

\* No word precedes itself.
LEMMA PrecedesIrreflexive ==
    ASSUME NEW w \in Words
    PROVE  ~Precedes(w, w)
BY LettersOfWords DEF Precedes

\* Of two words one precedes the other: the order of the database is total.
LEMMA PrecedesTotal ==
    ASSUME NEW u \in Words, NEW v \in Words, u # v
    PROVE  Precedes(u, v) \/ Precedes(v, u)
<1>. DEFINE D == {i \in 1 .. Len(u) : i <= Len(v) /\ u[i] # v[i]}
<1>0. /\ Len(u) \in Nat /\ u \in [1 .. Len(u) -> Nat]
      /\ Len(v) \in Nat /\ v \in [1 .. Len(v) -> Nat]
  BY LettersOfWords
<1>1. ASSUME NEW n \in Nat, n <= Len(u), n <= Len(v), \A i \in 1 .. n : u[i] = v[i]
      PROVE  SubSeq(u, 1, n) = SubSeq(v, 1, n)
  BY <1>0, <1>1
<1>2. CASE D = {}
  <2>1. \A i \in 1 .. Len(u) : i <= Len(v) => u[i] = v[i]
    BY <1>2
  <2>2. CASE Len(u) = Len(v)
    BY <1>0, <2>1, <2>2
  <2>3. CASE Len(u) < Len(v)
    <3>1. SubSeq(u, 1, Len(u)) = SubSeq(v, 1, Len(u))
      BY <1>0, <1>1, <2>1, <2>3
    <3>. QED BY <1>0, <2>3, <3>1, PrecedesAt
  <2>4. CASE Len(v) < Len(u)
    <3>1. SubSeq(u, 1, Len(v)) = SubSeq(v, 1, Len(v))
      BY <1>0, <1>1, <2>1, <2>4
    <3>. QED BY <1>0, <2>4, <3>1, PrecedesAt
  <2>5. Len(u) = Len(v) \/ Len(u) < Len(v) \/ Len(v) < Len(u)
    <3>1. \A m, n \in Nat : m = n \/ m < n \/ n < m
      OBVIOUS
    <3>. QED BY <1>0, <3>1, Zenon
  <2>. QED BY <2>2, <2>3, <2>4, <2>5
<1>3. CASE D # {}
  <2>1. D \in SUBSET Nat
    BY <1>0
  <2>2. PICK i \in D : \A j \in D : i <= j
    <3>. HIDE DEF D
    <3>. QED BY <1>3, <2>1, LeastNatural
  <2>3. i \in 1 .. Len(u) /\ i <= Len(v) /\ u[i] # v[i]
    BY <2>2
  <2>4. \A j \in 1 .. i - 1 : u[j] = v[j]
    BY <1>0, <2>2
  <2>5. SubSeq(u, 1, i - 1) = SubSeq(v, 1, i - 1)
    BY <1>0, <1>1, <2>3, <2>4
  <2>6. i - 1 \in Nat /\ i - 1 < Len(u) /\ i - 1 < Len(v) /\ (i - 1) + 1 = i
    BY <1>0, <2>3
  <2>. HIDE DEF D
  <2>. DEFINE n == i - 1
  <2>7. /\ n \in Nat /\ n < Len(u) /\ n < Len(v) /\ n <= Len(u) /\ n <= Len(v)
        /\ u[n + 1] = u[i] /\ v[n + 1] = v[i]
    BY <1>0, <2>6
  <2>8. SubSeq(u, 1, n) = SubSeq(v, 1, n) /\ SubSeq(v, 1, n) = SubSeq(u, 1, n)
    BY <2>5
  <2>9. u[i] < v[i] \/ v[i] < u[i]
    BY <1>0, <2>3
  <2>. HIDE DEF n
  <2>10. CASE u[i] < v[i]
    <3>1. u[n + 1] < v[n + 1]
      BY <2>7, <2>10, Zenon
    <3>. QED BY <1>0, <2>7, <2>8, <3>1, PrecedesAt, Zenon
  <2>11. CASE v[i] < u[i]
    <3>1. v[n + 1] < u[n + 1]
      BY <2>7, <2>11, Zenon
    <3>. QED BY <1>0, <2>7, <2>8, <3>1, PrecedesAt, Zenon
  <2>. QED BY <2>9, <2>10, <2>11
<1>. QED BY <1>2, <1>3

-----------------------------------------------------------------------------
(* Lists and the places in them *)

\* No entry is created in the future, and an id not yet used has no creator.
CreationRange ==
    /\ \A id \in Ids : created[id] \in 0 .. now
    /\ \A id \in Ids \ minted : creator[id] = Anonymous

Listed(q) == Matching(entries, q)

\* How many rows have to stand before this one.
Rank(q, id) == Cardinality({other \in Listed(q) : Before(q, other, id)})

LEMMA ListedIsFinite ==
    ASSUME DInv, FinitelyMany, NEW q
    PROVE  /\ IsFiniteSet(Listed(q)) /\ Cardinality(Listed(q)) \in Nat
           /\ Listed(q) \subseteq minted /\ Listed(q) \subseteq Ids
           /\ \A id \in Listed(q) : entries[id] \in Row
<1>1. /\ Listed(q) \subseteq minted /\ Listed(q) \subseteq Ids
      /\ \A id \in Listed(q) : entries[id] \in Row
  BY DEF DInv, IInv, TypeOK, RowsAreMinted, Present, Listed, Matching
<1>2. IsFiniteSet(Listed(q))
  BY <1>1, FS_Subset DEF FinitelyMany
<1>. QED BY <1>1, <1>2, FS_CardinalityType

RanksAreNumbers == \A q, id : Rank(q, id) \in Nat /\ 0 <= Rank(q, id)

LEMMA RankType == DInv /\ FinitelyMany => RanksAreNumbers
<1>. SUFFICES ASSUME DInv, FinitelyMany, NEW q, NEW id
              PROVE  Rank(q, id) \in Nat /\ 0 <= Rank(q, id)
  BY DEF RanksAreNumbers
<1>. DEFINE first == {other \in Listed(q) : Before(q, other, id)}
<1>1. IsFiniteSet(first)
  <2>1. first \subseteq Listed(q)
    OBVIOUS
  <2>. HIDE DEF first
  <2>. QED BY <2>1, ListedIsFinite, FS_Subset
<1>. QED BY <1>1, FS_CardinalityType DEF Rank

LEMMA BeforeIrreflexive ==
    ASSUME DInv, FinitelyMany, CreationRange, NEW q, NEW id \in Listed(q)
    PROVE  ~Before(q, id, id)
<1>1. entries[id].word \in Words /\ id \in Ids
  BY ListedIsFinite DEF Row
<1>2. created[id] \in Int
  BY <1>1 DEF CreationRange
<1>3. ~(created[id] < created[id])
  BY <1>2
<1>4. ~Precedes(entries[id].word, entries[id].word)
  BY <1>1, PrecedesIrreflexive
<1>. QED BY <1>3, <1>4 DEF Before

\* An order of the rows leaves none out.
LEMMA OrderCovers ==
    ASSUME DInv, FinitelyMany, NEW q, NEW s \in Orders(q)
    PROVE  /\ s \in [1 .. Cardinality(Listed(q)) -> Listed(q)]
           /\ \A id \in Listed(q) : \E i \in 1 .. Cardinality(Listed(q)) : s[i] = id
<1>. DEFINE n == Cardinality(Listed(q))
<1>1. n \in Nat /\ IsFiniteSet(Listed(q))
  BY ListedIsFinite
<1>2. s \in [1 .. n -> Listed(q)] /\ \A i, j \in 1 .. n : i < j => s[i] # s[j]
  BY DEF Orders, Listed
<1>3. s \in Injection(1 .. n, Listed(q))
  <2>1. ASSUME NEW i \in 1 .. n, NEW j \in 1 .. n, s[i] = s[j] PROVE i = j
    BY <1>1, <1>2, <2>1
  <2>. QED BY <1>2, <2>1 DEF Injection, IsInjective
<1>4. Cardinality(1 .. n) = n
  BY <1>1, FS_Interval
<1>. HIDE DEF n
<1>5. Cardinality(1 .. n) = Cardinality(Listed(q))
  BY <1>4 DEF n
<1>6. s \in Surjection(1 .. n, Listed(q))
  BY <1>1, <1>3, <1>5, FS_Injection
<1>7. \A id \in Listed(q) : \E i \in 1 .. n : s[i] = id
  BY <1>6 DEF Surjection
<1>. QED BY <1>2, <1>7 DEF n

\* Where no rows tie, every row has one place: as many before it as have to be.
LEMMA PlaceIsRank ==
    ASSUME DInv, FinitelyMany, CreationRange, NEW q, ~Tied(q), NEW s \in Orders(q),
           NEW i \in 1 .. Cardinality(Listed(q))
    PROVE  Rank(q, s[i]) = i - 1
<1>. DEFINE n == Cardinality(Listed(q))
            first == {other \in Listed(q) : Before(q, other, s[i])}
            front == [j \in 1 .. i - 1 |-> s[j]]
<1>1. n \in Nat /\ i \in 1 .. n
  BY ListedIsFinite
<1>2. /\ s \in [1 .. n -> Listed(q)]
      /\ \A a, b \in 1 .. n : a < b => s[a] # s[b] /\ ~Before(q, s[b], s[a])
  BY DEF Orders, Listed
<1>3. \A id \in Listed(q) : \E j \in 1 .. n : s[j] = id
  BY OrderCovers
<1>4. ASSUME NEW j \in 1 .. n PROVE s[j] \in first <=> j < i
  <2>1. s[j] \in Listed(q) /\ s[i] \in Listed(q)
    BY <1>1, <1>2
  <2>2. CASE j < i
    <3>1. s[j] # s[i] /\ ~Before(q, s[i], s[j])
      BY <1>1, <1>2, <2>2
    <3>2. Before(q, s[j], s[i])
      BY <2>1, <3>1 DEF Tied, Listed
    <3>. QED BY <2>1, <2>2, <3>2
  <2>3. CASE j = i
    BY <2>1, <2>3, BeforeIrreflexive, <1>1
  <2>4. CASE i < j
    BY <1>1, <1>2, <2>4
  <2>. QED BY <1>1, <2>2, <2>3, <2>4
<1>5. front \in [1 .. i - 1 -> first]
  BY <1>1, <1>4
<1>6. \A id \in first : \E j \in 1 .. i - 1 : front[j] = id
  <2>. SUFFICES ASSUME NEW id \in first PROVE \E j \in 1 .. i - 1 : front[j] = id
    OBVIOUS
  <2>1. PICK j \in 1 .. n : s[j] = id
    BY <1>3
  <2>2. j < i
    BY <1>4, <2>1
  <2>. QED BY <1>1, <2>1, <2>2
<1>7. \A a, b \in 1 .. i - 1 : front[a] = front[b] => a = b
  BY <1>1, <1>2
<1>. HIDE DEF front, first
<1>8. front \in Bijection(1 .. i - 1, first)
  BY <1>5, <1>6, <1>7 DEF Bijection, Injection, Surjection, IsInjective
<1>9. IsFiniteSet(1 .. i - 1) /\ Cardinality(1 .. i - 1) = i - 1
  <2>1. i - 1 \in Int /\ (i - 1) - 1 + 1 = i - 1 /\ (1 > i - 1 => i - 1 = 0)
    BY <1>1
  <2>. QED BY <2>1, FS_Interval
<1>10. ExistsBijection(1 .. i - 1, first)
  BY <1>8 DEF ExistsBijection
<1>11. Cardinality(first) = i - 1
  BY <1>9, <1>10, FS_Bijection
<1>. QED BY <1>11 DEF first, Rank

\* A page is the rows in the places after the offset, as many as the limit, and
\* is not full only if it reaches the end.
RowsOf(page) == {page[i] : i \in DOMAIN page}

LEMMA PageIsWindow ==
    ASSUME NEW n \in Nat, NEW S, NEW s \in [1 .. n -> S], NEW limit \in Nat, NEW offset \in Nat
    PROVE  LET page == Page(s, limit, offset)
               end == offset + EffectiveLimit(limit)
           IN  /\ \A x : x \in RowsOf(page)
                        <=> \E k \in 1 .. n : offset < k /\ k <= end /\ x = s[k]
               /\ EffectiveLimit(limit) \in Nat
               /\ Len(page) \in Nat /\ (Len(page) < EffectiveLimit(limit) => n < end)
<1>. DEFINE end == offset + EffectiveLimit(limit)
            last == IF end < n THEN end ELSE n
            size == IF offset < last THEN last - offset ELSE 0
            page == Page(s, limit, offset)
<1>1. EffectiveLimit(limit) \in Nat /\ EffectiveLimit(limit) > 0
  BY ToolsAssumption DEF EffectiveLimit
<1>2. end \in Nat /\ offset < end /\ last \in Nat /\ last <= n /\ last <= end
  BY <1>1
<1>3. size \in Nat
  BY <1>2
<1>4. Len(s) = n
  OBVIOUS
<1>5. page = SubSeq(s, offset + 1, last)
  BY <1>4, Zenon DEF Page
<1>6. page = [i \in 1 .. size |-> s[offset + i]]
  <2>. HIDE DEF last
  <2>1. page = [i \in 1 .. (1 + last - (offset + 1)) |-> s[i + (offset + 1) - 1]]
    BY <1>2, <1>5
  <2>2. 1 .. (1 + last - (offset + 1)) = 1 .. size
    BY <1>2
  <2>3. \A i \in 1 .. size : i + (offset + 1) - 1 = offset + i
    BY <1>3
  <2>. HIDE DEF size, page
  <2>. QED BY <2>1, <2>2, <2>3
<1>7. DOMAIN page = 1 .. size /\ Len(page) = size /\ \A i \in 1 .. size : page[i] = s[offset + i]
  <2>. HIDE DEF size, page
  <2>. QED BY <1>3, <1>6
<1>8. ASSUME NEW x
      PROVE  x \in RowsOf(page) <=> \E k \in 1 .. n : offset < k /\ k <= end /\ x = s[k]
  <2>. HIDE DEF page
  <2>1. ASSUME NEW i \in 1 .. size
        PROVE  offset + i \in 1 .. n /\ offset < offset + i /\ offset + i <= end
    <3>. HIDE DEF end
    <3>. QED BY <1>2
  <2>2. ASSUME NEW k \in 1 .. n, offset < k, k <= end
        PROVE  k - offset \in 1 .. size /\ offset + (k - offset) = k
    <3>. HIDE DEF end
    <3>. QED BY <1>2, <2>2
  <2>. HIDE DEF end, size
  <2>3. x \in RowsOf(page) <=> \E i \in 1 .. size : x = s[offset + i]
    BY <1>7 DEF RowsOf
  <2>4. ASSUME NEW k \in 1 .. n, offset < k, k <= end, x = s[k]
        PROVE  \E i \in 1 .. size : x = s[offset + i]
    BY <2>2, <2>4
  <2>. QED BY <2>1, <2>3, <2>4
<1>9. Len(page) < EffectiveLimit(limit) => n < end
  <2>1. size < EffectiveLimit(limit) => n < end
    BY <1>1
  <2>. QED BY <1>7, <2>1
<1>. QED BY <1>1, <1>3, <1>7, <1>8, <1>9

-----------------------------------------------------------------------------
(* The invariant *)

\* A process that runs has read the settings of a deployment that starts.
ProcessRange ==
    /\ deployment \in Deployments \cup {NoDeployment}
    /\ running # Down =>
          /\ deployment = NoDeployment
          /\ \E d \in Deployments : Starts(d) /\ running = Boot(d).core

Walks == [at : {"counted", "paged", "done"}, query : Queries, limit : Nat \ {0},
          stop : {"total", "short page"}, offset : Nat, total : Nat, seen : SUBSET Ids,
          twice : BOOLEAN, kept : SUBSET Ids, left : BOOLEAN, came : BOOLEAN, tied : BOOLEAN]

WalkRange == walk = NoWalk \/ walk \in Walks

\* The rows that were there all the time and are still to be read stand behind
\* the offset, if no row left the list.
NothingSkipped ==
    ~walk.left => \A id \in walk.kept \ walk.seen : walk.offset <= Rank(walk.query, id)

\* The rows already read stand before the offset, if no row came to the list.
NothingRepeated ==
    ~walk.came =>
        /\ ~walk.twice
        /\ \A id \in walk.seen \cap Listed(walk.query) : Rank(walk.query, id) < walk.offset

\* The total is still that of the list, if no row left or came.
TotalTrue ==
    walk.at = "counted" /\ ~walk.left /\ ~walk.came =>
        walk.total = Cardinality(Listed(walk.query))

WalkOnCourse ==
    Reading =>
        /\ walk.kept \subseteq Listed(walk.query)
        /\ walk.limit \in 1 .. MaxLimit /\ ~walk.tied => NothingSkipped /\ NothingRepeated
        /\ TotalTrue

WordsDoNotTie ==
    walk.at # "none" /\ walk.query.sort_by = "word" /\ Status(walk.query) # "all" => ~walk.tied

TInv ==
    /\ DInv /\ FinitelyMany /\ ProcessRange /\ CreationRange /\ CreatedByIsTrue
    /\ WalkRange /\ WalkOnCourse /\ WordsDoNotTie /\ WalkComplete

LEMMA InitTInv == ToolsInit => TInv
<1>. SUFFICES ASSUME ToolsInit PROVE TInv
  OBVIOUS
<1>1. DInv
  BY InitDInv DEF ToolsInit
<1>2. FinitelyMany
  BY FS_EmptySet DEF ToolsInit, Init, FinitelyMany
<1>3. ProcessRange /\ CreationRange /\ CreatedByIsTrue
  BY DEF ToolsInit, Init, ProcessRange, CreationRange, CreatedByIsTrue
<1>4. WalkRange /\ walk.at = "none"
  BY DEF ToolsInit, NoWalk, WalkRange
<1>5. WalkOnCourse /\ WordsDoNotTie /\ WalkComplete
  BY <1>4 DEF WalkOnCourse, WordsDoNotTie, WalkComplete, Reading
<1>. QED BY <1>1, <1>2, <1>3, <1>4, <1>5 DEF TInv

-----------------------------------------------------------------------------
(* What a step does to the table and to what is recorded with it *)

\* The steps that may write to the table.
WriteStep ==
    \/ \E h \in Headers, w \in RequestWords, ttl \in TTLArgs : ToolStoreEntry(h, w, "fits", ttl)
    \/ \E ref \in Ids, ttl \in TTLArgs : Tool(RestoreEntry(ref, ttl))
    \/ \E ref \in Ids, ttl \in TTLArgs : Tool(UpdateExpiration(ref, ttl))
    \/ \E c \in Clients, ref \in Ids : Tool(DeleteEntry(c, ref))
    \/ ToolSweep
    \/ ToolTick

ListStep ==
    \/ \E q \in Queries, limit \in Limits, stop \in {"total", "short page"} :
          WalkBegins(q, limit, stop)
    \/ Count
    \/ Fetch

LEMMA StepKinds ==
    [ToolsNext]_toolVars <=>
        Deploy \/ Start \/ Stop \/ ListStep \/ WriteStep \/ UNCHANGED toolVars
BY DEF ToolsNext, ListStep, WriteStep

LEMMA ListStepFrame == ListStep => ListFrame /\ reply' = NoReply
BY DEF ListStep, WalkBegins, Count, Fetch

LEMMA TableStep ==
    ASSUME DInv, FinitelyMany, [ToolsNext]_toolVars
    PROVE  DInv' /\ Effect /\ FinitelyMany'
<1>1. ASSUME [Next]_vars PROVE DInv' /\ Effect /\ FinitelyMany'
  BY <1>1, NextKeepsDInv, NextEffect, EffectKeepsFinite DEF DInv
<1>2. CASE Deploy \/ Start \/ UNCHANGED toolVars
  BY <1>1, <1>2 DEF Deploy, Start, toolVars
<1>3. CASE Stop
  BY <1>1, <1>3 DEF Stop, Next
<1>4. CASE ListStep
  <2>1. UNCHANGED <<entries, minted, now, deleting>> /\ reply' = NoReply
    BY <1>4, ListStepFrame DEF ListFrame
  <2>2. NoReply \in Answers
    BY DEF NoReply, Answers, Ops, Errors, Words
  <2>3. DInv'
    BY <2>1, <2>2 DEF DInv, IInv, TypeOK, UniqueWordStatus, RowsAreMinted, Present
  <2>. QED BY <2>1, <2>3 DEF Effect, Growth, FinitelyMany
<1>5. CASE WriteStep
  <2>1. Next
    BY <1>5 DEF WriteStep, ToolStoreEntry, Tool, ToolSweep, ToolTick, Next, Refs
  <2>. QED BY <1>1, <2>1
<1>. QED BY <1>2, <1>3, <1>4, <1>5, StepKinds

\* What a write leaves as it is.
LEMMA WriteStepFrame ==
    ASSUME WriteStep
    PROVE  Watch /\ UNCHANGED <<deployment, running>>
BY DEF WriteStep, ToolStoreEntry, Tool, ToolSweep, ToolTick

\* Only store_entry uses up an id, and only it records a creation.
LEMMA OnlyStoreMints ==
    ASSUME WriteStep
    PROVE  \/ \E h \in Headers, w \in RequestWords, ttl \in TTLArgs :
                 ToolStoreEntry(h, w, "fits", ttl)
           \/ UNCHANGED <<minted, creator, created, author>>
<1>1. ASSUME NEW ref, NEW ttl, RestoreEntry(ref, ttl) PROVE UNCHANGED minted
  BY <1>1 DEF RestoreEntry, RestoreTx, UpdateStatus, Refuse
<1>2. ASSUME NEW ref, NEW ttl, UpdateExpiration(ref, ttl) PROVE UNCHANGED minted
  BY <1>2 DEF UpdateExpiration, UpdateExpirationTx, UpdateStatus, Refuse
<1>3. ASSUME NEW c, NEW ref, DeleteEntry(c, ref) PROVE UNCHANGED minted
  BY <1>3 DEF DeleteEntry, Delete, Refuse
<1>4. CASE ToolSweep \/ ToolTick
  BY <1>4 DEF ToolSweep, ToolTick, Sweep, Tick
<1>. QED BY <1>1, <1>2, <1>3, <1>4 DEF WriteStep, Tool

\* A write does not touch what was recorded of entries before.
LEMMA RecordsStay ==
    ASSUME DInv, WriteStep, NEW id \in minted
    PROVE  creator'[id] = creator[id] /\ created'[id] = created[id] /\ author'[id] = author[id]
<1>1. id \in Ids
  BY DEF DInv, IInv, TypeOK
<1>2. ASSUME NEW h, NEW w, NEW ttl, ToolStoreEntry(h, w, "fits", ttl)
      PROVE  creator'[id] = creator[id] /\ created'[id] = created[id] /\ author'[id] = author[id]
  BY <1>1, <1>2 DEF ToolStoreEntry
<1>. QED BY <1>2, OnlyStoreMints

LEMMA ClockGoesOn ==
    ASSUME DInv, WriteStep
    PROVE  now' \in Nat /\ now <= now'
<1>1. now \in Nat
  BY LimitsAssumption DEF DInv, IInv, TypeOK
<1>2. now' = now \/ now' = now + 1
  BY DEF WriteStep, ToolStoreEntry, Tool, ToolSweep, ToolTick, StoreEntry, RestoreEntry,
         UpdateExpiration, DeleteEntry, Sweep, Tick
<1>. QED BY <1>1, <1>2

LEMMA WriteKeepsCreation ==
    ASSUME DInv, DInv', CreationRange, WriteStep
    PROVE  CreationRange'
<1>1. now \in Nat /\ now' \in Nat /\ now <= now'
  BY ClockGoesOn, LimitsAssumption DEF DInv, IInv, TypeOK
<1>2. minted \subseteq Ids /\ minted' \subseteq Ids
  BY DEF DInv, IInv, TypeOK
<1>3. CASE UNCHANGED <<minted, creator, created, author>>
  <2>1. \A id \in Ids : created'[id] \in 0 .. now'
    BY <1>1, <1>3 DEF CreationRange
  <2>. QED BY <1>3, <2>1 DEF CreationRange
<1>4. ASSUME NEW h, NEW w, NEW ttl, ToolStoreEntry(h, w, "fits", ttl) PROVE CreationRange'
  <2>1. /\ created' = [id \in Ids |-> IF id \in minted' \ minted THEN now ELSE created[id]]
        /\ creator' = [id \in Ids |-> IF id \in minted' \ minted THEN Caller(h).identity
                                      ELSE creator[id]]
    BY <1>4 DEF ToolStoreEntry
  <2>2. minted \subseteq minted'
    BY <1>4 DEF ToolStoreEntry, StoreEntry, StoreTx, Store, Refuse
  <2>3. \A id \in Ids : created'[id] \in 0 .. now'
    BY <1>1, <2>1 DEF CreationRange
  <2>4. \A id \in Ids \ minted' : creator'[id] = Anonymous
    BY <2>1, <2>2 DEF CreationRange
  <2>. QED BY <2>3, <2>4 DEF CreationRange
<1>. QED BY <1>3, <1>4, OnlyStoreMints

-----------------------------------------------------------------------------
(* Who stored an entry *)

LEMMA FirstHit ==
    ASSUME NEW a, DOMAIN a.named = 1 .. Len(a.named), NEW token,
           \E i \in DOMAIN a.named : a.named[i].token = token
    PROVE  \E i \in DOMAIN a.named :
              /\ a.named[i].token = token
              /\ StaticVerdict(a, token) = Admitted(a.named[i].name)
<1>. DEFINE hits == {i \in DOMAIN a.named : a.named[i].token = token}
            first == CHOOSE i \in hits : \A j \in hits : i <= j
<1>1. hits \in SUBSET Nat /\ hits # {}
  BY DEF hits
<1>2. first \in hits
  <2>. HIDE DEF hits
  <2>. QED BY <1>1, LeastNatural
<1>3. StaticVerdict(a, token) = Admitted(a.named[first].name)
  BY <1>1, Zenon DEF StaticVerdict
<1>. QED BY <1>2, <1>3

\* Whoever is let in with a token is whom the token was given to.
LEMMA VerdictIsGiven ==
    ASSUME NEW d \in Deployments, Starts(d), NEW token, Boot(d).core.auth.enabled,
           ValidateToken(Boot(d).core.auth, token).ok
    PROVE  /\ token \in DOMAIN Given
           /\ ValidateToken(Boot(d).core.auth, token).identity = Given[token]
<1>. DEFINE a == Boot(d).core.auth
<1>1. /\ DOMAIN a.named = 1 .. Len(a.named)
      /\ \A i \in DOMAIN a.named :
            a.named[i].token \in DOMAIN Given /\ Given[a.named[i].token] = a.named[i].name
      /\ \A i \in DOMAIN a.tokens :
            a.tokens[i] # NoToken => a.tokens[i] \in DOMAIN Given /\ Given[a.tokens[i]] = Anonymous
      /\ \A t \in DOMAIN Claims :
            /\ a.jwt /\ Claims[t].genuine /\ a.scopes \subseteq Claims[t].scopes
            /\ a.issuer \subseteq {Claims[t].iss} /\ a.audience \subseteq Claims[t].aud
            => t \in DOMAIN Given /\ Given[t] = ClaimedIdentity(a, t)
  BY GivenAssumption, Zenon
<1>2. a.enabled /\ ValidateToken(a, token).ok
  OBVIOUS
<1>. HIDE DEF a
<1>3. token # NoToken
  BY <1>2 DEF ValidateToken, Unauthorized
<1>4. CASE JWTAccepts(a, token)
  <2>1. ValidateToken(a, token) = Admitted(ClaimedIdentity(a, token))
    BY <1>2, <1>3, <1>4 DEF ValidateToken
  <2>. QED BY <1>1, <1>4, <2>1 DEF JWTAccepts, ParserAccepts, Admitted, a
<1>5. CASE ~JWTAccepts(a, token)
  <2>1. ValidateToken(a, token) = StaticVerdict(a, token)
    BY <1>2, <1>3, <1>5 DEF ValidateToken
  <2>2. CASE \E i \in DOMAIN a.named : a.named[i].token = token
    <3>1. PICK i \in DOMAIN a.named : /\ a.named[i].token = token
                                     /\ StaticVerdict(a, token) = Admitted(a.named[i].name)
      <4>1. DOMAIN a.named = 1 .. Len(a.named)
        BY <1>1
      <4>. QED BY <2>2, <4>1, FirstHit, Zenon
    <3>2. token \in DOMAIN Given /\ ValidateToken(a, token).identity = Given[token]
      BY <1>1, <2>1, <3>1 DEF Admitted
    <3>. QED BY <3>2 DEF a
  <2>3. CASE ~\E i \in DOMAIN a.named : a.named[i].token = token
    <3>1. {i \in DOMAIN a.named : a.named[i].token = token} = {}
      BY <2>3
    <3>2. \E i \in DOMAIN a.tokens : a.tokens[i] = token
      BY <1>2, <2>1, <3>1 DEF StaticVerdict, Unauthorized
    <3>3. StaticVerdict(a, token) = Admitted(Anonymous)
      BY <3>1, <3>2 DEF StaticVerdict
    <3>. QED BY <1>1, <1>3, <2>1, <3>2, <3>3 DEF Admitted, a
  <2>. QED BY <2>2, <2>3
<1>. QED BY <1>4, <1>5

LEMMA StepKeepsCreators ==
    ASSUME DInv, DInv', ProcessRange, CreatedByIsTrue, WriteStep
    PROVE  CreatedByIsTrue'
<1>1. minted' \subseteq Ids
  BY DEF DInv, IInv, TypeOK
<1>2. ASSUME NEW id \in minted
      PROVE  IF author'[id] = Unasked THEN creator'[id] = Anonymous
             ELSE author'[id] \in DOMAIN Given /\ creator'[id] = Given[author'[id]]
  BY RecordsStay DEF CreatedByIsTrue
<1>3. ASSUME NEW h \in Headers, NEW w, NEW ttl, ToolStoreEntry(h, w, "fits", ttl),
             NEW id \in minted' \ minted
      PROVE  IF author'[id] = Unasked THEN creator'[id] = Anonymous
             ELSE author'[id] \in DOMAIN Given /\ creator'[id] = Given[author'[id]]
  <2>. DEFINE token == IF running.stdio THEN running.token ELSE h.token
  <2>1. running # Down /\ Caller(h).ok
    BY <1>3 DEF ToolStoreEntry
  <2>2. /\ creator'[id] = Caller(h).identity
        /\ author'[id] = IF running.auth.enabled THEN token ELSE Unasked
    BY <1>1, <1>3 DEF ToolStoreEntry
  <2>3. PICK d \in Deployments : Starts(d) /\ running = Boot(d).core
    BY <2>1 DEF ProcessRange
  <2>4. CASE ~running.auth.enabled
    <3>1. Caller(h) = Admitted(Anonymous)
      BY <2>4 DEF Caller, ValidateToken, HTTPMiddleware
    <3>. QED BY <2>2, <2>4, <3>1 DEF Admitted
  <2>5. CASE running.auth.enabled
    <3>1. Caller(h) = ValidateToken(running.auth, token)
      BY <2>1, <2>5 DEF Caller, HTTPMiddleware, Unauthorized
    <3>2. token \in DOMAIN Given /\ Caller(h).identity = Given[token]
      <4>. HIDE DEF token
      <4>. QED BY <2>1, <2>3, <2>5, <3>1, VerdictIsGiven
    <3>3. author'[id] = token /\ token # Unasked
      BY <2>2, <2>5, <3>2, GivenAssumption
    <3>. QED BY <2>2, <3>2, <3>3
  <2>. QED BY <2>4, <2>5
<1>. QED BY <1>2, <1>3, OnlyStoreMints DEF CreatedByIsTrue

-----------------------------------------------------------------------------
(* A walk while the table changes *)

LEMMA SameOrder ==
    ASSUME NEW q, NEW a, NEW b,
           entries'[a].word = entries[a].word, entries'[b].word = entries[b].word,
           created'[a] = created[a], created'[b] = created[b]
    PROVE  Before(q, a, b)' <=> Before(q, a, b)
BY DEF Before

\* A row that stays has no less rows before it than it had, if none left.
LEMMA RankGrows ==
    ASSUME DInv, DInv', FinitelyMany, FinitelyMany', NEW q,
           \A id \in Listed(q) :
              /\ id \in Listed(q)' /\ entries'[id].word = entries[id].word
              /\ created'[id] = created[id],
           NEW id \in Listed(q)
    PROVE  Rank(q, id) <= Rank(q, id)'
<1>. DEFINE early == {other \in Listed(q) : Before(q, other, id)}
            late == {other \in Listed(q)' : Before(q, other, id)'}
<1>1. early \subseteq late
  BY SameOrder
<1>2. IsFiniteSet(Listed(q)') /\ late \subseteq Listed(q)'
  <2>1. IsFiniteSet(Listed(q))'
    BY ListedIsFinite, PTL
  <2>. QED BY <2>1
<1>3. Rank(q, id) = Cardinality(early) /\ Rank(q, id)' = Cardinality(late)
  BY DEF Rank
<1>. HIDE DEF early, late
<1>4. IsFiniteSet(late)
  BY <1>2, FS_Subset
<1>. QED BY <1>1, <1>3, <1>4, FS_Subset

\* And no more, if none came.
LEMMA RankShrinks ==
    ASSUME DInv, DInv', FinitelyMany, FinitelyMany', NEW q,
           \A id \in Listed(q)' :
              /\ id \in Listed(q) /\ entries'[id].word = entries[id].word
              /\ created'[id] = created[id],
           NEW id \in Listed(q)'
    PROVE  Rank(q, id)' <= Rank(q, id)
<1>. DEFINE early == {other \in Listed(q) : Before(q, other, id)}
            late == {other \in Listed(q)' : Before(q, other, id)'}
<1>1. late \subseteq early
  BY SameOrder
<1>2. IsFiniteSet(Listed(q)) /\ early \subseteq Listed(q)
  BY ListedIsFinite
<1>3. Rank(q, id) = Cardinality(early) /\ Rank(q, id)' = Cardinality(late)
  BY DEF Rank
<1>. HIDE DEF early, late
<1>4. IsFiniteSet(early)
  BY <1>2, FS_Subset
<1>. QED BY <1>1, <1>3, <1>4, FS_Subset

\* What Watch notes of a step while a list is read.
LEMMA WatchNotes ==
    ASSUME WalkRange, Reading, Watch
    PROVE  LET before == Listed(walk.query)
               after == Listed(walk.query)'
               same == {id \in before \cap after : entries'[id].word = entries[id].word}
           IN  /\ walk' \in Walks /\ Reading'
               /\ walk'.at = walk.at /\ walk'.query = walk.query /\ walk'.limit = walk.limit
               /\ walk'.offset = walk.offset /\ walk'.total = walk.total
               /\ walk'.seen = walk.seen /\ walk'.twice = walk.twice /\ walk'.tied = walk.tied
               /\ walk'.kept = walk.kept \cap same
               /\ walk'.left = (walk.left \/ before # same)
               /\ walk'.came = (walk.came \/ after # same)
<1>. DEFINE before == Matching(entries, walk.query)
            after == Matching(entries', walk.query)
            same == {id \in before \cap after : entries'[id].word = entries[id].word}
<1>1. walk \in Walks /\ walk.at \in {"counted", "paged"}
  BY DEF WalkRange, Reading, NoWalk
<1>2. walk' = [walk EXCEPT !.kept = @ \cap same, !.left = @ \/ before # same,
                           !.came = @ \/ after # same]
  BY Zenon DEF Watch
<1>. HIDE DEF before, after, same
<1>3. walk.left \in BOOLEAN /\ walk.came \in BOOLEAN /\ walk.kept \in SUBSET Ids
  BY <1>1 DEF Walks
<1>4. (walk.left \/ before # same) \in BOOLEAN /\ (walk.came \/ after # same) \in BOOLEAN
      /\ walk.kept \cap same \in SUBSET Ids
  BY <1>3
<1>5. ASSUME NEW l \in BOOLEAN, NEW c \in BOOLEAN, NEW k \in SUBSET Ids,
             walk' = [walk EXCEPT !.kept = k, !.left = l, !.came = c]
      PROVE  /\ walk' \in Walks
             /\ walk'.at = walk.at /\ walk'.query = walk.query /\ walk'.limit = walk.limit
             /\ walk'.offset = walk.offset /\ walk'.total = walk.total
             /\ walk'.seen = walk.seen /\ walk'.twice = walk.twice /\ walk'.tied = walk.tied
             /\ walk'.kept = k /\ walk'.left = l /\ walk'.came = c
  BY <1>1, <1>5 DEF Walks
<1>6. walk' = [walk EXCEPT !.kept = walk.kept \cap same, !.left = walk.left \/ before # same,
                           !.came = walk.came \/ after # same]
  BY <1>2
<1>7. /\ walk' \in Walks
      /\ walk'.at = walk.at /\ walk'.query = walk.query /\ walk'.limit = walk.limit
      /\ walk'.offset = walk.offset /\ walk'.total = walk.total
      /\ walk'.seen = walk.seen /\ walk'.twice = walk.twice /\ walk'.tied = walk.tied
      /\ walk'.kept = walk.kept \cap same
      /\ walk'.left = (walk.left \/ before # same) /\ walk'.came = (walk.came \/ after # same)
  BY <1>4, <1>5, <1>6
<1>. QED BY <1>1, <1>7 DEF Reading, Listed, before, after, same

Walking == WalkRange /\ WalkOnCourse /\ WordsDoNotTie /\ WalkComplete

\* A walk that is not begun, or forgotten, is on course.
LEMMA NoWalkIsFine == walk = NoWalk => Walking
BY DEF Walking, WalkRange, WalkOnCourse, WordsDoNotTie, WalkComplete, NoWalk, Reading

LEMMA WatchKeepsWalking ==
    ASSUME DInv, DInv', FinitelyMany, FinitelyMany', Walking, Watch,
           \A id \in minted : created'[id] = created[id]
    PROVE  Walking'
<1>1. CASE ~Reading
  <2>1. walk' = NoWalk
    BY <1>1 DEF Watch
  <2>2. (walk = NoWalk => Walking)'
    BY NoWalkIsFine, PTL
  <2>. QED BY <2>1, <2>2 DEF NoWalk
<1>2. CASE Reading
  <2>. DEFINE q == walk.query
              before == Listed(q)
              after == Listed(q)'
              same == {id \in before \cap after : entries'[id].word = entries[id].word}
  <2>1. /\ walk' \in Walks /\ Reading'
        /\ walk'.at = walk.at /\ walk'.query = q /\ walk'.limit = walk.limit
        /\ walk'.offset = walk.offset /\ walk'.total = walk.total
        /\ walk'.seen = walk.seen /\ walk'.twice = walk.twice /\ walk'.tied = walk.tied
        /\ walk'.kept = walk.kept \cap same
        /\ walk'.left = (walk.left \/ before # same) /\ walk'.came = (walk.came \/ after # same)
    BY <1>2, WatchNotes DEF Walking
  <2>2. before \subseteq minted /\ \A id \in before : created'[id] = created[id]
    BY ListedIsFinite
  <2>3. /\ walk \in Walks /\ walk.kept \subseteq before /\ TotalTrue
        /\ walk.limit \in 1 .. MaxLimit /\ ~walk.tied => NothingSkipped /\ NothingRepeated
    BY <1>2 DEF Walking, WalkRange, WalkOnCourse, Reading, NoWalk
  <2>4. walk'.kept \subseteq Listed(walk.query)'
    BY <2>1
  <2>5. ASSUME ~walk'.left
        PROVE  /\ ~walk.left /\ before = same /\ walk'.kept = walk.kept
               /\ \A id \in before : /\ id \in after /\ entries'[id].word = entries[id].word
                                     /\ created'[id] = created[id]
    <3>1. ~walk.left /\ before = same
      BY <2>1, <2>5
    <3>. QED BY <2>1, <2>2, <2>3, <3>1
  <2>6. ASSUME ~walk'.came
        PROVE  /\ ~walk.came /\ after = same
               /\ \A id \in after : /\ id \in before /\ entries'[id].word = entries[id].word
                                    /\ created'[id] = created[id]
    <3>1. ~walk.came /\ after = same
      BY <2>1, <2>6
    <3>. QED BY <2>2, <3>1
  <2>7. ASSUME walk'.limit \in 1 .. MaxLimit, ~walk'.tied PROVE NothingSkipped'
    <3>1. NothingSkipped
      BY <2>1, <2>3, <2>7
    <3>. SUFFICES ASSUME ~walk'.left, NEW id \in walk'.kept \ walk'.seen
                  PROVE  walk'.offset <= Rank(walk.query, id)'
      BY DEF NothingSkipped
    <3>2. id \in before /\ walk.offset <= Rank(q, id)
      BY <2>1, <2>3, <2>5, <3>1 DEF NothingSkipped
    <3>. DEFINE r == Rank(q, id)
                rr == Rank(walk.query, id)'
    <3>3. r <= rr
      <4>1. ASSUME NEW p, p = q PROVE Rank(p, id) <= Rank(p, id)'
        BY <2>5, <3>2, <4>1, RankGrows, <2>1
      <4>2. ASSUME NEW p, p = walk.query, p = walk'.query PROVE Rank(p, id) <= Rank(p, id)'
        BY <4>1, <4>2
      <4>. QED BY <2>1, <4>2
    <3>4. r \in Nat /\ rr \in Nat
      <4>1. RanksAreNumbers /\ RanksAreNumbers'
        BY RankType, PTL
      <4>. QED BY <4>1 DEF RanksAreNumbers
    <3>5. walk.offset \in Nat
      BY <2>3 DEF Walks
    <3>. HIDE DEF r, rr
    <3>6. walk.offset <= rr
      BY <3>2, <3>3, <3>4, <3>5 DEF r
    <3>. QED BY <2>1, <3>6 DEF rr
  <2>8. ASSUME walk'.limit \in 1 .. MaxLimit, ~walk'.tied PROVE NothingRepeated'
    <3>1. NothingRepeated
      BY <2>1, <2>3, <2>8
    <3>. SUFFICES ASSUME ~walk'.came
                  PROVE  /\ ~walk'.twice
                         /\ \A id \in walk'.seen \cap Listed(walk.query)' :
                               Rank(walk.query, id)' < walk'.offset
      BY DEF NothingRepeated
    <3>2. ~walk'.twice
      BY <2>1, <2>6, <3>1 DEF NothingRepeated
    <3>. SUFFICES ASSUME NEW id \in walk'.seen \cap Listed(walk.query)'
                  PROVE  Rank(walk.query, id)' < walk'.offset
      BY <3>2
    <3>3. id \in before /\ Rank(q, id) < walk.offset
      BY <2>1, <2>6, <3>1 DEF NothingRepeated
    <3>. DEFINE r == Rank(q, id)
                rr == Rank(walk.query, id)'
    <3>4. rr <= r
      <4>1. ASSUME NEW p, p = q, p = walk'.query PROVE Rank(p, id)' <= Rank(p, id)
        BY <2>6, <4>1, RankShrinks
      <4>. QED BY <2>1, <4>1
    <3>5. r \in Nat /\ rr \in Nat
      <4>1. RanksAreNumbers /\ RanksAreNumbers'
        BY RankType, PTL
      <4>. QED BY <4>1 DEF RanksAreNumbers
    <3>6. walk.offset \in Nat
      BY <2>3 DEF Walks
    <3>. HIDE DEF r, rr
    <3>7. rr < walk.offset
      BY <3>3, <3>4, <3>5, <3>6 DEF r
    <3>. QED BY <2>1, <3>7 DEF rr
  <2>9. TotalTrue'
    <3>. SUFFICES ASSUME walk'.at = "counted", ~walk'.left, ~walk'.came
                  PROVE  walk'.total = Cardinality(Listed(walk.query)')
      BY DEF TotalTrue
    <3>1. walk.total = Cardinality(before)
      BY <2>1, <2>3, <2>5, <2>6 DEF TotalTrue
    <3>2. before = after
      BY <2>5, <2>6
    <3>. QED BY <2>1, <3>1, <3>2
  <2>10. WalkRange' /\ WalkOnCourse'
    BY <2>1, <2>4, <2>7, <2>8, <2>9 DEF WalkRange, WalkOnCourse
  <2>11. WordsDoNotTie'
    <3>1. Status(walk.query)' = Status(walk.query)
      BY <2>1 DEF Status
    <3>2. walk.at # "none"
      BY <1>2 DEF Reading
    <3>. QED BY <2>1, <3>1, <3>2 DEF Walking, WordsDoNotTie
  <2>12. WalkComplete'
    BY <2>1, <1>2 DEF WalkComplete, Reading
  <2>. QED BY <2>10, <2>11, <2>12 DEF Walking
<1>. QED BY <1>1, <1>2

-----------------------------------------------------------------------------
(* A walk goes on *)

LEMMA ListedStays ==
    ASSUME ListFrame
    PROVE  \A q : /\ Matching(entries', q) = Matching(entries, q)
                  /\ \A a, b : Before(q, a, b)' <=> Before(q, a, b)
BY DEF ListFrame, Before

LEMMA RankStays ==
    ASSUME ListFrame, NEW q, NEW id
    PROVE  Rank(q, id)' = Rank(q, id)
BY ListedStays DEF Rank, Listed

LEMMA BeginsWalking ==
    ASSUME DInv, FinitelyMany, NEW q \in Queries, NEW limit \in Limits,
           NEW stop \in {"total", "short page"}, WalkBegins(q, limit, stop)
    PROVE  Walking'
<1>1. walk' = [at |-> "counted", query |-> q, limit |-> limit, stop |-> stop, offset |-> 0,
               total |-> Cardinality(Listed(q)), seen |-> {}, twice |-> FALSE,
               kept |-> Listed(q), left |-> FALSE, came |-> FALSE, tied |-> FALSE]
  BY DEF WalkBegins, Listed
<1>2. limit \in Nat \ {0}
  BY ToolsAssumption
<1>3. Cardinality(Listed(q)) \in Nat /\ Listed(q) \in SUBSET Ids
  BY ListedIsFinite
<1>4. walk' \in Walks
  BY <1>1, <1>2, <1>3 DEF Walks
<1>5. Listed(walk.query)' = Listed(q)
  <2>1. walk'.query = q
    BY <1>1
  <2>2. Matching(entries', q) = Matching(entries, q)
    BY ListedStays DEF WalkBegins
  <2>. QED BY <2>1, <2>2 DEF Listed
<1>6. NothingSkipped'
  <2>1. \A id : 0 <= Rank(q, id)
    BY RankType DEF RanksAreNumbers
  <2>2. ASSUME NEW id PROVE Rank(walk.query, id)' = Rank(q, id)
    <3>1. Rank(q, id)' = Rank(q, id)
      BY RankStays DEF WalkBegins
    <3>. QED BY <1>1, <3>1
  <2>. QED BY <1>1, <2>1, <2>2 DEF NothingSkipped
<1>7. NothingRepeated'
  BY <1>1 DEF NothingRepeated
<1>8. TotalTrue'
  BY <1>1, <1>5 DEF TotalTrue
<1>9. WalkOnCourse'
  BY <1>1, <1>5, <1>6, <1>7, <1>8 DEF WalkOnCourse
<1>10. WordsDoNotTie' /\ WalkComplete'
  BY <1>1 DEF WordsDoNotTie, WalkComplete
<1>. QED BY <1>4, <1>9, <1>10 DEF Walking, WalkRange

LEMMA CountKeepsWalking ==
    ASSUME DInv, FinitelyMany, Walking, Count
    PROVE  Walking'
<1>. DEFINE n == Cardinality(Listed(walk.query))
<1>1. walk \in Walks /\ walk.at = "paged"
  BY DEF Walking, WalkRange, Count, NoWalk
<1>2. walk' = [walk EXCEPT !.at = "counted", !.total = n] /\ n \in Nat
  BY ListedIsFinite DEF Count, Listed
<1>. HIDE DEF n
<1>3. /\ walk' \in Walks /\ walk'.at = "counted" /\ walk'.total = n
      /\ walk'.query = walk.query /\ walk'.limit = walk.limit /\ walk'.offset = walk.offset
      /\ walk'.seen = walk.seen /\ walk'.twice = walk.twice /\ walk'.kept = walk.kept
      /\ walk'.left = walk.left /\ walk'.came = walk.came /\ walk'.tied = walk.tied
  BY <1>1, <1>2 DEF Walks
<1>4. Listed(walk.query)' = Listed(walk.query)
  BY <1>3, ListedStays DEF Listed, Count
<1>5. ASSUME NEW id PROVE Rank(walk.query, id)' = Rank(walk.query, id)
  <2>1. ASSUME NEW q, q = walk.query, q = walk'.query
        PROVE  Rank(walk.query, id)' = Rank(walk.query, id)
    <3>1. Rank(q, id)' = Rank(q, id)
      BY RankStays DEF Count
    <3>. QED BY <2>1, <3>1
  <2>. QED BY <1>3, <2>1
<1>6. NothingSkipped => NothingSkipped'
  BY <1>3, <1>5 DEF NothingSkipped
<1>7. NothingRepeated => NothingRepeated'
  BY <1>3, <1>4, <1>5 DEF NothingRepeated
<1>8. TotalTrue'
  BY <1>3, <1>4 DEF TotalTrue, n
<1>9. WalkOnCourse'
  <2>1. Reading
    BY <1>1 DEF Reading
  <2>. QED BY <1>3, <1>4, <1>6, <1>7, <1>8, <2>1 DEF Walking, WalkOnCourse
<1>10. WordsDoNotTie'
  <2>1. Status(walk.query)' = Status(walk.query)
    BY <1>3 DEF Status
  <2>. QED BY <1>1, <1>3, <2>1 DEF Walking, WordsDoNotTie
<1>11. WalkComplete'
  BY <1>3 DEF WalkComplete
<1>. QED BY <1>3, <1>9, <1>10, <1>11 DEF Walking, WalkRange

\* The rows of a page, and where they stand.
LEMMA PageRanks ==
    ASSUME DInv, FinitelyMany, CreationRange, NEW q, ~Tied(q), NEW s \in Orders(q),
           NEW limit \in 1 .. MaxLimit, NEW offset \in Nat
    PROVE  LET page == Page(s, limit, offset)
           IN  /\ \A id : id \in RowsOf(page)
                      <=> /\ id \in Listed(q)
                          /\ offset <= Rank(q, id) /\ Rank(q, id) < offset + limit
               /\ \A id \in Listed(q) : Rank(q, id) < Cardinality(Listed(q))
               /\ Len(page) < limit => Cardinality(Listed(q)) < offset + limit
<1>. DEFINE n == Cardinality(Listed(q))
            page == Page(s, limit, offset)
            rows == RowsOf(page)
<1>1. n \in Nat
  BY ListedIsFinite
<1>2. limit \in Nat /\ EffectiveLimit(limit) = limit
  BY ToolsAssumption DEF EffectiveLimit
<1>3. s \in [1 .. n -> Listed(q)] /\ \A id \in Listed(q) : \E i \in 1 .. n : s[i] = id
  BY OrderCovers
<1>4. \A i \in 1 .. n : Rank(q, s[i]) = i - 1
  BY PlaceIsRank
<1>5. /\ \A x : x \in rows <=> \E k \in 1 .. n : offset < k /\ k <= offset + limit /\ x = s[k]
      /\ Len(page) < limit => n < offset + limit
  <2>. HIDE DEF n
  <2>1. s \in [1 .. n -> Listed(q)] /\ limit \in Nat
    BY <1>2, <1>3
  <2>2. /\ \A x : x \in RowsOf(Page(s, limit, offset))
              <=> \E k \in 1 .. n :
                     offset < k /\ k <= offset + EffectiveLimit(limit) /\ x = s[k]
        /\ EffectiveLimit(limit) \in Nat
        /\ Len(Page(s, limit, offset)) \in Nat
        /\ Len(Page(s, limit, offset)) < EffectiveLimit(limit)
              => n < offset + EffectiveLimit(limit)
    BY <1>1, <2>1, PageIsWindow, Zenon
  <2>. QED BY <1>2, <2>2
<1>. HIDE DEF n, page, rows
<1>6. ASSUME NEW k \in 1 .. n
      PROVE  /\ Rank(q, s[k]) < n
             /\ offset < k /\ k <= offset + limit
                   <=> offset <= Rank(q, s[k]) /\ Rank(q, s[k]) < offset + limit
  <2>1. Rank(q, s[k]) = k - 1
    BY <1>4
  <2>2. k - 1 < n /\ (offset < k /\ k <= offset + limit
                        <=> offset <= k - 1 /\ k - 1 < offset + limit)
    BY <1>1, <1>2
  <2>. QED BY <2>1, <2>2, Zenon
<1>7. \A id \in Listed(q) : Rank(q, id) < n
  BY <1>3, <1>6
<1>8. ASSUME NEW id \in rows
      PROVE  id \in Listed(q) /\ offset <= Rank(q, id) /\ Rank(q, id) < offset + limit
  <2>1. PICK k \in 1 .. n : offset < k /\ k <= offset + limit /\ id = s[k]
    BY <1>5
  <2>. QED BY <1>3, <1>6, <2>1
<1>9. ASSUME NEW id \in Listed(q), offset <= Rank(q, id), Rank(q, id) < offset + limit
      PROVE  id \in rows
  <2>1. PICK k \in 1 .. n : s[k] = id
    BY <1>3
  <2>2. offset < k /\ k <= offset + limit
    BY <1>6, <1>9, <2>1
  <2>. QED BY <1>5, <2>1, <2>2
<1>. QED BY <1>5, <1>7, <1>8, <1>9 DEF n, page, rows

\* By word and with one status no two rows tie.
LEMMA WordsDiffer ==
    ASSUME DInv, FinitelyMany, NEW q, q.sort_by = "word", Status(q) # "all"
    PROVE  ~Tied(q)
<1>. SUFFICES ASSUME NEW a \in Listed(q), NEW b \in Listed(q), a # b
              PROVE  Before(q, a, b) \/ Before(q, b, a)
  BY DEF Tied, Listed
<1>1. /\ a \in Ids /\ Present(a) /\ entries[a].status = Status(q) /\ entries[a].word \in Words
      /\ b \in Ids /\ Present(b) /\ entries[b].status = Status(q) /\ entries[b].word \in Words
  BY ListedIsFinite DEF Listed, Matching, Present, Row
<1>2. entries[a].word # entries[b].word
  BY <1>1 DEF DInv, IInv, UniqueWordStatus
<1>3. \/ Precedes(entries[a].word, entries[b].word)
      \/ Precedes(entries[b].word, entries[a].word)
  BY <1>1, <1>2, PrecedesTotal
<1>. QED BY <1>3 DEF Before

LEMMA FetchKeepsWalking ==
    ASSUME DInv, FinitelyMany, CreationRange, Walking, Fetch
    PROVE  Walking'
<1>. DEFINE q == walk.query
            n == Cardinality(Listed(q))
<1>1. walk \in Walks /\ walk.at = "counted" /\ WalkOnCourse
  BY DEF Walking, WalkRange, Fetch, NoWalk
<1>2. PICK s \in Orders(q) :
        LET page == Page(s, walk.limit, walk.offset)
            rows == {page[i] : i \in DOMAIN page}
            next == walk.offset + walk.limit
            last == IF walk.stop = "total" THEN next >= walk.total ELSE Len(page) < walk.limit
        IN  walk' = [walk EXCEPT !.at = IF last THEN "done" ELSE "paged",
                                 !.offset = next,
                                 !.twice = @ \/ rows \cap walk.seen # {},
                                 !.seen = @ \cup rows,
                                 !.tied = @ \/ Tied(walk.query)]
  BY Zenon DEF Fetch
<1>. DEFINE page == Page(s, walk.limit, walk.offset)
            rows == RowsOf(page)
            next == walk.offset + walk.limit
            last == IF walk.stop = "total" THEN next >= walk.total ELSE Len(page) < walk.limit
<1>3. walk' = [walk EXCEPT !.at = IF last THEN "done" ELSE "paged", !.offset = next,
                           !.twice = walk.twice \/ rows \cap walk.seen # {},
                           !.seen = walk.seen \cup rows, !.tied = walk.tied \/ Tied(q)]
  BY <1>2 DEF RowsOf
<1>4. /\ n \in Nat /\ walk.offset \in Nat /\ walk.limit \in Nat /\ next \in Nat
      /\ walk.seen \in SUBSET Ids /\ walk.twice \in BOOLEAN /\ walk.tied \in BOOLEAN
  <2>1. n \in Nat
    BY ListedIsFinite
  <2>2. /\ walk.offset \in Nat /\ walk.limit \in Nat
        /\ walk.seen \in SUBSET Ids /\ walk.twice \in BOOLEAN /\ walk.tied \in BOOLEAN
    BY <1>1 DEF Walks
  <2>3. next \in Nat
    BY <2>2
  <2>. QED BY <2>1, <2>2, <2>3
<1>5. rows \in SUBSET Ids
  <2>1. s \in [1 .. n -> Listed(q)]
    BY OrderCovers
  <2>2. /\ \A x : x \in RowsOf(Page(s, walk.limit, walk.offset))
              <=> \E k \in 1 .. n : /\ walk.offset < k
                                    /\ k <= walk.offset + EffectiveLimit(walk.limit)
                                    /\ x = s[k]
        /\ EffectiveLimit(walk.limit) \in Nat
    <3>1. ASSUME NEW lim, lim = walk.limit, NEW off, off = walk.offset
          PROVE  /\ \A x : x \in RowsOf(Page(s, lim, off))
                       <=> \E k \in 1 .. n : off < k /\ k <= off + EffectiveLimit(lim) /\ x = s[k]
                 /\ EffectiveLimit(lim) \in Nat
                 /\ Len(Page(s, lim, off)) \in Nat
                 /\ Len(Page(s, lim, off)) < EffectiveLimit(lim) => n < off + EffectiveLimit(lim)
      <4>1. n \in Nat /\ lim \in Nat /\ off \in Nat
        BY <1>4, <3>1
      <4>. HIDE DEF n
      <4>. QED BY <2>1, <4>1, PageIsWindow, Zenon
    <3>. QED BY <3>1
  <2>3. Listed(q) \subseteq Ids
    BY ListedIsFinite
  <2>. HIDE DEF rows, n, q
  <2>4. rows \subseteq Listed(q)
    <3>1. \A x \in rows : \E k \in 1 .. n : x = s[k]
      BY <2>2 DEF rows
    <3>. QED BY <2>1, <3>1
  <2>. QED BY <2>3, <2>4
<1>6. ListFrame
  BY DEF Fetch
<1>. HIDE DEF rows, last, next
<1>7. /\ walk' \in Walks /\ walk'.at = (IF last THEN "done" ELSE "paged")
      /\ walk'.offset = next /\ walk'.twice = (walk.twice \/ rows \cap walk.seen # {})
      /\ walk'.seen = walk.seen \cup rows /\ walk'.tied = (walk.tied \/ Tied(q))
      /\ walk'.query = q /\ walk'.limit = walk.limit /\ walk'.stop = walk.stop
      /\ walk'.total = walk.total /\ walk'.kept = walk.kept
      /\ walk'.left = walk.left /\ walk'.came = walk.came
  <2>. DEFINE at == IF last THEN "done" ELSE "paged"
              twice == walk.twice \/ rows \cap walk.seen # {}
              seen == walk.seen \cup rows
              tied == walk.tied \/ Tied(q)
  <2>2. at \in {"done", "paged"}
    OBVIOUS
  <2>3. twice \in BOOLEAN
    BY <1>4
  <2>4. seen \in SUBSET Ids
    BY <1>4, <1>5
  <2>5. tied \in BOOLEAN
    BY <1>4 DEF Tied
  <2>6. walk' = [walk EXCEPT !.at = at, !.offset = next, !.twice = twice, !.seen = seen,
                             !.tied = tied]
    BY <1>3
  <2>. HIDE DEF at, twice, seen, tied
  <2>1. next \in Nat
    BY <1>4
  <2>7. /\ walk' \in Walks /\ walk'.at = at
        /\ walk'.offset = next /\ walk'.twice = twice /\ walk'.seen = seen /\ walk'.tied = tied
        /\ walk'.query = walk.query /\ walk'.limit = walk.limit /\ walk'.stop = walk.stop
        /\ walk'.total = walk.total /\ walk'.kept = walk.kept
        /\ walk'.left = walk.left /\ walk'.came = walk.came
    BY <1>1, <2>1, <2>2, <2>3, <2>4, <2>5, <2>6 DEF Walks
  <2>. QED BY <2>7 DEF at, twice, seen, tied
<1>8. walk'.at \in {"done", "paged"} /\ (walk'.at = "done" => last)
  BY <1>7
<1>9. /\ Listed(walk.query)' = Listed(q)
      /\ \A id : Rank(walk.query, id)' = Rank(q, id)
  <2>1. ASSUME NEW p, p = q, p = walk'.query
        PROVE  /\ Listed(walk.query)' = Listed(q)
               /\ \A id : Rank(walk.query, id)' = Rank(q, id)
    <3>1. Listed(p)' = Listed(p) /\ \A id : Rank(p, id)' = Rank(p, id)
      BY <1>6, ListedStays, RankStays DEF Listed
    <3>. QED BY <2>1, <3>1
  <2>. QED BY <1>7, <2>1
<1>10. WordsDoNotTie'
  <2>1. Status(walk.query)' = Status(q)
    BY <1>7 DEF Status
  <2>2. q.sort_by = "word" /\ Status(q) # "all" => ~walk.tied
    BY <1>1 DEF Walking, WordsDoNotTie
  <2>3. q.sort_by = "word" /\ Status(q) # "all" => ~Tied(q)
    BY WordsDiffer
  <2>. QED BY <1>7, <2>1, <2>2, <2>3 DEF WordsDoNotTie
<1>11. Listed(q) \subseteq Ids /\ walk.kept \subseteq Listed(q)
  BY <1>1, ListedIsFinite DEF WalkOnCourse, Reading
<1>12. \A id : Rank(q, id) \in Nat
  BY RankType DEF RanksAreNumbers
<1>13. ASSUME walk.limit \in 1 .. MaxLimit, ~walk'.tied
       PROVE  /\ NothingSkipped' /\ NothingRepeated'
              /\ walk'.at = "done" =>
                    /\ ~walk'.left /\ (walk'.stop = "short page" \/ ~walk'.came)
                          => walk'.kept \subseteq walk'.seen
                    /\ ~walk'.came => ~walk'.twice
  <2>1. ~walk.tied /\ ~Tied(q)
    BY <1>7, <1>13
  <2>2. /\ NothingSkipped /\ NothingRepeated /\ TotalTrue
    BY <1>1, <1>13, <2>1 DEF WalkOnCourse, Reading
  <2>3. /\ \A id : id \in rows <=> /\ id \in Listed(q)
                                   /\ walk.offset <= Rank(q, id) /\ Rank(q, id) < next
        /\ \A id \in Listed(q) : Rank(q, id) < n
        /\ Len(page) < walk.limit => n < next
    BY <1>4, <1>13, <2>1, PageRanks DEF rows, next
  <2>. HIDE DEF n, page
  <2>4. walk.offset <= next
    BY <1>4 DEF next
  <2>5. ASSUME ~walk'.left, NEW id \in walk'.kept \ walk'.seen PROVE next <= Rank(q, id)
    <3>1. id \in Listed(q) /\ id \notin rows /\ walk.offset <= Rank(q, id)
      BY <1>7, <1>11, <2>2, <2>5 DEF NothingSkipped
    <3>2. ~(Rank(q, id) < next)
      BY <2>3, <3>1
    <3>. QED BY <1>4, <1>12, <3>2
  <2>6. NothingSkipped'
    BY <1>7, <1>9, <2>5 DEF NothingSkipped
  <2>7. ASSUME ~walk'.came
        PROVE  /\ ~walk'.twice
               /\ \A id \in walk'.seen \cap Listed(q) : Rank(q, id) < next
    <3>1. ~walk.twice /\ \A id \in walk.seen \cap Listed(q) : Rank(q, id) < walk.offset
      BY <1>7, <2>2, <2>7 DEF NothingRepeated
    <3>2. rows \cap walk.seen = {}
      <4>. SUFFICES ASSUME NEW id \in rows \cap walk.seen PROVE FALSE
        OBVIOUS
      <4>1. walk.offset <= Rank(q, id) /\ Rank(q, id) < walk.offset
        BY <2>3, <3>1
      <4>. QED BY <1>4, <1>12, <4>1
    <3>3. ASSUME NEW id \in walk'.seen \cap Listed(q) PROVE Rank(q, id) < next
      <4>1. CASE id \in rows
        BY <2>3, <4>1
      <4>2. CASE id \in walk.seen
        <5>1. Rank(q, id) < walk.offset
          BY <3>1, <3>3, <4>2
        <5>. QED BY <1>4, <1>12, <2>4, <5>1
      <4>. QED BY <1>7, <3>3, <4>1, <4>2
    <3>. QED BY <1>7, <3>1, <3>2, <3>3
  <2>8. NothingRepeated'
    BY <1>7, <1>9, <2>7 DEF NothingRepeated
  <2>9. ASSUME walk'.at = "done", ~walk'.left, walk'.stop = "short page" \/ ~walk'.came
        PROVE  walk'.kept \subseteq walk'.seen
    <3>1. n <= next
      <4>1. CASE walk.stop = "total"
        <5>1. next >= walk.total
          BY <1>8, <2>9, <4>1 DEF last
        <5>2. walk.total = n
          BY <1>1, <1>7, <2>2, <2>9, <4>1 DEF TotalTrue, n
        <5>. QED BY <1>4, <5>1, <5>2
      <4>2. CASE walk.stop # "total"
        <5>1. Len(page) < walk.limit
          BY <1>8, <2>9, <4>2 DEF last
        <5>. QED BY <1>4, <2>3, <5>1
      <4>. QED BY <4>1, <4>2
    <3>. SUFFICES ASSUME NEW id \in walk'.kept \ walk'.seen PROVE FALSE
      OBVIOUS
    <3>2. next <= Rank(q, id)
      BY <2>5, <2>9
    <3>3. Rank(q, id) < n
      BY <1>7, <1>11, <2>3
    <3>. QED BY <1>4, <1>12, <3>1, <3>2, <3>3
  <2>. QED BY <2>6, <2>7, <2>8, <2>9
<1>14. WalkOnCourse'
  <2>1. TotalTrue'
    BY <1>8 DEF TotalTrue
  <2>2. walk'.kept \subseteq Listed(walk.query)'
    BY <1>7, <1>9, <1>11
  <2>. QED BY <1>7, <1>13, <2>1, <2>2 DEF WalkOnCourse
<1>15. WalkComplete'
  <2>. SUFFICES ASSUME walk'.at = "done", walk'.limit \in 1 .. MaxLimit
                PROVE  /\ walk'.query.sort_by = "word" /\ Status(walk.query)' # "all" => ~walk'.tied
                       /\ ~walk'.tied =>
                             /\ ~walk'.left /\ (walk'.stop = "short page" \/ ~walk'.came)
                                   => walk'.kept \subseteq walk'.seen
                             /\ ~walk'.came => ~walk'.twice
    BY DEF WalkComplete
  <2>1. walk.limit \in 1 .. MaxLimit
    BY <1>7
  <2>2. walk'.query.sort_by = "word" /\ Status(walk.query)' # "all" => ~walk'.tied
    BY <1>8, <1>10 DEF WordsDoNotTie
  <2>. QED BY <1>13, <2>1, <2>2
<1>. QED BY <1>7, <1>10, <1>14, <1>15 DEF Walking, WalkRange

-----------------------------------------------------------------------------
(* Every step keeps the invariant *)

\* What the parts about the process, the records and the walk read.
LEMMA FrameKeeps ==
    ASSUME TInv, UNCHANGED <<entries, minted, now, creator, created, author>>
    PROVE  /\ CreationRange' /\ CreatedByIsTrue'
           /\ UNCHANGED walk => Walking'
<1>1. CreationRange' /\ CreatedByIsTrue'
  BY DEF TInv, CreationRange, CreatedByIsTrue
<1>2. UNCHANGED walk => Walking'
  <2>. SUFFICES ASSUME UNCHANGED walk PROVE Walking'
    OBVIOUS
  <2>1. Walking
    BY DEF TInv, Walking
  <2>2. Listed(walk.query)' = Listed(walk.query)
    BY DEF Listed
  <2>3. \A id : Rank(walk.query, id)' = Rank(walk.query, id)
    BY <2>2 DEF Rank, Before
  <2>4. NothingSkipped' = NothingSkipped /\ NothingRepeated' = NothingRepeated
    BY <2>2, <2>3 DEF NothingSkipped, NothingRepeated
  <2>5. TotalTrue' = TotalTrue
    BY <2>2 DEF TotalTrue
  <2>6. WalkOnCourse'
    BY <2>1, <2>2, <2>4, <2>5 DEF Walking, WalkOnCourse, Reading
  <2>7. WalkRange' /\ WordsDoNotTie' /\ WalkComplete'
    BY <2>1 DEF Walking, WalkRange, WordsDoNotTie, WalkComplete, NoWalk, Status
  <2>. QED BY <2>6, <2>7 DEF Walking
<1>. QED BY <1>1, <1>2

LEMMA NextKeepsTInv == TInv /\ [ToolsNext]_toolVars => TInv'
<1>. SUFFICES ASSUME TInv, [ToolsNext]_toolVars PROVE TInv'
  OBVIOUS
<1>1. DInv /\ FinitelyMany /\ Walking /\ ProcessRange /\ CreationRange /\ CreatedByIsTrue
  BY DEF TInv, Walking
<1>2. DInv' /\ FinitelyMany'
  BY <1>1, TableStep
<1>3. ASSUME CreationRange', CreatedByIsTrue', ProcessRange', Walking' PROVE TInv'
  BY <1>2, <1>3 DEF TInv, Walking
<1>4. CASE Deploy
  <2>1. ProcessRange'
    BY <1>1, <1>4, ToolsAssumption DEF Deploy, ProcessRange
  <2>. QED BY <1>3, <1>4, <2>1, FrameKeeps DEF Deploy, vars
<1>5. CASE Start
  <2>1. deployment \in Deployments /\ deployment' = NoDeployment
    BY <1>1, <1>5 DEF Start, ProcessRange
  <2>2. running' = IF Starts(deployment) THEN Boot(deployment).core ELSE Down
    BY <1>5 DEF Start
  <2>3. ProcessRange'
    BY <2>1, <2>2 DEF ProcessRange
  <2>. QED BY <1>3, <1>5, <2>3, FrameKeeps DEF Start, vars
<1>6. CASE Stop
  <2>1. ProcessRange'
    BY <1>1, <1>6 DEF Stop, ProcessRange
  <2>2. CreationRange' /\ CreatedByIsTrue'
    BY <1>6, FrameKeeps DEF Stop, Crash
  <2>3. Walking'
    <3>1. (walk = NoWalk => Walking)'
      BY NoWalkIsFine, PTL
    <3>. QED BY <1>6, <3>1 DEF Stop, NoWalk
  <2>. QED BY <1>3, <2>1, <2>2, <2>3
<1>7. CASE ListStep
  <2>1. ListFrame
    BY <1>7, ListStepFrame
  <2>2. ProcessRange'
    BY <1>1, <2>1 DEF ListFrame, ProcessRange
  <2>3. CreationRange' /\ CreatedByIsTrue'
    BY <2>1, FrameKeeps DEF ListFrame
  <2>4. Walking'
    BY <1>1, <1>7, BeginsWalking, CountKeepsWalking, FetchKeepsWalking DEF ListStep
  <2>. QED BY <1>3, <2>2, <2>3, <2>4
<1>8. CASE WriteStep
  <2>1. Watch /\ UNCHANGED <<deployment, running>>
    BY <1>8, WriteStepFrame
  <2>2. ProcessRange'
    BY <1>1, <2>1 DEF ProcessRange
  <2>3. CreationRange' /\ CreatedByIsTrue'
    BY <1>1, <1>2, <1>8, WriteKeepsCreation, StepKeepsCreators
  <2>4. Walking'
    BY <1>1, <1>2, <1>8, <2>1, RecordsStay, WatchKeepsWalking
  <2>. QED BY <1>3, <2>2, <2>3, <2>4
<1>9. CASE UNCHANGED toolVars
  <2>1. ProcessRange'
    BY <1>1, <1>9 DEF toolVars, ProcessRange
  <2>. QED BY <1>3, <1>9, <2>1, FrameKeeps DEF toolVars, vars
<1>. QED BY <1>4, <1>5, <1>6, <1>7, <1>8, <1>9, StepKinds

-----------------------------------------------------------------------------
(* The theorems *)

\* The invariant that the theorems below rest on.
THEOREM ToolsInvariance == ToolsSpec => []TInv
BY InitTInv, NextKeepsTInv, PTL DEF ToolsSpec

\* Every variable keeps its range, for every deployment and every list
\* (main.go:32-83).
THEOREM ToolsTypeCorrect == ToolsSpec => []ToolsTypeOK
<1>1. TInv => ToolsTypeOK
  BY DEF TInv, DInv, IInv, ProcessRange, CreationRange, WalkOnCourse, Listed, ToolsTypeOK
<1>. QED BY <1>1, ToolsInvariance, PTL

\* created_by is whom the token of the one who stored the entry was given to, for
\* any tokens, through restarts with any settings (auth.go:44-69,
\* entry_service.go:96-128).
THEOREM CreatorsAreTrue == ToolsSpec => []CreatedByIsTrue
<1>1. TInv => CreatedByIsTrue
  BY DEF TInv
<1>. QED BY <1>1, ToolsInvariance, PTL

\* A client that read a list to its end, page by page, saw every entry that was on
\* it all the time if none left it, and none twice if none came, for lists, pages
\* and limits of any size, whatever was written between any two of the statements
\* (sqlite.go:182-249, postgres.go:128-189).
THEOREM WalksAreComplete == ToolsSpec => []WalkComplete
<1>1. TInv => WalkComplete
  BY DEF TInv
<1>. QED BY <1>1, ToolsInvariance, PTL
=============================================================================
