# A TLA+ development for watchword

watchword is an MCP server that stores payloads and files under words. A word
is unique among the active entries; a store under a taken word gets a suffix
(`cat`, `cat2`, ...); entries expire, can be restored, extended and deleted;
files live in an S3 bucket and are reached by presigned or proxied URLs. This
directory holds TLA+ modules of that system, TLC configurations that check
them on small instances, and proofs that TLAPS checks.

Paths below are relative to `src/`. Line numbers of every definition's source
are in `PROJECT.json` under `map`.

## 1. The system

| Part | State | Operations | Talks to |
|---|---|---|---|
| Entry store: `internal/service/entry_service.go` over `internal/repository/sqlite.go` | table `entries` with `UNIQUE (word, status)` | `store_entry`, `restore_entry`, `update_expiration`, `delete_entry`; the reads | the database, in one transaction or in single statements |
| PostgreSQL and libSQL repositories: `postgres.go`, `libsql.go` | the same table, other isolation | the same | shared by several replicas |
| Expiration worker: `internal/worker` | a goroutine, a ticker, the current attempt | sweep in batches, retry with backoff, clean `download_history` | the table, beside the clients |
| File service, bucket client, upload proxy: `file_service.go`, `s3/client.go`, `proxy/upload_handler.go` | objects in the bucket, URLs in clients' hands | `upload_file`, `download_file`, the object side of `delete_entry`, PUT by presigned or proxy URL | table and bucket, no transaction over both |
| Migrations: `Migrate`, `migrations/*` | the schema, `schema_migrations` | check, execute, record, per file | run by every process before it serves |
| Download proxy and signing: `proxy/handler.go`, `hmac.go`, `signer.go` | none; rows of `download_history` | validate, look up, stream, record in the background | table, bucket |
| Tool handlers, MCP server: `internal/mcp` | none | decode arguments, call the service, format | the services |
| Life cycle: `cmd/server/main.go` | the root context | start in order, shut down on a signal | everything |
| Authentication: `internal/auth` | the tokens, keys and scopes of the start | a verdict and an identity for each request | in front of the handlers; on stdio once, at the start |
| Configuration: `internal/config` | settings, three optional blocks | defaults, file, environment, validation | read once by `main` |
| Health server: `internal/health` | none | ping the database | `main` waits for its answers |

What is hard here:

* **The unique constraint has two parts.** It keeps words unique among active
  rows, which the service wants, and among expired rows, which nobody
  planned for: a word can be expired only once.
* **Words alias.** `cat` with suffix 2 is the word a client may type as `cat2`;
  restoring `cat2` may give `cat22`.
* **Isolation differs by database.** SQLite takes the write lock with BEGIN
  (`_txlock=immediate`), PostgreSQL runs at READ COMMITTED, libSQL defers. The
  answer to a COMMIT may be lost, and the client will repeat its call.
* **Lists are read in pieces.** The total and the rows are two statements, the
  pages are many, and the table changes in between.
* **Settings leak.** A single variable of S3 in the environment creates a block
  of settings that other code looks at.
* **Two stores, no common transaction.** The bucket and the table are changed
  one after the other by `delete_entry`, and URLs outlive their entries.
* **Background work.** The worker runs beside the clients, retries what failed,
  and is cancelled at any point.
* **Interrupted migrations.** Executing a file and recording it are two steps.

What makes each part correct is stated by the properties of section 3; the
hazards, each at its line and with the properties that cover it, are listed in
`PROJECT.json`.

## 2. The modules

`EntryStore` is the core; the others extend it or stand beside it.

```
WordDirectory  <--refines--  EntryStore  <--EXTENDS--  ExpirationWorker  <--  WorkerProofs
                                 ^  ^-------EXTENDS--  FileService       <--  FileProofs
                                 |  ^-------EXTENDS--  PgEntryStore      <--  PgProofs
                                 |  ^-------EXTENDS--  Server            <--  ServerProofs
                                 |  ^-------EXTENDS--  Tools             <--  ToolsProofs
                                 |                       |--EXTENDS-->  Config, Auth
                                 +----------EXTENDS--  EntryStoreProofs
                                                            ^--EXTENDS--  DirectoryProofs
Migrations  <--EXTENDS--  MigrationsProofs
```

`WorkerProofs`, `FileProofs`, `PgProofs`, `ServerProofs` and `ToolsProofs` also
extend `DirectoryProofs`, whose lemmas about the table they build on.

**`EntryStore`** is the store on SQLite. `entries` is the table (id to row or
`NoRow`), `minted` the UUIDs used, `now` the clock in hours, `reply` the last
answer, `deleting` the row that a `delete_entry` by word has found and not yet
deleted. Under BEGIN IMMEDIATE a call of `WithTx` has the database to itself
from its first read, so each of `StoreEntry`, `RestoreEntry` and
`UpdateExpiration` is one action; `delete_entry` by word is two statements
outside a transaction and therefore two actions, `DeleteEntry` and
`DeleteFound`. The expiration time is computed before the transaction in the
code and inside the step here: the difference is a wait of seconds and the
clock counts hours. `Sweep` is one `MarkExpiredBatch`: any set of due rows up to the batch size (the
subselect has a LIMIT and no ORDER BY), all or nothing. A word is a sequence
over letters and digits, so that suffixes alias typed words; payloads are
`empty`, `fits` or `too large`. `Crash` forgets the calls in flight.

**`WordDirectory`** is what the store promises: an entry is unborn, named,
shelved or forgotten, a word has one owner and changes hands only after its
owner was shelved or forgotten, and a forgotten entry never returns.
`EntryStore!ImplementsDirectory` maps rows to it by status.

**`ExpirationWorker`** replaces the atomic sweep by the goroutine: the place it
is at (`batch`, `backoff`, `cleanup`, `select`, `stopped`), the failed attempts
of the current batch, the ticker's channel, the cancelled context, and whether
the download history has rows past the retention. Clients act between any two
steps.

**`FileService`** adds the bucket (`objects`), URLs, uploads of the proxy in
flight, and the progress of each `delete_entry` call: resolve, delete the
object, delete the row. A start whose bucket client fails turns `filesOn` off:
no file tools, and `delete_entry` passes the bucket by. A URL never expires in the model, which only adds late
uploads. `uploaded`, `stray`, `bereft` and `byWord` are history variables for
the properties; no action reads them.

**`PgEntryStore`** cuts the operations into statements: the lookup, one step
per `WordExistsActive`, the write with its commit. Each transaction writes once,
just before it commits, and a write that waits for a lock goes on from the
committed state, so write and commit are one step. `SelectBatch` and
`UpdateBatch` are the two halves of `MarkExpiredBatch`: after waiting for a row
PostgreSQL asks again only whether its id is in the list. On libSQL
(`driver`, chosen at the start) a transaction reads the `snapshot` of its first
statement, its write is refused if somebody wrote since, and a batch is one
step. That refusal (`Stale`) is the server's, and what SQLite does with a deferred
transaction on an old snapshot; the only place of the repository that speaks of it
is the comment on *busy-snapshot* at `sqlite.go:24-25`. `CommitUnheard` is a COMMIT that
is executed and never answered: `WithTx` returns the driver's error, the entry
exists, and a client that wants its entry repeats the call. `raced`, `origin` and
`unheard` are history variables, except that a client that waits to repeat does
nothing else.

**`Migrations`** is `Migrate` of several processes on one database: `schema` is
the set of files that took effect, `versions` the rows of `schema_migrations`.
Files 001 and 003 consist of `CREATE ... IF NOT EXISTS` and may be executed
twice; 002 and 004 add a column and may not. A process that fails ends, and is
started again. That two concurrent `CREATE TABLE IF NOT EXISTS` may also collide
in PostgreSQL's catalogue is left out; the loser would exit as it does on
`ALTER TABLE`.

**`Server`** is the process: the start step by step, each step with its failure,
the HTTP transport, signals, and the end, when whatever is in flight is lost. In
flight are requests to the download proxy (`lookup`, `stream`, `record`), deletes in
two steps and a health probe: its handler pings the database (`ping`), and its
connection stays active after that if the client holds back a body it announced
(`body`), until it sends the rest or hangs up. A URL is an id with an expiration time;
signatures are taken as unforgeable. `served` and `names` are history variables.
Shutting down the transport and the return of `ListenAndServe` are one step, since no
request is accepted in between.

**`Config`** and **`Auth`** are without variables. A configuration is the set of
optional blocks that are there and the value of every setting. `Merge` is what a
file and an environment come to, `Loads` says that validation accepts it, and `Load`
is the normalised result. What the environment does to a block, what an
unparsable number does, and the order of file, environment, S3 switch and
validation are those of `config.go`. A JWT's issuer or audience in the environment alone creates
the JWT block, which then lacks its URL and fails the start.
`Auth!ValidateToken` and `HTTPMiddleware` give the verdict on a token and a
header. What is inside of a JWT, and whether the library accepts its signature and
date, is a constant, `Claims`.

**`Tools`** puts both in front of `EntryStore`: an operator deploys settings, a
process starts with them, as `Boot` says, or fails (`Starts`), callers are let in and their writes are
recorded with `creator` and `created`, and clients *walk* through lists. A walk
reads the total (`Count`) and the rows (`Fetch`) of one page after another, each
further by the limit that the answer echoes, and stops by the total or at a page
that is not full. `Orders` are the row orders that the statement's ORDER BY
allows: rows that tie come in any order, and in another one next time. `author`
and the fields `kept`, `left`, `came` and `tied` of `walk` are history. Sorting by
`updated_at` behaves as by `created_at` and is left out, as are ports, logging,
tool descriptions and the OAuth documents.

**`EntryStoreProofs`** holds the theorems about the constraint and the answers of
`EntryStore`, **`DirectoryProofs`** those about the life of an entry and the
refinement of `WordDirectory`; the other modules of proofs are named for the
module they are about.

Operators whose comment begins with *Mutant* are variants of the definition that
follows them, each with a plausible mistake; no specification uses them. They
show that a property can tell the code from a wrong one.

## 3. What the runs check

All bounds are in the `.cfg` files; a bound of the model, as opposed to a
constant of the code, is marked *bound* in the module that declares it.

| Run | Instance | Shows |
|---|---|---|
| `entry_store` | 3 entries, words `""`, `cat`, `cat2`, TTLs -1, 0 and 1 (the maximum), 3 candidates per word, batches of 2, 3 points in time, 1 client that deletes by word | types; `UniqueWordStatus`; no unique error for clients (`NoUniqueError`); active entries keep word and kind and leave only by delete or when due (`EntryLifecycle`); the word in an answer resolves to the entry (`AnswerResolves`); a collision is reported exactly when there was one (`CollisionReported`); the directory is implemented |
| `worker` | 2 entries, batches of 1, 2 attempts, 1 fault, 1 restart | a sweep that reaches its cleanup left nothing due (`SweepDrains`); the worker implements the atomic sweep (`ImplementsEntryStore`); due entries are swept, old history is removed, a cancelled worker ends |
| `file_service` | 2 entries, 2 clients, delete by UUID and by word, 1 fault or restart | of entries not deleted by word: `RowKeepsFileById`, a row keeps its uploaded file until its delete is under way; `ObjectHasRow`, an object without row has a recorded cause: a failed delete in the bucket, a failed lookup of the entry, a start without the file service, or an upload that came after the delete |
| `pg_entry_store` | 2 entries, 1 word, 2 clients, 1 worker, 2 points in time, both drivers | the constraint, answers that resolve at the commit, of two deletes that found one entry, by word or by UUID, one succeeds and the other is told *not found* (`DeletedOnce`), deleted entries stay deleted (`NoResurrection`), words keep their origin as a prefix; unique errors, renames of active entries and early expiry come from races on PostgreSQL only; every step on libSQL is one of the directory (`LibsqlKeepsDirectory`), where the loser of a race gets a database error; a client that repeats a store whose answer was lost is told of the first one (`RetryIsReported`) |
| `tools` | 2 entries, 1 word, 67 deployments, 12 kinds of headers, 4 lists, limits 1 to 3 of at most 2 | `WalkComplete`: what a client knows after reading a list page by page; `CreatedByIsTrue`: `created_by` is who stored the entry, through restores, other callers and restarts with other settings; `S3Isolated`: nothing set about S3 changes the rest of the server |
| `migrations` | 3 replicas, 4 files, 2 kills | who serves has the whole schema; order; one effective execution of each `ALTER TABLE`; all replicas converge unless a kill stranded a file |
| `server` | 2 files, 1 proxied download, 1 probe, 2 starts | `HistoryIsTrue`: a row of the download history tells of a complete download under a word its entry had; `SignalEnds`: a signal ends the process however slowly clients read, unless one of the health server holds its request back for ever |

Three entries are the least for a collision with a collision: an owner of
`cat`, an owner of `cat2` and a newcomer. Three points in time are the least
for a word to expire twice, which is where the constraint on expired rows
bites; on PostgreSQL two do, since a transaction that began before a tick may
store after it an entry that is due at once. Two clients, two entries and one
fault suffice for every pair of steps that can interfere in `delete_entry` and
in a PostgreSQL transaction. The race of two deletes, an action of `EntryStore`,
is checked in `pg_entry_store`, because three entries and two clients together
exceed what TLC does in minutes.

Abridgements in the instances: `FileService` has one candidate per word, since
the bucket is keyed by id and renaming does not concern it; `file_service` and
`server` identify states that differ in the last answer only (`ButReply`), which no
step reads and no property but the type mentions; `ExpirationWorker`
leaves out client calls that change nothing but the last answer. In `Tools` lists
are read from servers without authentication only (`Readers`), since the caller
of a list leaves no trace, and a process that finds entries is started with one
deployment (`Redeployments`), which lets named callers in over HTTP; two entries
under one word are the least with a tie, a collision and a second page. The 12 headers
are: none, one that is not a bearer token, an empty token, six kinds of JWT (good,
without a name, without the scope, of another issuer, for another audience, forged), a
named token that looks like a JWT, a plain token, and a wrong one.

### Disagreements the runs exhibit

These runs end in a counterexample. Each checks what a document, a comment or a
test says, against what the code does.

| Run | What TLC finds |
|---|---|
| `entries_expire` | store `cat`, expire it, store `cat` again: the second row can never be marked expired, every batch with it fails, and after three attempts the sweep gives up, cleanup of the download history included |
| `restore_original_word` | `restore_entry` reports the new word as `original_word`, since `entry.Word` was overwritten before |
| `file_delete_by_word` | `delete_entry` with the word of an expired file deletes the object, then answers *not found*: the row stays without its file |
| `migrations_crash` | killed between `ALTER TABLE` and the insert of its version, the server exits at every later start |
| `pg_unique_error` | two replicas store the same word at once; one client gets the constraint's error instead of a suffixed word |

Others are visible in the models without a run of their own:

* a suffix takes a word past the 500 characters that were validated; PostgreSQL's
  VARCHAR(500) refuses such a row (`TooLong`);
* `delete_entry` by word may delete an entry that expired and was restored under
  another word between its lookup and its DELETE;
* on a signal `main` returns as soon as `ListenAndServe` does and does not wait for the
  goroutine that called `Shutdown` (`main.go:221`): a download in progress is cut, while
  the log says that the server shut down gracefully (`main.go:225`);
* a client of the health server that announces a body and holds it back keeps the
  process from ending: that server has no timeouts (`main.go:234-237`) and
  `healthSrv.Shutdown` waits without a limit (`main.go:222`), hence the exception in
  `SignalEnds`;
* `libsql.go:21-23` and the repository's README (line 209) name the unique constraint
  as the source of truth for collisions on libSQL. With the refusal of stale writes no
  transaction gets as far as the constraint (`UniqueErrorMeansRace`): the loser of a
  race gets the error of its stale snapshot, which nobody retries;
* a limit above 100 is answered with 20 entries and the echo of the limit asked
  for, so that a client that steps by the echo skips entries (the premise on the
  limit in `WalkComplete`);
* `WORDSTORE_AUTH_ENABLED=True` switches authentication off, while
  `WORDSTORE_S3_ENABLED` takes `True` (`TextMeansTrue`);
* a proxy without `history_retention_days` keeps the download history for ever,
  not for 90 days (`Retention`).

The PostgreSQL module shows two more that `DisturbedOnlyInRaces` admits and
bounds: two concurrent restores of one entry may rename it after the first client
was told its word, and `update_expiration` of an entry that a batch has selected
may be undone by the batch.

### Fairness

`FairWorkerSpec` assumes that the worker's goroutine is scheduled and that the
ticker goes on (weak fairness of `Sweeping` and `TickerFires`), and strong
fairness of `Stop`: Go's `select` chooses among ready cases at random, so a
cancelled context that is ready again and again is taken eventually. Nothing is
assumed of clients. Faults are finitely many. `FairMigSpec` assumes that
statements complete and that a supervisor restarts an ended process (the
deployment the repository's README describes); kills are finitely many.

`FairServerSpec` assumes that `main` takes its steps (those of the start work under the
context that the signal cancels) and that the ping of a probe ends (it has a timeout
of three seconds). It assumes nothing of clients: they may read a download as slowly
as they like, and hold back the rest of a request to the health server.

Liveness of the worker is stated relative to two conditions: the server is not
shut down for good, and no due entry is *blocked* by an expired namesake for
ever. The second is exactly the defect that `entries_expire` exhibits: without
it the property fails, with it everything else in the loop is shown to be in order.

## 4. What is proved

Every safety property of section 3 that holds is also a theorem, for every value
of the constants that satisfies the assumptions below: any number of entries,
clients, replicas, requests, faults and restarts, any words and settings.

| Module | Inductive invariant | Theorems (the property each states) |
|---|---|---|
| `EntryStoreProofs` | `IInv`, by `Invariance` | `TypeCorrect` (`TypeOK`), `UniqueWords` (`UniqueWordStatus`), `CollisionsAreResolved` (`NoUniqueError`), `AnswersResolve` (`AnswerResolves`), `CollisionsAreReported` (`CollisionReported`), `DeletesHappenOnce` (`DeletedOnce`) |
| `DirectoryProofs` | `DInv` | `EntriesKeepTheirLifecycle` (`EntryLifecycle`), `StoreImplementsDirectory` (`ImplementsDirectory`) |
| `WorkerProofs` | `WInv`, by `WorkerInvariance` | `WorkerTypeCorrect` (`WorkerTypeOK`), `WorkerImplementsStore` (`ImplementsEntryStore`), `SweepsDrain` (`SweepDrains`) |
| `FileProofs` | `FInv`, by `FileInvariance` | `FileTypeCorrect` (`FileTypeOK`), `RowsKeepFilesById` (`RowKeepsFileById`), `ObjectsHaveRows` (`ObjectHasRow`) |
| `PgProofs` | `PInv`, by `PgInvariance` | `PgTypeCorrect` (`PgTypeOK`), `PgUniqueWords` (`UniqueWordStatus`), `WordsKeepOrigin` (`WordsExtendOrigin`), `GoneForever` (`NoResurrection`), `CommitsResolve` (`CommitResolves`), `UniqueErrorsMeanRaces` (`UniqueErrorMeansRace`), `DisturbancesAreRaces` (`DisturbedOnlyInRaces`), `LibsqlImplementsDirectory` (`LibsqlKeepsDirectory`), `RetriesAreReported` (`RetryIsReported`) |
| `ServerProofs` | `SInv`, by `ServerInvariance` | `ServerTypeCorrect` (`ServerTypeOK`), `HistoryTellsTheTruth` (`HistoryIsTrue`) |
| `ToolsProofs` | `TInv`, by `ToolsInvariance` | `ToolsTypeCorrect` (`ToolsTypeOK`), `S3LeavesTheRestAlone` (`S3Isolated`), `CreatorsAreTrue` (`CreatedByIsTrue`), `WalksAreComplete` (`WalkComplete`) |
| `MigrationsProofs` | `MigInv`, by `MigInvariance` | `MigTypeCorrect` (`MigTypeOK`), `ServersAreMigrated` (`ServingIsMigrated`), `OrderIsKept` (`AppliedInOrder`), `ColumnsAreAddedOnce` (`OneWriterPerColumn`) |

### From which assumptions

* `EntryStore`: `NoId` is not an id and `NoRow` not a row, the client's words are
  words, no id is a word and neither is `NoId`, the limits are natural numbers,
  and at most 999 candidates are tried (`domain.MaxCollisionAttempts`).
* `ExpirationWorker`, `Server`, `Migrations`: counts are natural numbers, at least
  one attempt and one file. `FileService`: the references of deletes are references.
* `PgEntryStore`: no worker is a client, and the driver is PostgreSQL or libSQL.
* `Tools`: letters are not digits, the default limit lies between 1 and the
  greatest, and clients ask for limits of at least 1. `GivenAssumption` is what
  `CreatedByIsTrue` means: for every deployment that starts, `Given` names the
  holder of each of its named and plain tokens and of each JWT that its provider
  issued for it with the scopes asked for. It says nothing of what the server does
  with a token. It gives a token one name in all deployments: a token that is renamed
  between two restarts, or listed twice under different names, is out of its scope.

Every run evaluates the assumptions of its module on its instance.

### Along which argument

**The constraint** (`EntryStoreProofs`). The inductive invariant is
`IInv == TypeOK /\ UniqueWordStatus`. It is
needed for `NoUniqueError`, which is not inductive alone: that `UPDATE` of an
*active* entry under its own word meets no conflict follows from
`UniqueWordStatus`, while a new or reactivated entry gets a word that
`resolveWord` found free, and a word without an active row conflicts with
nothing when written as active (`ResolvedWordIsFree`). The proof has one lemma
per operation; `WriteKeepsUnique` is the step they share. Both rest on the
atomicity of a transaction: on PostgreSQL `NoUniqueError` is false, as
`pg_unique_error` shows. `AnswerResolves` and `DeletedOnce` follow from one lemma,
`NextIsTruthful`: a step that changes the answer makes it `Truthful`, and the
constraint makes the active row of a word the only one (`ActiveRowResolves`). That
collisions are reported, and only they, comes from `resolveWord`: its first free
attempt is the word itself exactly when nobody holds it (`SuffixMeansTaken`).

**The directory** (`DirectoryProofs`). `NextEffect` reduces every operation to
what it does to the table: nothing, a new active row under a free word, an
expired row made active under a free word, an active row with another
expiration, a row removed, due rows marked expired (`Effect`). From there no
operation of the code is looked at again. The invariant is
`DInv == IInv /\ RowsAreMinted`: that a row's id was handed out is what keeps
an INSERT from meeting a deleted or an existing entry. `EffectKeeps` follows one
active entry through a step, `EffectIsDirectoryStep` maps a step to an action of
`WordDirectory` or to a stutter.

**The worker** (`WorkerProofs`). Each of its steps is a step of `EntryStore` or a
stutter (`WorkerStepIsStoreStep`), so `DInv` is kept for free and the refinement
follows. That a finished sweep left nothing due needs that only finitely many ids
were ever handed out (`FinitelyMany`): a batch with fewer rows than its size must
then have been all the due ones. The type invariant needs that a batch is not begun
with its attempts used up (`AttemptsLeft`).

**The files** (`FileProofs`). Neither property is inductive. A late upload is
harmless because each URL belongs to an id that was handed out for a file
(`UploadsKnown`), and a delete past the bucket leaves nothing behind because it
still remembers the entry whose object it removed (`CallsKnown`).

**The database servers** (`PgProofs`). The steps of a transaction act on what it
read before. `Unraced` says that this is still true of the table as long as nobody
else wrote, and `BatchKnown` the same of a selected batch; `TxKnown` ties a
transaction to an entry that was handed out and to a word of its own. `PgEffect`
sorts the writes as `Effect` does, with a row renewed whatever became of it and
rows marked whether due or not. The constraint and `NoResurrection`
follow from the effects alone, in any race, and `CommitResolves` from the
constraint; what goes wrong goes wrong in a race; and libSQL refuses the write of a
raced transaction, so that with it every effect is one of `DirectoryProofs`.
`RetryIsReported` comes from the constraint as well: while the first entry holds the
word, the repeated INSERT can only have succeeded under another candidate.

**The process** (`ServerProofs`). The record of a download is written two steps
after its row was read, when the entry may have another word or be gone. What the
handler carries is true because it was once (`RequestsKnown`), and the present word
of an entry is one of those it had (`NamesKnown`). As to the table, a start, a signal
or a kill is a stutter and the rest a step of `EntryStore`, so that what is known of the
table is known here (`ServerEffect`).

**The tools** (`ToolsProofs`). `S3Isolated` holds of all deployments, whatever the
state: through defaults, file, environment, the S3 switch, validation and
normalisation, two configurations that differ only about S3 stay alike
(`CoreAlike`). `CreatedByIsTrue` is inductive together with the range of who is
authenticated. `WalkComplete` is argued by ranks. The rank of a row is the number
of rows that must come before it; where no rows tie, the row at place *i* has rank
*i* - 1 (`PlaceIsRank`), so a page is the rows with ranks in a window
(`PageRanks`). As long as no row leaves the list, no rank falls and what is still to be
read stays behind the offset (`NothingSkipped`); as long as none comes, no rank grows
and what was read stays before it (`NothingRepeated`). Lists by word with one
status never tie because of `UniqueWordStatus`. The order of words is a total one
(`PrecedesTotal`), which comes from the least place at which two words differ.

**The migrations** (`MigrationsProofs`). The invariant is
`MigInv == MigTypeOK /\ Progress /\ AppliedInOrder /\ OneWriterPerColumn`. None of
the properties is inductive alone: `Progress` says that what a replica has
passed in its loop is recorded, and what it is about to record has taken effect.
Of two replicas at one `ALTER TABLE` the second finds the file in the schema and
exits, so it cannot be about to record it.

### Checked by TLC only

* Liveness under fairness, which is out of the prover's reach: `DueEntriesAreSwept`,
  `HistoryIsCleaned`, `CancelStopsWorker`, `ReplicasConverge` and `SignalEnds`.
* The disagreements: a counterexample on a small instance is the proof that the
  property fails.

## 5. Not modelled, and the plan

Not modelled:

* how the stdio transport ends (the library reads standard input), and what the
  health server reports;
* `get_entry` and `get_entry_by_word`, which are one SELECT each;
* arguments of another type than their schema's: a `ttl_hours` that is not a number
  becomes 0, which means *never*;
* the OAuth and resource metadata documents, ports, logging, tool descriptions,
  DSNs;
* contents, sizes, names of files, key prefixes and signatures. A body of unknown
  length that the upload proxy cuts off at its limit is therefore not seen;
* times below one hour: expiration times lose their fraction of a second when
  they are stored.

What a later version could add, in this order:

1. A walk with a limit above the greatest, whose answer echoes what was asked for: a
   property that says which entries it misses.
2. `RecordDownload` and the cleanup of the download history on PostgreSQL, with several
   replicas.
3. `get_entry` and `get_entry_by_word` beside the writes on PostgreSQL, as reads of a
   snapshot.
