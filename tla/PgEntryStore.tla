----------------------------- MODULE PgEntryStore -----------------------------
(***************************************************************************)
(* The word store on a database server, shared by several replicas. WithTx  *)
(* takes no write lock there. On PostgreSQL it begins a transaction at READ *)
(* COMMITTED: every statement sees what others have committed by then, and  *)
(* what an earlier statement read may be out of date when a later one       *)
(* writes. On libSQL (libsql.go:19-23) the transaction is deferred: it      *)
(* keeps the snapshot of its first statement, and the server refuses the    *)
(* write of a transaction whose snapshot is no longer the latest.           *)
(*                                                                          *)
(* An operation here is a sequence of steps, one for each statement: the    *)
(* lookup, one step per WordExistsActive, the write. Each operation writes  *)
(* once, right before it commits; a write that has to wait for another      *)
(* transaction's row lock or index entry goes on from the committed state,  *)
(* so write and commit are one step. The answer to a COMMIT may be lost     *)
(* after the server executed it. Words, rows, arguments and answers are     *)
(* those of EntryStore.                                                     *)
(***************************************************************************)
EXTENDS EntryStore

CONSTANTS
    Workers,   \* the expiration workers, one for each replica
    Drivers    \* the database drivers to look at: "postgres", "libsql"

ASSUME PgAssumption ==
    /\ Workers \cap Clients = {}
    /\ Drivers \subseteq {"postgres", "libsql"}

VARIABLES
    driver,   \* database.driver of the configuration; it never changes
    tx,       \* client -> its transaction: what it read and where it is
    snapshot, \* client -> the table its libSQL transaction reads
    batch,    \* worker -> the ids its UPDATE selected, {} when idle
    raced,    \* history: processes during whose operation another one wrote
    origin,   \* history: id -> the word the entry was stored under
    unheard   \* history: client -> the entry it stored without an answer

pgVars == <<vars, driver, tx, snapshot, batch, raced, origin, unheard>>

NoTx == [at |-> "idle", op |-> "none", id |-> NoId, base |-> <<>>, try |-> 0,
         expires |-> Never]

NoTable == [id \in Ids |-> NoRow]

\* The first statement of a transaction is the lookup, or the first probe of a
\* store_entry.
HasRead(c) ==
    /\ tx[c] # NoTx
    /\ ~(tx[c].op = "store_entry" /\ tx[c].at = "probe" /\ tx[c].try = 1)

Busy == {c \in Clients : HasRead(c) \/ deleting[c] # NoDelete}
            \cup {k \in Workers : batch[k] # {}}

\* The operation of p ends; if it wrote, it raced the operations still running.
Ends(p, wrote) == raced' = (IF wrote THEN raced \cup Busy ELSE raced) \ {p}

\* What a statement of c sees: on libSQL the table as its first statement saw it.
View(c) == IF driver = "libsql" /\ HasRead(c) THEN snapshot[c] ELSE entries

\* The first statement of c takes the snapshot. It is kept while c has probes to
\* make: the write asks only whether it is still the latest.
Opens(c) ==
    snapshot' = [snapshot EXCEPT ![c] =
        IF driver = "libsql" /\ tx'[c].at = "probe" THEN View(c) ELSE NoTable]

\* Mutant: the lookups run outside the transaction, whose snapshot is then the
\* one of its write.
NeverStale(c) == FALSE

\* SQLITE_BUSY_SNAPSHOT: somebody wrote since c took its snapshot. The refusal is
\* SQLite's, the "busy-snapshot" that sqlite.go:24-25 means to avoid there; libsql.go
\* (21-23) does not speak of it and trusts the unique constraint.
Stale(c) == driver = "libsql" /\ c \in raced

\* Mutant: the status filter looks at the wrong status.
TakenExpired(c, w) ==
    LET t == View(c)
    IN  \E id \in Ids : t[id] # NoRow /\ t[id].status = "expired" /\ t[id].word = w

\* WordExistsActive in the table that c sees.
Taken(c, w) ==
    LET t == View(c)
    IN  \E id \in Ids : t[id] # NoRow /\ t[id].status = "active" /\ t[id].word = w

\* VARCHAR(500) of the PostgreSQL schema; SQLite and libSQL store any length.
TooLong(w) == driver = "postgres" /\ Len(w) > MaxWordLength

Begin(c, op, id, base, place, ttl) ==
    /\ tx' = [tx EXCEPT ![c] = [at |-> place, op |-> op, id |-> id, base |-> base,
                                try |-> 1, expires |-> ExpiresAt(ttl)]]
    /\ UNCHANGED <<entries, minted, reply>>

Leave(c) ==
    /\ tx' = [tx EXCEPT ![c] = NoTx]
    /\ snapshot' = [snapshot EXCEPT ![c] = NoTable]

\* A call of c begins. A client that got no answer to a store_entry repeats it
\* before it does anything else.
Calls(c) == tx[c] = NoTx /\ deleting[c] = NoDelete
Repeats(c, w) == unheard[c] # NoId => w = origin[unheard[c]]

\* What the first statement of an operation leaves alone.
FirstFrame == UNCHANGED <<now, deleting, driver, batch, raced, origin, unheard>>

-----------------------------------------------------------------------------
(* The first statement of each operation *)

PgStoreEntry(c, w, ttl) ==
    /\ Calls(c) /\ Repeats(c, w)
    /\ LET err == StoreRefusal(w, "fits", ttl)
       IN  IF err # "none" THEN Refuse("store_entry", err) /\ UNCHANGED tx
           ELSE Begin(c, "store_entry", NoId, w, "probe", ttl)
    /\ UNCHANGED snapshot
    /\ FirstFrame

\* Mutant: the status is not looked at.
RestoreAnyStatus(c, id, ttl) ==
    /\ Calls(c) /\ unheard[c] = NoId
    /\ IF ~ValidTTL(ttl) THEN Refuse("restore_entry", "ErrInvalidTTL") /\ UNCHANGED <<tx, snapshot>>
       ELSE IF ~Present(id) THEN Refuse("restore_entry", "ErrNotFound") /\ UNCHANGED <<tx, snapshot>>
       ELSE Begin(c, "restore_entry", id, entries[id].word, "probe", ttl) /\ Opens(c)
    /\ FirstFrame

PgRestoreEntry(c, id, ttl) ==
    /\ Calls(c) /\ unheard[c] = NoId
    /\ LET err == IF ~ValidTTL(ttl) THEN "ErrInvalidTTL"
                  ELSE IF ~Present(id) THEN "ErrNotFound"
                  ELSE IF Active(id) THEN "ErrAlreadyActive" ELSE "none"
       IN  IF err # "none" THEN Refuse("restore_entry", err) /\ UNCHANGED <<tx, snapshot>>
           ELSE Begin(c, "restore_entry", id, entries[id].word, "probe", ttl) /\ Opens(c)
    /\ FirstFrame

\* The word of an entry seen active is written back as it was read.
PgUpdateExpiration(c, ref, ttl) ==
    /\ Calls(c) /\ unheard[c] = NoId
    /\ LET err == IF ref = <<>> THEN "ErrInvalidWord"
                  ELSE IF ~ValidTTL(ttl) THEN "ErrInvalidTTL"
                  ELSE IF Lookup(ref) = {} THEN "ErrNotFound" ELSE "none"
       IN  IF err # "none" THEN Refuse("update_expiration", err) /\ UNCHANGED <<tx, snapshot>>
           ELSE /\ \E id \in Lookup(ref) :
                     Begin(c, "update_expiration", id, entries[id].word,
                           IF Active(id) THEN "write" ELSE "probe", ttl)
                /\ Opens(c)
    /\ FirstFrame

-----------------------------------------------------------------------------
(* The other statements *)

\* Mutant: the loop runs one attempt too far.
ProbeTooFar(c) ==
    LET t == tx[c]
        taken == Taken(c, Candidate(t.base, t.try)) IN
    /\ t.at = "probe"
    /\ \/ /\ ~taken
          /\ tx' = [tx EXCEPT ![c].at = "write"]
          /\ Opens(c)
          /\ UNCHANGED <<entries, minted, reply, raced>>
       \/ /\ taken /\ t.try <= MaxCollisionAttempts
          /\ tx' = [tx EXCEPT ![c].try = t.try + 1]
          /\ Opens(c)
          /\ UNCHANGED <<entries, minted, reply, raced>>
       \/ /\ taken /\ t.try > MaxCollisionAttempts
          /\ Refuse(t.op, "ErrCollisionLimitExceeded")
          /\ Leave(c) /\ Ends(c, FALSE)
    /\ UNCHANGED <<now, deleting, driver, batch, origin, unheard>>

\* resolveWord: is the next candidate free?
Probe(c) ==
    LET t == tx[c]
        taken == Taken(c, Candidate(t.base, t.try)) IN
    /\ t.at = "probe"
    /\ \/ /\ ~taken
          /\ tx' = [tx EXCEPT ![c].at = "write"]
          /\ Opens(c)
          /\ UNCHANGED <<entries, minted, reply, raced>>
       \/ /\ taken /\ t.try < MaxCollisionAttempts
          /\ tx' = [tx EXCEPT ![c].try = t.try + 1]
          /\ Opens(c)
          /\ UNCHANGED <<entries, minted, reply, raced>>
       \/ /\ taken /\ t.try = MaxCollisionAttempts
          /\ Refuse(t.op, "ErrCollisionLimitExceeded")
          /\ Leave(c) /\ Ends(c, FALSE)
    /\ UNCHANGED <<now, deleting, driver, batch, origin, unheard>>

\* Mutant: a collision is resolved without a word to the client.
InsertQuietly(c) ==
    LET t == tx[c]
        w == Candidate(t.base, t.try)
        original == <<>> IN
    /\ t.at = "write" /\ t.op = "store_entry"
    /\ \/ /\ TooLong(w) \/ Stale(c)
          /\ Refuse(t.op, "ErrDatabase")
          /\ Ends(c, FALSE)
          /\ UNCHANGED <<origin, unheard>>
       \/ /\ ~TooLong(w) /\ ~Stale(c)
          /\ \E id \in Ids \ minted :
                /\ Store(t.op, id, w, "text", t.expires, original)
                /\ origin' = IF id \in minted' THEN [origin EXCEPT ![id] = t.base] ELSE origin
          /\ unheard' = [unheard EXCEPT ![c] = IF reply'.err = "none" THEN NoId ELSE @]
          /\ Ends(c, reply'.err = "none")
    /\ Leave(c)
    /\ UNCHANGED <<now, deleting, driver, batch>>

\* INSERT and commit. VARCHAR(500) refuses a longer word, libSQL a stale
\* snapshot, UNIQUE (word, status) a word that was taken since it was found free.
InsertAndCommit(c) ==
    LET t == tx[c]
        w == Candidate(t.base, t.try)
        original == IF t.try > 1 THEN t.base ELSE <<>> IN
    /\ t.at = "write" /\ t.op = "store_entry"
    /\ \/ /\ TooLong(w) \/ Stale(c)
          /\ Refuse(t.op, "ErrDatabase")
          /\ Ends(c, FALSE)
          /\ UNCHANGED <<origin, unheard>>
       \/ /\ ~TooLong(w) /\ ~Stale(c)
          /\ \E id \in Ids \ minted :
                /\ Store(t.op, id, w, "text", t.expires, original)
                /\ origin' = IF id \in minted' THEN [origin EXCEPT ![id] = t.base] ELSE origin
          /\ unheard' = [unheard EXCEPT ![c] = IF reply'.err = "none" THEN NoId ELSE @]
          /\ Ends(c, reply'.err = "none")
    /\ Leave(c)
    /\ UNCHANGED <<now, deleting, driver, batch>>

\* The INSERT is committed, but the answer to COMMIT never arrives: tx.Commit
\* fails, and so does the call.
CommitUnheard(c) ==
    LET t == tx[c]
        w == Candidate(t.base, t.try) IN
    /\ t.at = "write" /\ t.op = "store_entry" /\ unheard[c] = NoId
    /\ ~TooLong(w) /\ ~Stale(c)
    /\ \E id \in Ids \ minted :
          /\ ~Conflict(id, w, "active")
          /\ entries' = [entries EXCEPT ![id] =
                [word |-> w, type |-> "text", status |-> "active", expires |-> t.expires]]
          /\ minted' = minted \cup {id}
          /\ origin' = [origin EXCEPT ![id] = t.base]
          /\ unheard' = [unheard EXCEPT ![c] = id]
    /\ reply' = [NoReply EXCEPT !.op = t.op, !.err = "ErrDatabase"]
    /\ Leave(c) /\ Ends(c, TRUE)
    /\ UNCHANGED <<now, deleting, driver, batch>>

\* Mutant: an UPDATE that matches no row is followed by an INSERT.
UpsertAndCommit(c) ==
    LET t == tx[c] IN
    /\ t.at = "write" /\ t.op # "store_entry"
    /\ entries' = [entries EXCEPT ![t.id] = [word |-> t.base, type |-> "text",
                        status |-> "active", expires |-> t.expires]]
    /\ Leave(c) /\ Ends(c, TRUE)
    /\ UNCHANGED <<minted, reply, now, deleting, driver, batch, origin, unheard>>

\* UPDATE by id and commit: on PostgreSQL it finds the row as it is now,
\* whatever this transaction read of it, or no row. restore_entry reports the
\* new word as the original one.
UpdateAndCommit(c) ==
    LET t == tx[c]
        w == Candidate(t.base, t.try)
        original == IF t.try = 1 THEN <<>> ELSE IF t.op = "restore_entry" THEN w ELSE t.base
    IN
    /\ t.at = "write" /\ t.op # "store_entry"
    /\ IF Stale(c) THEN Refuse(t.op, "ErrDatabase")
       ELSE IF ~Present(t.id) THEN Refuse(t.op, "ErrNotFound")
       ELSE IF TooLong(w) THEN Refuse(t.op, "ErrDatabase")
       ELSE UpdateStatus(t.op, t.id, "active", w, t.expires, original)
    /\ Leave(c) /\ Ends(c, reply'.err = "none")
    /\ UNCHANGED <<now, deleting, driver, batch, origin, unheard>>

\* delete_entry opens no transaction: each of its statements sees the table.
PgDeleteEntry(c, ref) ==
    /\ Calls(c) /\ unheard[c] = NoId
    /\ DeleteEntry(c, ref)
    /\ Ends(c, entries' # entries)
    /\ UNCHANGED <<driver, tx, snapshot, batch, origin, unheard>>

PgDeleteFound(c) ==
    /\ DeleteFound(c)
    /\ Ends(c, entries' # entries)
    /\ UNCHANGED <<driver, tx, snapshot, batch, origin, unheard>>

\* The process of c, or its connection, is gone: the transaction rolls back.
Abort(c) ==
    /\ tx[c] # NoTx \/ deleting[c] # NoDelete
    /\ Leave(c)
    /\ deleting' = [deleting EXCEPT ![c] = NoDelete]
    /\ raced' = raced \ {c}
    /\ UNCHANGED <<entries, minted, now, reply, driver, batch, origin, unheard>>

-----------------------------------------------------------------------------
(* MarkExpiredBatch. On PostgreSQL the subselect reads its snapshot, then the *)
(* rows are locked one by one; a row that changed meanwhile is only asked     *)
(* again whether its id is in the list. On libSQL the statement is atomic.    *)

SelectBatch(k) ==
    /\ driver = "postgres" /\ batch[k] = {}
    /\ \E b \in Batches \ {{}} : batch' = [batch EXCEPT ![k] = b]
    /\ UNCHANGED <<vars, driver, tx, snapshot, raced, origin, unheard>>

\* The statement writes rows and ends.
Mark(k, rows) ==
    /\ MarkExpiredBatch(rows)
    /\ Ends(k, rows # {} /\ ~BatchFails(rows))
    /\ UNCHANGED <<minted, now, deleting, reply, driver, tx, snapshot, origin, unheard>>

UpdateBatch(k) ==
    /\ batch[k] # {}
    /\ Mark(k, {id \in batch[k] : Present(id)})
    /\ batch' = [batch EXCEPT ![k] = {}]

SweepLibSQL(k) ==
    /\ driver = "libsql"
    /\ \E b \in Batches \ {{}} : Mark(k, b)
    /\ UNCHANGED batch

PgTick == Tick /\ UNCHANGED <<driver, tx, snapshot, batch, raced, origin, unheard>>

PgInit ==
    /\ Init
    /\ driver \in Drivers
    /\ tx = [c \in Clients |-> NoTx]
    /\ snapshot = [c \in Clients |-> NoTable]
    /\ batch = [k \in Workers |-> {}]
    /\ raced = {}
    /\ origin = [id \in Ids |-> <<>>]
    /\ unheard = [c \in Clients |-> NoId]

PgNext ==
    \/ \E c \in Clients, w \in RequestWords, ttl \in TTLArgs : PgStoreEntry(c, w, ttl)
    \/ \E c \in Clients, id \in Ids, ttl \in TTLArgs : PgRestoreEntry(c, id, ttl)
    \/ \E c \in Clients, ref \in Refs, ttl \in TTLArgs : PgUpdateExpiration(c, ref, ttl)
    \/ \E c \in Clients : Probe(c)
    \/ \E c \in Clients : InsertAndCommit(c)
    \/ \E c \in Clients : CommitUnheard(c)
    \/ \E c \in Clients : UpdateAndCommit(c)
    \/ \E c \in Clients, ref \in Refs : PgDeleteEntry(c, ref)
    \/ \E c \in Clients : PgDeleteFound(c)
    \/ \E c \in Clients : Abort(c)
    \/ \E k \in Workers : SelectBatch(k)
    \/ \E k \in Workers : UpdateBatch(k)
    \/ \E k \in Workers : SweepLibSQL(k)
    \/ PgTick

PgSpec == PgInit /\ [][PgNext]_pgVars

-----------------------------------------------------------------------------
(* Properties *)

\* Every variable keeps its range: the loop of resolveWord stays within its
\* attempts, only operations in progress have been raced, and an unanswered store
\* did store (entry_service.go:356-376).
PgTypeOK ==
    /\ TypeOK
    /\ tx \in [Clients -> [at : {"idle", "probe", "write"}, op : Ops, id : Ids \cup {NoId},
                           base : Words, try : 0 .. MaxCollisionAttempts,
                           expires : Nat \cup {Never}]]
    /\ batch \in [Workers -> SUBSET Ids]
    /\ driver \in Drivers
    /\ snapshot \in [Clients -> [Ids -> Row \cup {NoRow}]]
    /\ raced \subseteq Busy
    /\ origin \in [Ids -> Words]
    /\ unheard \in [Clients -> minted \cup {NoId}]

\* Whatever a client read before, the word it is told after a write leads to its
\* entry and to no other at the moment of the commit.
CommitResolves ==
    [][\A c \in Clients :
          /\ tx[c].at = "write" /\ tx'[c] = NoTx
          /\ reply'.err = "none" /\ entries' # entries
          => (GetByWord(reply.word, TRUE) = {reply.id})']_pgVars

\* The database's unique-constraint error reaches a client only on PostgreSQL,
\* and only if somebody else wrote while its operation was running.
UniqueErrorMeansRace ==
    [][\A c \in Clients :
          tx[c].at = "write" /\ tx'[c] = NoTx /\ reply' # reply /\ reply'.err = "ErrUnique"
          => driver = "postgres" /\ c \in raced]_pgVars

\* On libSQL no race harms the table: although transactions are deferred, each step
\* is a step of the directory of words, as it is on SQLite (libsql.go:19-23). The
\* loser of a race gets a database error.
LibsqlKeepsDirectory == [][driver = "libsql" => Directory!DirNext]_<<Life, Name>>

\* A client whose store_entry was committed without an answer stores a second
\* entry when it repeats the call. As long as the first one holds the word it
\* sent, it is told so: the original word in the answer is the one that leads to
\* the entry it does not know of (entry_service.go:120-122, sqlite.go:346).
RetryIsReported ==
    [][\A c \in Clients, first \in Ids :
          /\ unheard[c] = first /\ unheard'[c] = NoId
          /\ Active(first)' /\ entries'[first].word = tx[c].base
          => reply'.original = tx[c].base]_pgVars

\* What an active entry may suffer without a race: to be deleted, to be given
\* another expiration, or to expire when it is due.
Undisturbed(id) ==
    \/ ~Present(id)'
    \/ /\ entries'[id].word = entries[id].word
       /\ Active(id)' \/ (Expired(id)' /\ Due(id))

\* An active entry is renamed, or expired before its time, only by an operation
\* on this entry during which somebody else wrote: a second restore that found
\* its word taken by the first, or a batch that waited for update_expiration.
DisturbedOnlyInRaces ==
    [][\A id \in Ids : Active(id) =>
          \/ Undisturbed(id)
          \/ \E c \in Clients \cap raced : tx[c].at = "write" /\ tx[c].id = id /\ tx'[c] = NoTx
          \/ \E k \in Workers \cap raced : id \in batch[k] /\ batch'[k] = {}]_pgVars

\* A deleted entry stays deleted, although operations that found it before and
\* batches that selected it write afterwards.
NoResurrection == [][\A id \in minted : ~Present(id) => ~Present(id)']_pgVars

\* However often an entry was renamed, and in whatever race, its word begins
\* with the word it was first stored under.
WordsExtendOrigin ==
    \A id \in Ids : Present(id) =>
        /\ Len(entries[id].word) >= Len(origin[id])
        /\ SubSeq(entries[id].word, 1, Len(origin[id])) = origin[id]

\* "Safe to run multiple replicas [...] collision resolution uses
\* database-level unique constraints" (README.md:591). Refuted: of two
\* store_entry calls for one word the later one gets the constraint's error.
PgNoUniqueError == NoUniqueError
=============================================================================
