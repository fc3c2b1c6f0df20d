------------------------------ MODULE EntryStore ------------------------------
(***************************************************************************)
(* The word store of watchword on SQLite: the table `entries`, the clock,   *)
(* the operations of EntryService that change the table, and the sweep of   *)
(* the expiration worker.                                                   *)
(*                                                                          *)
(* SQLite serves every transaction under BEGIN IMMEDIATE (sqlite.go:22-54), *)
(* so a call of WithTx, and every single statement outside one, is one      *)
(* atomic step here. delete_entry by word is two statements without a       *)
(* transaction, hence two steps with the found row kept in `deleting`.      *)
(*                                                                          *)
(* A word is a sequence over Letters and decimal digits, so that the word   *)
(* made by appending 2 to w is the word a client may type as w2. Clock and  *)
(* TTL are counted in hours. Payloads are reduced to what validation tells  *)
(* apart.                                                                   *)
(***************************************************************************)
EXTENDS Integers, Sequences, FiniteSets

CONSTANTS
    Ids,                   \* the UUIDs that uuid.New may return
    Letters,               \* non-digit characters of words
    RequestWords,          \* the (trimmed) words that clients send
    TTLArgs,               \* the ttl_hours arguments that clients send
    Clients,               \* concurrent tool calls that delete by word
    NoId, NoRow, Never, NilTTL,
    DefaultTTL,            \* expiration.ttl_hours of the configuration
    MaxTTLHours, MaxWordLength, MaxCollisionAttempts, BatchSize,
    MaxNow                 \* bound of the model: the clock stops here

Digits == 0 .. 9
Words == Seq(Letters \cup Digits)

ASSUME IdsAssumption == NoId \notin Ids
ASSUME WordsAssumption == RequestWords \subseteq Words
ASSUME TTLAssumption ==
    /\ NilTTL \notin Int
    /\ Never \notin Int
    /\ TTLArgs \subseteq Int \cup {NilTTL}
    /\ DefaultTTL \in Nat
    /\ MaxTTLHours \in Nat
ASSUME LimitsAssumption ==
    /\ MaxWordLength \in Nat
    /\ MaxCollisionAttempts \in 1 .. 999
    /\ BatchSize \in Nat \ {0}
    /\ MaxNow \in Nat
VARIABLES
    entries,    \* the table: id -> row, or NoRow
    minted,     \* the UUIDs handed out so far; uuid.New never repeats one
    now,        \* the clock, in hours
    deleting,   \* client -> the id delete_entry found, and the word it was asked
    reply       \* the last answer the service gave to a client

vars == <<entries, minted, now, deleting, reply>>

Row == [word : Words, type : {"text", "file"},
        status : {"active", "expired"}, expires : Nat \cup {Never}]

\* An argument parses as a UUID or is a word; NoId is not a word, NoRow not a row.
ASSUME ShapeAssumption == (Ids \cup {NoId}) \cap Words = {} /\ NoRow \notin Row

-----------------------------------------------------------------------------
(* Rows and words *)

Present(id) == entries[id] # NoRow
Active(id) == Present(id) /\ entries[id].status = "active"
Expired(id) == Present(id) /\ entries[id].status = "expired"

\* Mutant: the status filter looks at the wrong status.
WordExistsExpired(w) == \E id \in Ids : Expired(id) /\ entries[id].word = w

WordExistsActive(w) == \E id \in Ids : Active(id) /\ entries[id].word = w

\* A second row with this word and status: what UNIQUE (word, status) refuses.
Conflict(id, w, status) ==
    \E other \in Ids \ {id} :
        Present(other) /\ entries[other].word = w /\ entries[other].status = status

\* The rows GetByWord may return: an active one first, else (if asked) an
\* expired one; empty is ErrNotFound.
GetByWord(w, includeExpired) ==
    LET live == {id \in Ids : Active(id) /\ entries[id].word = w}
        dead == {id \in Ids : Expired(id) /\ entries[id].word = w}
    IN  IF live = {} /\ includeExpired THEN dead ELSE live

Lookup(ref) ==
    IF ref \in Ids THEN {id \in {ref} : Present(id)} ELSE GetByWord(ref, TRUE)

Decimal(i) ==
    IF i < 10 THEN <<i>>
    ELSE IF i < 100 THEN <<i \div 10, i % 10>>
    ELSE <<i \div 100, (i \div 10) % 10, i % 10>>

\* Mutant: the suffix replaces the word.
CandidateNumber(base, i) == IF i = 1 THEN base ELSE Decimal(i)

\* The i-th word resolveWord tries: the base word, then base2, base3, ...
Candidate(base, i) == IF i = 1 THEN base ELSE base \o Decimal(i)

FreeAttempts(base) ==
    {i \in 1 .. MaxCollisionAttempts : ~WordExistsActive(Candidate(base, i))}

\* resolveWord: the first free attempt; empty is ErrCollisionLimitExceeded.
ResolveWord(base) ==
    {i \in FreeAttempts(base) : \A j \in FreeAttempts(base) : i <= j}

-----------------------------------------------------------------------------
(* Arguments and answers *)

ValidateWord(w) == Len(w) \in 1 .. MaxWordLength

\* Mutant: the lower bound is not checked.
TTLBelowMax(ttl) == ttl = NilTTL \/ ttl <= MaxTTLHours

ValidTTL(ttl) == ttl = NilTTL \/ ttl \in 0 .. MaxTTLHours

ExpiresAt(ttl) ==
    LET hours == IF ttl = NilTTL THEN DefaultTTL ELSE ttl
    IN  IF hours = 0 THEN Never ELSE now + hours

StoreRefusal(w, payload, ttl) ==
    IF ~ValidateWord(w) THEN "ErrInvalidWord"
    ELSE IF payload = "empty" THEN "ErrPayloadEmpty"
    ELSE IF payload = "too large" THEN "ErrPayloadTooLarge"
    ELSE IF ~ValidTTL(ttl) THEN "ErrInvalidTTL"
    ELSE "none"

Refs == Ids \cup RequestWords

Ops == {"none", "store_entry", "restore_entry", "update_expiration",
        "delete_entry", "upload_file", "download_file"}

Errors == {"none", "ErrInvalidWord", "ErrPayloadEmpty", "ErrPayloadTooLarge",
           "ErrInvalidTTL", "ErrInvalidUUID", "ErrNotFound", "ErrAlreadyActive",
           "ErrCollisionLimitExceeded", "ErrUnique", "ErrInvalidFilename",
           "ErrPresign", "ErrNotAFileEntry", "ErrDatabase"}

Answers == [op : Ops, err : Errors, id : Ids \cup {NoId}, word : Words,
            original : Words]

NoDelete == [id |-> NoId, word |-> <<>>]
Deletions == [id : Ids, word : Words] \cup {NoDelete}

NoReply == [op |-> "none", err |-> "none", id |-> NoId, word |-> <<>>, original |-> <<>>]

\* CollisionResolved is set exactly when OriginalWord is: original # <<>>.
Accept(op, id, w, original) ==
    reply' = [op |-> op, err |-> "none", id |-> id, word |-> w, original |-> original]

Refuse(op, err) ==
    /\ reply' = [NoReply EXCEPT !.op = op, !.err = err]
    /\ UNCHANGED <<entries, minted>>

-----------------------------------------------------------------------------
(* The operations *)

\* INSERT of a new active row, answered with the word it got.
Store(op, id, w, type, expires, original) ==
    IF Conflict(id, w, "active") THEN Refuse(op, "ErrUnique")
    ELSE /\ entries' = [entries EXCEPT ![id] =
                [word |-> w, type |-> type, status |-> "active", expires |-> expires]]
         /\ minted' = minted \cup {id}
         /\ Accept(op, id, w, original)

\* Mutant: the collision is resolved and not reported.
StoreTxQuiet(op, base, type, ttl) ==
    \/ FreeAttempts(base) = {} /\ Refuse(op, "ErrCollisionLimitExceeded")
    \/ \E i \in ResolveWord(base), id \in Ids \ minted :
          Store(op, id, Candidate(base, i), type, ExpiresAt(ttl), <<>>)

\* The transaction of store_entry and upload_file: resolve the word, insert.
StoreTx(op, base, type, ttl) ==
    \/ FreeAttempts(base) = {} /\ Refuse(op, "ErrCollisionLimitExceeded")
    \/ \E i \in ResolveWord(base), id \in Ids \ minted :
          Store(op, id, Candidate(base, i), type, ExpiresAt(ttl),
                IF i > 1 THEN base ELSE <<>>)

StoreEntry(w, payload, ttl) ==
    /\ LET err == StoreRefusal(w, payload, ttl)
       IN  IF err # "none" THEN Refuse("store_entry", err)
           ELSE StoreTx("store_entry", w, "text", ttl)
    /\ UNCHANGED <<now, deleting>>

\* Mutant: the answer carries the word the row had before.
UpdateStatusOldWord(op, id, status, w, expires, original) ==
    IF Conflict(id, w, status) THEN Refuse(op, "ErrUnique")
    ELSE /\ entries' = [entries EXCEPT ![id] =
                [@ EXCEPT !.status = status, !.word = w, !.expires = expires]]
         /\ Accept(op, id, entries[id].word, original)
         /\ UNCHANGED minted

\* UPDATE entries SET status, word, expires_at WHERE id, then the answer.
UpdateStatus(op, id, status, w, expires, original) ==
    IF Conflict(id, w, status) THEN Refuse(op, "ErrUnique")
    ELSE /\ entries' = [entries EXCEPT ![id] =
                [@ EXCEPT !.status = status, !.word = w, !.expires = expires]]
         /\ Accept(op, id, w, original)
         /\ UNCHANGED minted

\* The transaction of restore_entry. It overwrites entry.Word before it copies
\* it into OriginalWord, so the original word it reports is the new one.
RestoreTx(id, ttl) ==
    LET base == entries[id].word IN
    \/ FreeAttempts(base) = {} /\ Refuse("restore_entry", "ErrCollisionLimitExceeded")
    \/ \E i \in ResolveWord(base) :
          LET w == Candidate(base, i)
          IN  UpdateStatus("restore_entry", id, "active", w, ExpiresAt(ttl),
                           IF i > 1 THEN w ELSE <<>>)

RestoreEntry(ref, ttl) ==
    /\ IF ref \notin Ids THEN Refuse("restore_entry", "ErrInvalidUUID")
       ELSE IF ~ValidTTL(ttl) THEN Refuse("restore_entry", "ErrInvalidTTL")
       ELSE IF ~Present(ref) THEN Refuse("restore_entry", "ErrNotFound")
       ELSE IF Active(ref) THEN Refuse("restore_entry", "ErrAlreadyActive")
       ELSE RestoreTx(ref, ttl)
    /\ UNCHANGED <<now, deleting>>

\* Mutant: the word of an active entry is resolved again as well.
UpdateExpirationRenames(id, ttl) ==
    LET base == entries[id].word IN
    \/ FreeAttempts(base) = {} /\ Refuse("update_expiration", "ErrCollisionLimitExceeded")
    \/ \E i \in ResolveWord(base) :
          UpdateStatus("update_expiration", id, "active", Candidate(base, i),
                       ExpiresAt(ttl), IF i > 1 THEN base ELSE <<>>)

\* An expired entry comes back under a resolved word; an active one keeps its
\* word and only gets the new expiration.
UpdateExpirationTx(id, ttl) ==
    LET base == entries[id].word IN
    \/ /\ Active(id)
       /\ UpdateStatus("update_expiration", id, "active", base, ExpiresAt(ttl), <<>>)
    \/ /\ Expired(id) /\ FreeAttempts(base) = {}
       /\ Refuse("update_expiration", "ErrCollisionLimitExceeded")
    \/ /\ Expired(id)
       /\ \E i \in ResolveWord(base) :
             UpdateStatus("update_expiration", id, "active", Candidate(base, i),
                          ExpiresAt(ttl), IF i > 1 THEN base ELSE <<>>)

UpdateExpiration(ref, ttl) ==
    /\ IF ref = <<>> THEN Refuse("update_expiration", "ErrInvalidWord")
       ELSE IF ~ValidTTL(ttl) THEN Refuse("update_expiration", "ErrInvalidTTL")
       ELSE IF Lookup(ref) = {} THEN Refuse("update_expiration", "ErrNotFound")
       ELSE \E id \in Lookup(ref) : UpdateExpirationTx(id, ttl)
    /\ UNCHANGED <<now, deleting>>

\* DELETE FROM entries WHERE id: no row is ErrNotFound.
Delete(id, w) ==
    IF ~Present(id) THEN Refuse("delete_entry", "ErrNotFound")
    ELSE /\ entries' = [entries EXCEPT ![id] = NoRow]
         /\ Accept("delete_entry", id, w, <<>>)
         /\ UNCHANGED minted

\* delete_entry: one statement for a UUID; for a word, GetByWord finds the
\* active row first and DeleteFound deletes it by id later.
DeleteEntry(c, ref) ==
    /\ deleting[c] = NoDelete
    /\ \/ ref \in Ids /\ Delete(ref, <<>>) /\ UNCHANGED deleting
       \/ /\ ref \notin Ids /\ GetByWord(ref, FALSE) = {}
          /\ Refuse("delete_entry", IF ref = <<>> THEN "ErrInvalidWord" ELSE "ErrNotFound")
          /\ UNCHANGED deleting
       \/ /\ ref \notin Ids
          /\ \E id \in GetByWord(ref, FALSE) :
                deleting' = [deleting EXCEPT ![c] = [id |-> id, word |-> ref]]
          /\ UNCHANGED <<entries, minted, reply>>
    /\ UNCHANGED now

\* Mutant: nobody asks how many rows the second statement deleted.
DeleteFoundUnchecked(c) ==
    /\ deleting[c] # NoDelete
    /\ entries' = [entries EXCEPT ![deleting[c].id] = NoRow]
    /\ Accept("delete_entry", deleting[c].id, deleting[c].word, <<>>)
    /\ deleting' = [deleting EXCEPT ![c] = NoDelete]
    /\ UNCHANGED <<minted, now>>

\* The DELETE of the row found before, which another call may have deleted since.
DeleteFound(c) ==
    /\ deleting[c] # NoDelete
    /\ Delete(deleting[c].id, deleting[c].word)
    /\ deleting' = [deleting EXCEPT ![c] = NoDelete]
    /\ UNCHANGED now

-----------------------------------------------------------------------------
(* The sweep and the clock *)

Due(id) == Active(id) /\ entries[id].expires # Never /\ entries[id].expires <= now

\* What the subselect with LIMIT may return: it has no ORDER BY.
Batches ==
    LET due == {id \in Ids : Due(id)}
        full == Cardinality(due) > BatchSize
    IN  {b \in SUBSET due : Cardinality(b) = IF full THEN BatchSize ELSE Cardinality(due)}

\* Mutant: a schema without UNIQUE (word, status).
BatchNeverFails(batch) == FALSE

\* One UPDATE for the batch: a single conflicting row fails it as a whole.
BatchFails(batch) == \E id \in batch : Conflict(id, entries[id].word, "expired")

MarkExpiredBatch(batch) ==
    IF BatchFails(batch) THEN UNCHANGED entries
    ELSE entries' = [id \in Ids |->
            IF id \in batch THEN [entries[id] EXCEPT !.status = "expired"] ELSE entries[id]]

Sweep ==
    /\ \E batch \in Batches : batch # {} /\ MarkExpiredBatch(batch)
    /\ UNCHANGED <<minted, now, deleting, reply>>

Tick ==
    /\ now < MaxNow
    /\ now' = now + 1
    /\ UNCHANGED <<entries, minted, deleting, reply>>

\* The process dies or is restarted: calls in flight are forgotten, the table
\* is durable.
Crash ==
    /\ deleting' = [c \in Clients |-> NoDelete]
    /\ UNCHANGED <<entries, minted, now, reply>>

-----------------------------------------------------------------------------

Init ==
    /\ entries = [id \in Ids |-> NoRow]
    /\ minted = {}
    /\ now = 0
    /\ deleting = [c \in Clients |-> NoDelete]
    /\ reply = NoReply

Next ==
    \/ \E w \in RequestWords, p \in {"empty", "fits", "too large"}, ttl \in TTLArgs :
          StoreEntry(w, p, ttl)
    \/ \E ref \in Refs, ttl \in TTLArgs : RestoreEntry(ref, ttl)
    \/ \E ref \in Refs, ttl \in TTLArgs : UpdateExpiration(ref, ttl)
    \/ \E c \in Clients, ref \in Refs : DeleteEntry(c, ref)
    \/ \E c \in Clients : DeleteFound(c)
    \/ Sweep
    \/ Tick
    \/ Crash

Spec == Init /\ [][Next]_vars

-----------------------------------------------------------------------------
(* Properties *)

\* Every variable keeps its range: rows have words, times and statuses of the
\* schema, and answers are those of the handlers (entry.go:55-65, 001_init.sql).
TypeOK ==
    /\ entries \in [Ids -> Row \cup {NoRow}]
    /\ minted \subseteq Ids
    /\ now \in 0 .. MaxNow
    /\ deleting \in [Clients -> Deletions]
    /\ reply \in Answers

\* No two rows share a word and a status, so GetByWord never has two answers
\* (001_init.sql:10, sqlite.go:172). MarkExpiredBatch may break it: an active
\* row may join an expired one of the same word.
UniqueWordStatus ==
    \A a, b \in Ids :
        /\ Present(a) /\ Present(b)
        /\ entries[a].word = entries[b].word
        /\ entries[a].status = entries[b].status
        => a = b

\* No client is ever shown the database's unique-constraint error: resolveWord
\* and the write that follows see the same table (sqlite.go:22-34,
\* entry_service_concurrent_test.go:29-33).
NoUniqueError == reply.err # "ErrUnique"

\* While an entry is active nobody takes its word, its content kind or its time
\* from it: it leaves the active state only by a delete, or by the sweep once
\* it is due, and then keeps its word.
EntryLifecycle ==
    [][\A id \in Ids : Active(id) =>
          \/ ~Present(id)' 
          \/ /\ entries'[id].word = entries[id].word
             /\ entries'[id].type = entries[id].type
             /\ Active(id)' \/ (Expired(id)' /\ Due(id))]_vars

\* The word a client is told after store, restore or update_expiration leads to
\* that entry and to no other at the moment of the answer.
AnswerResolves ==
    [][/\ reply' # reply
       /\ reply'.err = "none"
       /\ reply'.op \in {"store_entry", "restore_entry", "update_expiration"}
       => (GetByWord(reply.word, TRUE) = {reply.id})']_vars

\* An accepted answer to a call that asked for the word `base`: if it was taken, the
\* answer says so and gives a suffixed form of it, else it gives the word itself.
Tells(base, taken) ==
    /\ taken => /\ reply'.original = base
                /\ \E i \in 2 .. MaxCollisionAttempts : reply'.word = Candidate(base, i)
    /\ ~taken => reply'.original = <<>> /\ reply'.word = base

Accepted(op) == reply'.op = op /\ reply'.err = "none"

\* A client is told of a collision exactly when there was one. store_entry and
\* update_expiration report the word that somebody else holds and extend it;
\* restore_entry reports that there was a collision, with what it takes for the
\* original word (entry_service.go:98-128, 203-232, 265-304).
CollisionReported ==
    [][/\ Accepted("store_entry") =>
            \A w \in RequestWords :
               (\E ttl \in TTLArgs : StoreEntry(w, "fits", ttl)) => Tells(w, WordExistsActive(w))
       /\ Accepted("update_expiration") =>
            LET id == reply'.id
            IN  (\E ttl \in TTLArgs, ref \in Refs : UpdateExpiration(ref, ttl)) =>
                   Tells(entries[id].word, Conflict(id, entries[id].word, "active"))
       /\ Accepted("restore_entry") =>
            LET id == reply'.id
            IN  (\E ttl \in TTLArgs : RestoreEntry(id, ttl)) =>
                   (reply'.original # <<>> <=> WordExistsActive(entries[id].word))]_vars

\* A successful delete_entry removed a row that was there: of two clients that have
\* found one entry by its word, or of one that has and another that deletes it by
\* UUID, only one succeeds (entry_service.go:337-354, sqlite.go:276-289).
DeletedOnce ==
    [][/\ reply' # reply
       /\ reply'.err = "none"
       /\ reply'.op = "delete_entry"
       => Present(reply'.id) /\ (~Present(reply.id))']_vars

\* restore_entry reports the word the entry had (entry_service_test.go:357).
\* Refuted: on a collision it reports the new word.
RestoreReportsOriginal ==
    [][/\ reply' # reply
       /\ reply'.op = "restore_entry"
       /\ reply'.original # <<>>
       => reply'.original = entries[reply'.id].word]_vars

-----------------------------------------------------------------------------
(* The directory of words that the table implements *)

Life == [id \in Ids |->
    IF Active(id) THEN "named"
    ELSE IF Expired(id) THEN "shelved"
    ELSE IF id \in minted THEN "forgotten" ELSE "unborn"]

Name == [id \in Ids |-> IF Active(id) THEN entries[id].word ELSE NoId]

Directory == INSTANCE WordDirectory WITH NoWord <- NoId, life <- Life, name <- Name

\* Every run of the store is a run of the directory: each word has one owner,
\* changes hands only after its owner expired or was deleted, and a deleted
\* entry never comes back.
ImplementsDirectory == Directory!DirSpec
=============================================================================
