--------------------------- MODULE ExpirationWorker ---------------------------
(***************************************************************************)
(* The expiration worker over the entry store: the ticker, the retry loop   *)
(* with its backoff, the batches, the cleanup of the download history, and  *)
(* cancellation of the server's context, while clients use the store.       *)
(*                                                                          *)
(* Start sweeps once at once and then whenever the ticker fires. Each       *)
(* MarkExpiredBatch is one statement, hence one step; everything the clients *)
(* do may happen between two batches and during a backoff.                  *)
(***************************************************************************)
EXTENDS EntryStore

CONSTANTS
    MaxAttempts,     \* maxRetries
    HistoryRetention,\* days; 0 turns the cleanup off
    MaxFaults,       \* bound: transient database errors
    MaxRestarts      \* bound: restarts of the process

ASSUME WorkerAssumption ==
    /\ MaxAttempts \in Nat \ {0}
    /\ HistoryRetention \in Nat /\ MaxFaults \in Nat /\ MaxRestarts \in Nat

VARIABLES
    worker,     \* [at, attempt]: where the worker is and the failed attempts
    ticked,     \* the ticker's channel, one tick deep
    cancelled,  \* the context was cancelled: SIGINT or SIGTERM
    stale,      \* download_history has rows past the retention
    faults, restarts

workerVars == <<worker, ticked, cancelled, stale, faults, restarts>>
allVars == <<vars, workerVars>>

At(place) == worker.at = place
Go(place) == worker' = [at |-> place, attempt |-> 0]

Places == {"batch", "backoff", "cleanup", "select", "stopped"}

-----------------------------------------------------------------------------
(* runWithRetry *)

\* Mutant: the loop goes on instead of returning.
AbandonAttempt ==
    /\ At("batch") /\ cancelled
    /\ Go("batch")
    /\ UNCHANGED <<vars, ticked, cancelled, stale, faults, restarts>>

\* A cancelled context ends the sweep before the next attempt.
AbandonSweep ==
    /\ At("batch") /\ cancelled
    /\ Go("select")
    /\ UNCHANGED <<vars, ticked, cancelled, stale, faults, restarts>>

\* Mutant: a full batch ends the sweep too.
FirstBatchOnly ==
    /\ At("batch") /\ ~cancelled
    /\ \E batch \in Batches :
          ~BatchFails(batch) /\ MarkExpiredBatch(batch) /\ Go("cleanup")
    /\ UNCHANGED <<minted, now, deleting, reply, ticked, cancelled, stale, faults, restarts>>

\* Mutant: rows are marked whether or not their batch fails.
PartialBatch ==
    /\ At("batch") /\ ~cancelled
    /\ \E batch \in Batches :
          /\ entries' = [id \in Ids |-> IF id \in batch
                         THEN [entries[id] EXCEPT !.status = "expired"] ELSE entries[id]]
          /\ Go("cleanup")
    /\ UNCHANGED <<minted, now, deleting, reply, ticked, cancelled, stale, faults, restarts>>

\* A full batch asks for another one; a short one ends the expiration part.
BatchDone ==
    /\ At("batch") /\ ~cancelled
    /\ \E batch \in Batches :
          /\ ~BatchFails(batch)
          /\ MarkExpiredBatch(batch)
          /\ Go(IF Cardinality(batch) < BatchSize THEN "cleanup" ELSE "batch")
    /\ UNCHANGED <<minted, now, deleting, reply, ticked, cancelled, stale, faults, restarts>>

\* The statement fails: on the unique constraint, or for a passing reason.
BatchError ==
    /\ At("batch") /\ ~cancelled
    /\ \/ (\E batch \in Batches : BatchFails(batch)) /\ UNCHANGED faults
       \/ faults < MaxFaults /\ faults' = faults + 1
    /\ worker' = [at |-> "backoff", attempt |-> worker.attempt + 1]
    /\ UNCHANGED <<vars, ticked, cancelled, stale, restarts>>

\* Mutant: one attempt too many.
OneMoreAttempt ==
    /\ At("backoff")
    /\ IF worker.attempt <= MaxAttempts
       THEN worker' = [worker EXCEPT !.at = "batch"]
       ELSE Go("select")
    /\ UNCHANGED <<vars, ticked, cancelled, stale, faults, restarts>>

\* Mutant: exhausted retries end the goroutine.
GiveUpForGood ==
    /\ At("backoff")
    /\ IF worker.attempt < MaxAttempts
       THEN worker' = [worker EXCEPT !.at = "batch"]
       ELSE Go("stopped")
    /\ UNCHANGED <<vars, ticked, cancelled, stale, faults, restarts>>

\* After the backoff (also after the last failure) try again, or give the
\* sweep up and leave the history alone. Cancellation cuts the backoff short.
BackoffOver ==
    /\ At("backoff")
    /\ IF worker.attempt < MaxAttempts
       THEN worker' = [worker EXCEPT !.at = "batch"]
       ELSE Go("select")
    /\ UNCHANGED <<vars, ticked, cancelled, stale, faults, restarts>>

BackoffCancelled ==
    /\ At("backoff") /\ cancelled
    /\ Go("select")
    /\ UNCHANGED <<vars, ticked, cancelled, stale, faults, restarts>>

\* Mutant: the retention setting is read the wrong way round.
CleanWhenZero ==
    /\ At("cleanup")
    /\ \/ stale' = (stale /\ HistoryRetention > 0) /\ UNCHANGED faults
       \/ HistoryRetention = 0 /\ cancelled /\ UNCHANGED <<faults, stale>>
       \/ HistoryRetention = 0 /\ faults < MaxFaults /\ faults' = faults + 1 /\ UNCHANGED stale
    /\ Go("select")
    /\ UNCHANGED <<vars, ticked, cancelled, restarts>>

\* A failing cleanup, for instance on a cancelled context, is only logged.
CleanDownloadHistory ==
    /\ At("cleanup")
    /\ \/ stale' = (stale /\ HistoryRetention = 0) /\ UNCHANGED faults
       \/ HistoryRetention > 0 /\ cancelled /\ UNCHANGED <<faults, stale>>
       \/ HistoryRetention > 0 /\ faults < MaxFaults /\ faults' = faults + 1 /\ UNCHANGED stale
    /\ Go("select")
    /\ UNCHANGED <<vars, ticked, cancelled, restarts>>

-----------------------------------------------------------------------------
(* Start: select over the context and the ticker; Go picks any ready case *)

TakeTick ==
    /\ At("select") /\ ticked
    /\ ticked' = FALSE
    /\ Go("batch")
    /\ UNCHANGED <<vars, cancelled, stale, faults, restarts>>

Stop ==
    /\ At("select") /\ cancelled
    /\ Go("stopped")
    /\ UNCHANGED <<vars, ticked, cancelled, stale, faults, restarts>>

-----------------------------------------------------------------------------
(* The surroundings *)

\* The ticker's interval has passed; a tick that finds the channel full is
\* dropped. Ticks are not tied to `now`: they go on when the clock's bound is
\* reached, and come early or late for any expiration.
TickerFires ==
    /\ ticked' = TRUE
    /\ UNCHANGED <<vars, worker, cancelled, stale, faults, restarts>>

\* Time passes; download records may grow older than the retention.
ClockTick ==
    /\ Tick
    /\ \E aged \in BOOLEAN : stale' = (stale \/ aged)
    /\ UNCHANGED <<worker, ticked, cancelled, faults, restarts>>

Cancel ==
    /\ ~cancelled /\ cancelled' = TRUE
    /\ UNCHANGED <<vars, worker, ticked, stale, faults, restarts>>

\* The process ends, in order or not, and starts again with a new worker.
Restart ==
    /\ restarts < MaxRestarts /\ restarts' = restarts + 1
    /\ Crash
    /\ Go("batch")
    /\ ticked' = FALSE /\ cancelled' = FALSE
    /\ UNCHANGED <<stale, faults>>

\* The clients' calls. Those that change nothing but the last answer do not
\* concern the worker and are left out here.
Serve ==
    /\ \/ \E w \in RequestWords, ttl \in TTLArgs : StoreEntry(w, "fits", ttl)
       \/ \E ref \in Refs, ttl \in TTLArgs : RestoreEntry(ref, ttl)
       \/ \E ref \in Refs, ttl \in TTLArgs : UpdateExpiration(ref, ttl)
       \/ \E c \in Clients, ref \in Refs : DeleteEntry(c, ref)
       \/ \E c \in Clients : DeleteFound(c)
    /\ <<entries, deleting>>' # <<entries, deleting>>
    /\ UNCHANGED workerVars

WorkerInit ==
    /\ Init
    /\ worker = [at |-> "batch", attempt |-> 0]
    /\ ticked = FALSE /\ cancelled = FALSE /\ stale = FALSE
    /\ faults = 0 /\ restarts = 0

Sweeping ==
    \/ AbandonSweep \/ BatchDone \/ BatchError \/ BackoffOver \/ BackoffCancelled
    \/ CleanDownloadHistory \/ TakeTick

WorkerNext == Sweeping \/ Stop \/ TickerFires \/ ClockTick \/ Cancel \/ Restart \/ Serve

\* The goroutine runs, the ticker goes on, and select, which picks among the
\* ready cases at random, does not pass over the cancelled context for ever.
WorkerFairness == WF_allVars(Sweeping) /\ WF_allVars(TickerFires) /\ SF_allVars(Stop)

WorkerSpec == WorkerInit /\ [][WorkerNext]_allVars
FairWorkerSpec == WorkerSpec /\ WorkerFairness

-----------------------------------------------------------------------------
(* Properties *)

\* Every variable keeps its range: a batch is tried at most MaxAttempts times
\* (expiration_worker.go:47-90).
WorkerTypeOK ==
    /\ TypeOK
    /\ worker \in [at : Places, attempt : 0 .. MaxAttempts]
    /\ {ticked, cancelled, stale} \subseteq BOOLEAN
    /\ faults \in 0 .. MaxFaults /\ restarts \in 0 .. MaxRestarts

\* The worker, its retries and its batches do to the table only what the sweep
\* of EntryStore does: clients cannot tell how it is driven.
ImplementsEntryStore == Spec

\* A sweep that reaches the cleanup has left no due entry behind, however many
\* batches it took and whatever clients did in between.
SweepDrains ==
    [][At("batch") /\ (worker'.at = "cleanup") => \A id \in Ids : ~Due(id)']_allVars

\* A due entry whose word an expired row already has: the sweep cannot mark it.
Blocked == \E id \in Ids : Due(id) /\ Conflict(id, entries[id].word, "expired")

\* While no due entry is blocked by an expired namesake and the server stays up,
\* an entry that is due leaves the active state, also across restarts.
DueEntriesAreSwept ==
    (<>[](~Blocked /\ ~cancelled)) => \A id \in Ids : Due(id) ~> ~Due(id)

\* "Entries expire after a configurable TTL" (README.md:26). Refuted: a word
\* that expired before blocks its next entry, and every batch it is in.
EntriesExpire == (<>[]~cancelled) => \A id \in Ids : Due(id) ~> ~Due(id)

\* Once the context is cancelled the worker goroutine ends (or the process is
\* restarted), wherever in its loop the cancellation found it.
CancelStopsWorker == cancelled ~> (At("stopped") \/ ~cancelled)

\* The retention of the download history is enforced while the server is up,
\* unless a blocked entry ends every sweep before the cleanup.
HistoryIsCleaned == (<>[](~Blocked /\ ~cancelled)) => (stale ~> ~stale)
=============================================================================
