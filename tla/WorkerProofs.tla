---------------------------- MODULE WorkerProofs ----------------------------
(***************************************************************************)
(* The expiration worker, with its batches, retries, faults and restarts,   *)
(* does to the table only what the atomic sweep of EntryStore does, so all   *)
(* that is proved of EntryStore holds beside it; and a sweep that comes to   *)
(* its end has left nothing due.                                            *)
(***************************************************************************)
EXTENDS ExpirationWorker, DirectoryProofs

USE LimitsAssumption, WorkerAssumption

-----------------------------------------------------------------------------
(* Steps of the worker are steps of the store *)

\* Marking a batch that meets no conflict is the atomic sweep, or nothing.
LEMMA MarkIsSweep ==
    ASSUME IInv, NEW batch \in Batches, ~BatchFails(batch), MarkExpiredBatch(batch),
           UNCHANGED <<minted, now, deleting, reply>>
    PROVE  Sweep \/ UNCHANGED vars
<1>1. CASE batch # {}
  BY <1>1 DEF Sweep
<1>2. CASE batch = {}
  <2>1. entries' = [id \in Ids |-> entries[id]]
    BY <1>2 DEF MarkExpiredBatch
  <2>2. entries' = entries
    BY <2>1 DEF IInv, TypeOK
  <2>. QED BY <2>2 DEF vars
<1>. QED BY <1>1, <1>2

LEMMA WorkerStepIsStoreStep == IInv /\ [WorkerNext]_allVars => [Next]_vars
<1>. SUFFICES ASSUME IInv, [WorkerNext]_allVars PROVE [Next]_vars
  OBVIOUS
<1>1. CASE AbandonSweep \/ BatchError \/ BackoffOver \/ BackoffCancelled
           \/ CleanDownloadHistory \/ TakeTick \/ Stop \/ TickerFires \/ Cancel
  BY <1>1 DEF AbandonSweep, BatchError, BackoffOver, BackoffCancelled,
              CleanDownloadHistory, TakeTick, Stop, TickerFires, Cancel
<1>2. CASE BatchDone
  BY <1>2, MarkIsSweep DEF BatchDone, Next
<1>3. CASE ClockTick
  BY <1>3 DEF ClockTick, Next
<1>4. CASE Restart
  BY <1>4 DEF Restart, Next
<1>5. CASE Serve
  BY <1>5 DEF Serve, Next
<1>6. CASE UNCHANGED allVars
  BY <1>6 DEF allVars, vars
<1>. QED BY <1>1, <1>2, <1>3, <1>4, <1>5, <1>6 DEF WorkerNext, Sweeping

-----------------------------------------------------------------------------
(* The invariant *)

\* An attempt is only begun while there are attempts left.
AttemptsLeft == At("batch") => worker.attempt < MaxAttempts

WorkerRange ==
    /\ worker \in [at : Places, attempt : 0 .. MaxAttempts]
    /\ {ticked, cancelled, stale} \subseteq BOOLEAN
    /\ faults \in 0 .. MaxFaults /\ restarts \in 0 .. MaxRestarts

WInv == DInv /\ FinitelyMany /\ WorkerRange /\ AttemptsLeft

LEMMA StepKeepsFinite == DInv /\ FinitelyMany /\ [Next]_vars => FinitelyMany'
BY NextEffect, EffectKeepsFinite DEF DInv

LEMMA InitWInv == WorkerInit => WInv
<1>. SUFFICES ASSUME WorkerInit PROVE WInv
  OBVIOUS
<1>1. DInv
  BY InitDInv DEF WorkerInit
<1>2. FinitelyMany
  BY FS_EmptySet DEF WorkerInit, Init, FinitelyMany
<1>3. worker \in [at : Places, attempt : 0 .. MaxAttempts] /\ AttemptsLeft
  BY DEF WorkerInit, AttemptsLeft, Places, At
<1>4. {ticked, cancelled, stale} \subseteq BOOLEAN
  BY DEF WorkerInit
<1>5. faults \in 0 .. MaxFaults /\ restarts \in 0 .. MaxRestarts
  BY DEF WorkerInit
<1>. QED BY <1>1, <1>2, <1>3, <1>4, <1>5 DEF WInv, WorkerRange

\* Wherever the loop goes anew it has all its attempts before it.
LEMMA GoKeepsRange ==
    ASSUME NEW place \in Places, Go(place)
    PROVE  worker' \in [at : Places, attempt : 0 .. MaxAttempts] /\ AttemptsLeft'
BY DEF Go, AttemptsLeft, At

LEMMA StepKeepsRange == WorkerRange /\ AttemptsLeft /\ [WorkerNext]_allVars
                            => WorkerRange' /\ AttemptsLeft'
<1>. SUFFICES ASSUME WorkerRange, AttemptsLeft, [WorkerNext]_allVars
              PROVE  WorkerRange' /\ AttemptsLeft'
  OBVIOUS
<1>. USE DEF WorkerRange
<1>0. {"batch", "backoff", "cleanup", "select", "stopped"} \subseteq Places
  BY DEF Places
<1>1. CASE AbandonSweep
  BY <1>0, <1>1, GoKeepsRange DEF AbandonSweep
<1>2. CASE BatchDone
  <2>1. Go("cleanup") \/ Go("batch")
    BY <1>2 DEF BatchDone
  <2>. QED BY <1>0, <1>2, <2>1, GoKeepsRange DEF BatchDone
<1>3. CASE BatchError
  <2>1. faults' \in 0 .. MaxFaults
    BY <1>3 DEF BatchError
  <2>. QED BY <1>0, <1>3, <2>1 DEF BatchError, AttemptsLeft, At
<1>4. CASE BackoffOver
  <2>1. CASE worker.attempt < MaxAttempts
    BY <1>0, <1>4, <2>1 DEF BackoffOver, AttemptsLeft, At
  <2>2. CASE ~(worker.attempt < MaxAttempts)
    BY <1>0, <1>4, <2>2, GoKeepsRange DEF BackoffOver
  <2>. QED BY <2>1, <2>2
<1>5. CASE BackoffCancelled
  BY <1>0, <1>5, GoKeepsRange DEF BackoffCancelled
<1>6. CASE CleanDownloadHistory
  <2>1. faults' \in 0 .. MaxFaults
    BY <1>6 DEF CleanDownloadHistory
  <2>2. stale' \in BOOLEAN
    BY <1>6 DEF CleanDownloadHistory
  <2>. QED BY <1>0, <1>6, <2>1, <2>2, GoKeepsRange DEF CleanDownloadHistory
<1>7. CASE TakeTick
  BY <1>0, <1>7, GoKeepsRange DEF TakeTick
<1>8. CASE Stop
  BY <1>0, <1>8, GoKeepsRange DEF Stop
<1>9. CASE TickerFires
  BY <1>9 DEF TickerFires, AttemptsLeft, At
<1>10. CASE ClockTick
  BY <1>10 DEF ClockTick, AttemptsLeft, At
<1>11. CASE Cancel
  BY <1>11 DEF Cancel, AttemptsLeft, At
<1>12. CASE Restart
  <2>1. restarts' \in 0 .. MaxRestarts
    BY <1>12 DEF Restart
  <2>. QED BY <1>0, <1>12, <2>1, GoKeepsRange DEF Restart
<1>13. CASE Serve \/ UNCHANGED allVars
  BY <1>13 DEF Serve, allVars, workerVars, AttemptsLeft, At
<1>. QED BY <1>1, <1>2, <1>3, <1>4, <1>5, <1>6, <1>7, <1>8, <1>9, <1>10, <1>11, <1>12,
            <1>13 DEF WorkerNext, Sweeping

LEMMA StepKeepsWInv == WInv /\ [WorkerNext]_allVars => WInv'
BY WorkerStepIsStoreStep, NextKeepsDInv, StepKeepsFinite, StepKeepsRange DEF WInv, DInv

\* The store's invariant holds beside the worker, and the worker counts its
\* attempts right.
THEOREM WorkerInvariance == WorkerSpec => []WInv
BY InitWInv, StepKeepsWInv, PTL DEF WorkerSpec

\* Every reachable state of the worker is well typed: for any number of attempts,
\* faults and restarts no batch is tried more often than MaxAttempts times.
THEOREM WorkerTypeCorrect == WorkerSpec => []WorkerTypeOK
<1>1. WInv => WorkerTypeOK
  BY DEF WInv, DInv, IInv, WorkerRange, WorkerTypeOK
<1>. QED BY <1>1, WorkerInvariance, PTL

\* The worker implements the atomic sweep of EntryStore: batches, retries,
\* backoffs, cancellation and restarts (expiration_worker.go:31-116) are
\* invisible in the table.
THEOREM WorkerImplementsStore == WorkerSpec => ImplementsEntryStore
<1>1. WorkerInit => Init
  BY DEF WorkerInit
<1>2. WInv /\ [WorkerNext]_allVars => [Next]_vars
  BY WorkerStepIsStoreStep DEF WInv, DInv
<1>. QED BY <1>1, <1>2, WorkerInvariance, PTL DEF WorkerSpec, Spec, ImplementsEntryStore

-----------------------------------------------------------------------------
(* A finished sweep left nothing due *)

\* A batch that is not full holds all due entries.
LEMMA ShortBatchIsAll ==
    ASSUME DInv, FinitelyMany, NEW batch \in Batches, Cardinality(batch) < BatchSize
    PROVE  batch = {id \in Ids : Due(id)}
<1>. DEFINE due == {id \in Ids : Due(id)}
<1>1. due \subseteq minted
  BY DEF DInv, RowsAreMinted, Due, Active
<1>2. IsFiniteSet(due)
  BY <1>1, FS_Subset DEF FinitelyMany
<1>3. batch \subseteq due /\ Cardinality(batch) =
        IF Cardinality(due) > BatchSize THEN BatchSize ELSE Cardinality(due)
  BY DEF Batches
<1>4. Cardinality(due) \in Nat
  BY <1>2, FS_CardinalityType
<1>5. Cardinality(batch) = Cardinality(due)
  BY <1>3, <1>4
<1>. QED BY <1>2, <1>3, <1>5, FS_Subset

\* A sweep that reaches its cleanup has left no due entry behind, for any number
\* of entries and any batch size, whatever clients did between its batches
\* (sqlite.go:272-308, expiration_worker.go:61-106).
THEOREM SweepsDrain == WorkerSpec => SweepDrains
<1>1. WInv /\ [WorkerNext]_allVars =>
        [At("batch") /\ (worker'.at = "cleanup") => \A id \in Ids : ~Due(id)']_allVars
  <2>. SUFFICES ASSUME WInv, WorkerNext, At("batch"), worker'.at = "cleanup",
                       NEW id \in Ids
                PROVE  ~Due(id)'
    BY DEF allVars, workerVars, At
  <2>1. BatchDone
    BY DEF WorkerNext, Sweeping, At, Go, AbandonSweep, BatchError, BackoffOver,
           BackoffCancelled, CleanDownloadHistory, TakeTick, Stop, TickerFires,
           ClockTick, Cancel, Restart, Serve, workerVars
  <2>2. PICK batch \in Batches :
           ~BatchFails(batch) /\ MarkExpiredBatch(batch) /\ Cardinality(batch) < BatchSize
    BY <2>1 DEF BatchDone, Go
  <2>3. batch = {i \in Ids : Due(i)}
    BY <2>2, ShortBatchIsAll DEF WInv
  <2>4. now' = now
    BY <2>1 DEF BatchDone
  <2>5. CASE id \in batch
    <3>1. entries[id] \in Row
      BY <2>3, <2>5 DEF WInv, DInv, IInv, TypeOK, Due, Active, Present
    <3>2. entries'[id] = [entries[id] EXCEPT !.status = "expired"]
      BY <2>2, <2>5 DEF MarkExpiredBatch
    <3>3. entries'[id].status = "expired"
      BY <3>1, <3>2 DEF Row
    <3>. QED BY <3>3 DEF Due, Active
  <2>6. CASE id \notin batch
    <3>1. entries'[id] = entries[id]
      BY <2>2, <2>6 DEF MarkExpiredBatch
    <3>. QED BY <2>3, <2>4, <2>6, <3>1 DEF Due, Active, Present
  <2>. QED BY <2>5, <2>6
<1>. QED BY <1>1, WorkerInvariance, PTL DEF WorkerSpec, SweepDrains
=============================================================================
