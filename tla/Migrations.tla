----------------------------- MODULE Migrations -----------------------------
(***************************************************************************)
(* Migrate, which every process runs before it serves: for each file in     *)
(* order, look for its version in schema_migrations, execute it, insert the *)
(* version. No transaction spans the three statements and no lock keeps a   *)
(* second replica out; a failing statement ends the process with status 1,  *)
(* and whoever supervises the process starts it again.                      *)
(***************************************************************************)
EXTENDS Naturals

CONSTANTS
    Replicas,
    Files,          \* the number of migration files, applied in order 1, 2, ...
    Repeatable,     \* the files made of CREATE ... IF NOT EXISTS statements
    MaxCrashes      \* bound: processes killed while they migrate

ASSUME MigrationsAssumption ==
    Files \in Nat \ {0} /\ Repeatable \subseteq 1 .. Files /\ MaxCrashes \in Nat

VARIABLES
    schema,     \* the files whose effect the database has
    versions,   \* the rows of schema_migrations
    proc,       \* replica -> [at, file]
    crashes

migVars == <<schema, versions, proc, crashes>>

At(r, place) == proc[r].at = place
Move(r, place, file) == proc' = [proc EXCEPT ![r] = [at |-> place, file |-> file]]

\* Mutant: the loop runs past the last file.
NextFilePast(r) ==
    IF proc[r].file > Files THEN Move(r, "serving", Files)
    ELSE Move(r, "check", proc[r].file + 1)

\* The loop goes to the next file, or ends and the server starts.
NextFile(r) ==
    IF proc[r].file = Files THEN Move(r, "serving", Files)
    ELSE Move(r, "check", proc[r].file + 1)

\* Mutant: break instead of continue at a recorded version.
CheckBreaks(r) ==
    /\ At(r, "check")
    /\ IF proc[r].file \in versions THEN Move(r, "serving", Files)
       ELSE Move(r, "apply", proc[r].file)
    /\ UNCHANGED <<schema, versions, crashes>>

\* Mutant: the version is claimed before its file is executed.
CheckClaims(r) ==
    /\ At(r, "check")
    /\ IF proc[r].file \in versions THEN NextFile(r) /\ UNCHANGED versions
       ELSE Move(r, "apply", proc[r].file) /\ versions' = versions \cup {proc[r].file}
    /\ UNCHANGED <<schema, crashes>>

\* SELECT COUNT(*) FROM schema_migrations WHERE version = file
Check(r) ==
    /\ At(r, "check")
    /\ IF proc[r].file \in versions THEN NextFile(r) ELSE Move(r, "apply", proc[r].file)
    /\ UNCHANGED <<schema, versions, crashes>>

\* Mutant: a duplicate column is not an error.
ApplyAgain(r) ==
    /\ At(r, "apply")
    /\ Move(r, "record", proc[r].file) /\ schema' = schema \cup {proc[r].file}
    /\ UNCHANGED <<versions, crashes>>

\* Mutant: a failed file is tried again without looking at its version.
ApplyRetries(r) ==
    LET file == proc[r].file IN
    /\ At(r, "apply")
    /\ IF file \in schema /\ file \notin Repeatable
       THEN Move(r, "apply", file) /\ UNCHANGED schema
       ELSE Move(r, "record", file) /\ schema' = schema \cup {file}
    /\ UNCHANGED <<versions, crashes>>

\* ALTER TABLE ADD COLUMN fails when the column is there.
Apply(r) ==
    LET file == proc[r].file IN
    /\ At(r, "apply")
    /\ IF file \in schema /\ file \notin Repeatable
       THEN Move(r, "exited", file) /\ UNCHANGED schema
       ELSE Move(r, "record", file) /\ schema' = schema \cup {file}
    /\ UNCHANGED <<versions, crashes>>

\* version is the primary key of schema_migrations.
Record(r) ==
    LET file == proc[r].file IN
    /\ At(r, "record")
    /\ IF file \in versions
       THEN Move(r, "exited", file) /\ UNCHANGED versions
       ELSE NextFile(r) /\ versions' = versions \cup {file}
    /\ UNCHANGED <<schema, crashes>>

\* Killed, or interrupted: the context of Migrate is the one SIGTERM cancels.
Crash(r) ==
    /\ crashes < MaxCrashes /\ crashes' = crashes + 1
    /\ proc[r].at \in {"check", "apply", "record"}
    /\ Move(r, "exited", proc[r].file)
    /\ UNCHANGED <<schema, versions>>

\* The supervisor starts the process again; Migrate begins at the first file.
StartAgain(r) ==
    /\ At(r, "exited")
    /\ Move(r, "check", 1)
    /\ UNCHANGED <<schema, versions, crashes>>

MigInit ==
    /\ schema = {} /\ versions = {}
    /\ proc = [r \in Replicas |-> [at |-> "check", file |-> 1]]
    /\ crashes = 0

Migrate(r) == Check(r) \/ Apply(r) \/ Record(r)

MigNext ==
    \/ \E r \in Replicas : Migrate(r) \/ Crash(r) \/ StartAgain(r)
    \/ (\A r \in Replicas : At(r, "serving")) /\ UNCHANGED migVars

\* Statements complete, and a process that ended is started again.
MigFairness == \A r \in Replicas : WF_migVars(Migrate(r)) /\ WF_migVars(StartAgain(r))

MigSpec == MigInit /\ [][MigNext]_migVars
FairMigSpec == MigSpec /\ MigFairness

-----------------------------------------------------------------------------
(* Properties *)

\* Every variable keeps its range: no replica runs past the last file
\* (sqlite.go:100-121).
MigTypeOK ==
    /\ schema \subseteq 1 .. Files /\ versions \subseteq 1 .. Files
    /\ proc \in [Replicas -> [at : {"check", "apply", "record", "serving", "exited"},
                              file : 1 .. Files]]
    /\ crashes \in 0 .. MaxCrashes

\* A replica that serves finds the complete schema and every version recorded,
\* whatever the other replicas and earlier, interrupted runs did.
ServingIsMigrated ==
    (\E r \in Replicas : At(r, "serving")) => schema = 1 .. Files /\ versions = 1 .. Files

\* Files take effect in order and a version is recorded only after its file
\* took effect, so at most one file is applied and unrecorded at any time.
AppliedInOrder ==
    /\ versions \subseteq schema
    /\ \A f \in schema : 1 .. (f - 1) \subseteq versions

\* No file that is not repeatable is executed twice with effect: what a replica
\* is about to record, it or nobody recorded before, unless another replica ran
\* the same repeatable file beside it.
OneWriterPerColumn ==
    \A r, s \in Replicas :
        /\ r # s /\ At(r, "record") /\ At(s, "record")
        /\ proc[r].file = proc[s].file
        => proc[r].file \in Repeatable

\* A file that took effect and whose version nobody is going to record.
Stranded ==
    \E f \in schema \ (versions \cup Repeatable) :
        \A r \in Replicas : ~(At(r, "record") /\ proc[r].file = f)

\* Every replica comes to serve, unless one was killed between a file that is
\* not repeatable and its version: the loser of a race exits, starts again and
\* finds the version recorded, and any other interruption is made good.
ReplicasConverge == (<>[]~Stranded) => \A r \in Replicas : <>At(r, "serving")

\* "Migrations: Run automatically on startup" (README.md:592). Refuted: killed
\* between ALTER TABLE and the insert of its version, no start succeeds again.
StartsAfterCrash == \A r \in Replicas : <>At(r, "serving")
=============================================================================
