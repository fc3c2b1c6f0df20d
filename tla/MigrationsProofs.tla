-------------------------- MODULE MigrationsProofs --------------------------
(***************************************************************************)
(* Theorems about Migrations for any number of replicas, files and kills.   *)
(***************************************************************************)
EXTENDS Migrations, TLAPS

(***************************************************************************)
(* The inductive invariant. A replica has all versions before its file, and *)
(* one about to record a file has its effect in the schema. The second half *)
(* carries OneWriterPerColumn: whoever executes a file that is not          *)
(* repeatable found it missing, so nobody is about to record it.            *)
(***************************************************************************)
Progress ==
    \A r \in Replicas :
        /\ proc[r].at \in {"check", "apply", "record"} =>
              1 .. (proc[r].file - 1) \subseteq versions
        /\ At(r, "record") => proc[r].file \in schema
        /\ At(r, "serving") => 1 .. Files \subseteq versions

MigInv == MigTypeOK /\ Progress /\ AppliedInOrder /\ OneWriterPerColumn

Ats == {"check", "apply", "record", "serving", "exited"}
Proc == [at : Ats, file : 1 .. Files]

USE MigrationsAssumption

-----------------------------------------------------------------------------

\* A move of one replica leaves the others where they are.
LEMMA MoveOne ==
    ASSUME MigTypeOK, NEW r \in Replicas, NEW place \in Ats, NEW file \in 1 .. Files,
           Move(r, place, file)
    PROVE  /\ proc' \in [Replicas -> Proc]
           /\ proc'[r] = [at |-> place, file |-> file]
           /\ \A s \in Replicas \ {r} : proc'[s] = proc[s]
BY DEF MigTypeOK, Move, Proc, Ats

\* The loop goes to a file all of whose predecessors are recorded, or ends with
\* all files recorded.
LEMMA NextFileMoves ==
    ASSUME MigTypeOK, NEW r \in Replicas, NextFile(r),
           1 .. proc[r].file \subseteq versions'
    PROVE  \E place \in {"check", "serving"}, file \in 1 .. Files :
              /\ Move(r, place, file)
              /\ place = "check" => 1 .. (file - 1) \subseteq versions'
              /\ place = "serving" => 1 .. Files \subseteq versions'
<1>1. proc[r].file \in 1 .. Files
  BY DEF MigTypeOK
<1>2. CASE proc[r].file = Files
  BY <1>1, <1>2 DEF NextFile
<1>3. CASE proc[r].file # Files
  <2>1. proc[r].file + 1 \in 1 .. Files /\ (proc[r].file + 1) - 1 = proc[r].file
    BY <1>1, <1>3
  <2>2. Move(r, "check", proc[r].file + 1)
    BY <1>3 DEF NextFile
  <2>. QED BY <2>1, <2>2
<1>. QED BY <1>2, <1>3

LEMMA CheckKeepsInv == ASSUME MigInv, NEW r \in Replicas, Check(r) PROVE MigInv'
<1>1. /\ proc[r].at = "check" /\ proc[r].file \in 1 .. Files
      /\ 1 .. (proc[r].file - 1) \subseteq versions
  BY DEF Check, At, MigInv, Progress, MigTypeOK
<1>2. UNCHANGED <<schema, versions, crashes>>
  BY DEF Check
<1>3. PICK place \in {"check", "apply", "serving"}, file \in 1 .. Files :
          /\ Move(r, place, file)
          /\ place \in {"check", "apply"} => 1 .. (file - 1) \subseteq versions
          /\ place = "serving" => 1 .. Files \subseteq versions
  <2>1. CASE proc[r].file \in versions
    <3>1. 1 .. proc[r].file \subseteq versions'
      BY <1>1, <1>2, <2>1
    <3>2. NextFile(r)
      BY <2>1 DEF Check
    <3>. QED BY <1>2, <3>1, <3>2, NextFileMoves DEF MigInv
  <2>2. CASE proc[r].file \notin versions
    BY <1>1, <2>2 DEF Check
  <2>. QED BY <2>1, <2>2
<1>4. /\ proc' \in [Replicas -> Proc]
      /\ proc'[r] = [at |-> place, file |-> file]
      /\ \A s \in Replicas \ {r} : proc'[s] = proc[s]
  BY <1>3, MoveOne DEF MigInv, Ats
<1>5. MigTypeOK'
  BY <1>2, <1>4 DEF MigInv, MigTypeOK, Proc, Ats
<1>6. Progress'
  BY <1>2, <1>3, <1>4 DEF MigInv, Progress, At
<1>7. AppliedInOrder'
  BY <1>2 DEF MigInv, AppliedInOrder
<1>8. OneWriterPerColumn'
  BY <1>3, <1>4 DEF MigInv, OneWriterPerColumn, At
<1>. QED BY <1>5, <1>6, <1>7, <1>8 DEF MigInv

LEMMA ApplyKeepsInv == ASSUME MigInv, NEW r \in Replicas, Apply(r) PROVE MigInv'
<1>. DEFINE file == proc[r].file
<1>1. /\ file \in 1 .. Files
      /\ 1 .. (file - 1) \subseteq versions
      /\ UNCHANGED <<versions, crashes>>
  BY DEF Apply, At, MigInv, Progress, MigTypeOK
<1>2. CASE file \in schema /\ file \notin Repeatable
  <2>1. Move(r, "exited", file) /\ UNCHANGED schema
    BY <1>2 DEF Apply
  <2>2. /\ proc' \in [Replicas -> Proc]
        /\ proc'[r] = [at |-> "exited", file |-> file]
        /\ \A s \in Replicas \ {r} : proc'[s] = proc[s]
    BY <1>1, <2>1, MoveOne DEF MigInv, Ats
  <2>3. MigTypeOK' /\ AppliedInOrder'
    BY <1>1, <2>1, <2>2 DEF MigInv, MigTypeOK, AppliedInOrder, Proc, Ats
  <2>4. Progress' /\ OneWriterPerColumn'
    BY <1>1, <2>1, <2>2 DEF MigInv, Progress, OneWriterPerColumn, At
  <2>. QED BY <2>3, <2>4 DEF MigInv
<1>3. CASE ~(file \in schema /\ file \notin Repeatable)
  <2>1. Move(r, "record", file) /\ schema' = schema \cup {file}
    BY <1>3 DEF Apply
  <2>2. /\ proc' \in [Replicas -> Proc]
        /\ proc'[r] = [at |-> "record", file |-> file]
        /\ \A s \in Replicas \ {r} : proc'[s] = proc[s]
    BY <1>1, <2>1, MoveOne DEF MigInv, Ats
  <2>3. MigTypeOK' /\ AppliedInOrder'
    BY <1>1, <2>1, <2>2 DEF MigInv, MigTypeOK, AppliedInOrder, Proc, Ats
  <2>4. Progress'
    BY <1>1, <2>1, <2>2 DEF MigInv, Progress, At
  \* A file that is not repeatable was missing, so nobody is about to record it.
  <2>5. OneWriterPerColumn'
    <3>1. ASSUME NEW s \in Replicas \ {r}, At(s, "record"), proc[s].file = file
          PROVE  file \in Repeatable
      BY <1>3, <3>1 DEF MigInv, Progress
    <3>. QED BY <2>2, <3>1 DEF MigInv, OneWriterPerColumn, At
  <2>. QED BY <2>3, <2>4, <2>5 DEF MigInv
<1>. QED BY <1>2, <1>3

LEMMA RecordKeepsInv == ASSUME MigInv, NEW r \in Replicas, Record(r) PROVE MigInv'
<1>. DEFINE file == proc[r].file
<1>1. /\ proc[r].at = "record" /\ file \in 1 .. Files /\ file \in schema
      /\ 1 .. (file - 1) \subseteq versions
      /\ UNCHANGED <<schema, crashes>>
  BY DEF Record, At, MigInv, Progress, MigTypeOK
<1>2. PICK place \in {"check", "serving", "exited"}, next \in 1 .. Files :
          /\ Move(r, place, next)
          /\ versions' \in {versions, versions \cup {file}}
          /\ place = "check" => 1 .. (next - 1) \subseteq versions'
          /\ place = "serving" => 1 .. Files \subseteq versions'
  <2>1. CASE file \in versions
    BY <1>1, <2>1 DEF Record
  <2>2. CASE file \notin versions
    <3>1. NextFile(r) /\ versions' = versions \cup {file}
      BY <2>2 DEF Record
    <3>2. 1 .. file \subseteq versions'
      BY <1>1, <3>1
    <3>. QED BY <3>1, <3>2, NextFileMoves DEF MigInv
  <2>. QED BY <2>1, <2>2
<1>3. /\ proc' \in [Replicas -> Proc]
      /\ proc'[r] = [at |-> place, file |-> next]
      /\ \A s \in Replicas \ {r} : proc'[s] = proc[s]
  BY <1>2, MoveOne DEF MigInv, Ats
<1>4. versions \subseteq versions'
  BY <1>2
<1>5. MigTypeOK'
  BY <1>1, <1>2, <1>3 DEF MigInv, MigTypeOK, Proc, Ats
<1>6. Progress'
  BY <1>1, <1>2, <1>3, <1>4 DEF MigInv, Progress, At
<1>7. AppliedInOrder'
  BY <1>1, <1>2, <1>4 DEF MigInv, AppliedInOrder
<1>8. OneWriterPerColumn'
  BY <1>2, <1>3 DEF MigInv, OneWriterPerColumn, At
<1>. QED BY <1>5, <1>6, <1>7, <1>8 DEF MigInv

\* A kill or a start moves one replica to "exited" or back to the first file.
LEMMA StartStopKeepsInv ==
    ASSUME MigInv, NEW r \in Replicas, Crash(r) \/ StartAgain(r)
    PROVE  MigInv'
<1>1. /\ UNCHANGED <<schema, versions>>
      /\ crashes' \in 0 .. MaxCrashes
  BY DEF Crash, StartAgain, MigInv, MigTypeOK
<1>2. PICK place \in {"check", "exited"}, file \in 1 .. Files :
          Move(r, place, file) /\ (place = "check" => file = 1)
  BY DEF Crash, StartAgain, MigInv, MigTypeOK
<1>3. /\ proc' \in [Replicas -> Proc]
      /\ proc'[r] = [at |-> place, file |-> file]
      /\ \A s \in Replicas \ {r} : proc'[s] = proc[s]
  BY <1>2, MoveOne DEF MigInv, Ats
<1>4. MigTypeOK' /\ AppliedInOrder'
  BY <1>1, <1>3 DEF MigInv, MigTypeOK, AppliedInOrder, Proc, Ats
<1>5. Progress'
  BY <1>1, <1>2, <1>3 DEF MigInv, Progress, At
<1>6. OneWriterPerColumn'
  BY <1>2, <1>3 DEF MigInv, OneWriterPerColumn, At
<1>. QED BY <1>4, <1>5, <1>6 DEF MigInv

-----------------------------------------------------------------------------
(* The theorems *)

LEMMA MigInitInv == MigInit => MigInv
BY DEF MigInit, MigInv, MigTypeOK, Progress, AppliedInOrder, OneWriterPerColumn, At

LEMMA MigNextInv == MigInv /\ [MigNext]_migVars => MigInv'
<1>. SUFFICES ASSUME MigInv, [MigNext]_migVars PROVE MigInv'
  OBVIOUS
<1>1. CASE UNCHANGED migVars
  BY <1>1 DEF migVars, MigInv, MigTypeOK, Progress, AppliedInOrder, OneWriterPerColumn, At
<1>2. ASSUME NEW r \in Replicas, Migrate(r) PROVE MigInv'
  BY <1>2, CheckKeepsInv, ApplyKeepsInv, RecordKeepsInv DEF Migrate
<1>3. ASSUME NEW r \in Replicas, Crash(r) \/ StartAgain(r) PROVE MigInv'
  BY <1>3, StartStopKeepsInv
<1>. QED BY <1>1, <1>2, <1>3 DEF MigNext

\* The invariant holds however many replicas migrate at once and however often
\* they are killed.
THEOREM MigInvariance == MigSpec => []MigInv
BY MigInitInv, MigNextInv, PTL DEF MigSpec

\* Every reachable state of the migrations is well typed.
THEOREM MigTypeCorrect == MigSpec => []MigTypeOK
<1>1. MigInv => MigTypeOK
  BY DEF MigInv
<1>. QED BY <1>1, MigInvariance, PTL

\* Whoever serves finds the complete schema with every version recorded.
THEOREM ServersAreMigrated == MigSpec => []ServingIsMigrated
<1>1. MigInv => ServingIsMigrated
  BY DEF MigInv, MigTypeOK, Progress, AppliedInOrder, ServingIsMigrated, At
<1>. QED BY <1>1, MigInvariance, PTL

\* Files take effect in order and versions follow them, in every interleaving.
THEOREM OrderIsKept == MigSpec => []AppliedInOrder
<1>1. MigInv => AppliedInOrder
  BY DEF MigInv
<1>. QED BY <1>1, MigInvariance, PTL

\* A column is added once: two replicas about to record one file both executed
\* a repeatable one.
THEOREM ColumnsAreAddedOnce == MigSpec => []OneWriterPerColumn
<1>1. MigInv => OneWriterPerColumn
  BY DEF MigInv
<1>. QED BY <1>1, MigInvariance, PTL
=============================================================================
