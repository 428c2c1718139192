----------------------------- MODULE Migrations -----------------------------
(***************************************************************************)
(* Database migrations (migrate.ts) and the reset of a development         *)
(* database (reset-local.ts): any number of runners at once, each started  *)
(* again after it ended, which bring the schema up to date file by file.   *)
(* One action is one statement; the statements of a file are one implicit  *)
(* transaction, split where another runner's commit makes a difference.    *)
(* Every file creates what is missing only (IF NOT EXISTS), and needs the  *)
(* tables of the files before it.                                          *)
(***************************************************************************)
EXTENDS Integers, FiniteSets

CONSTANTS
    Runners,        \* processes that call runMigrations
    Count,          \* migrations/*.sql, in their order
    Production,     \* NODE_ENV or APP_ENV
    MaxResets       \* bound on the resets

ASSUME RunnersAssumption == Runners # {}
ASSUME CountAssumption == Count \in Nat
ASSUME EnvironmentAssumption == Production \in BOOLEAN /\ MaxResets \in Nat

VARIABLES
    table,          \* schema_migrations exists
    recorded,       \* its rows
    schema,         \* the files whose tables exist
    stage,
    file,           \* the one a runner has come to
    resets,
    torn,           \* the last reset came between a file and its record
    overtaken,      \* the runners that have seen a reset since they began
    alone,          \* those that have seen neither a reset nor another runner
    calm            \* no reset, no crash and no failed query so far

database == <<table, recorded, schema>>
history == <<resets, torn, overtaken, alone, calm>>
vars == <<database, stage, file, history>>

Files == 1 .. Count
Ended == {"new", "done", "refused", "crashed"}
Stages == Ended \cup {"create", "select", "run", "apply", "record"}

Running == {r \in Runners : stage[r] \notin Ended}

TypeOK ==
    /\ table \in BOOLEAN
    /\ recorded \subseteq Files
    /\ schema \subseteq Files
    /\ stage \in [Runners -> Stages]
    /\ file \in [Runners -> 1 .. Count + 1]
    /\ resets \in 0 .. MaxResets
    /\ torn \in BOOLEAN /\ calm \in BOOLEAN
    /\ overtaken \subseteq Runners
    /\ alone \subseteq Runners

Init ==
    /\ table = FALSE /\ recorded = {} /\ schema = {}
    /\ stage = [r \in Runners |-> "new"]
    /\ file = [r \in Runners |-> 1]
    /\ resets = 0 /\ torn = FALSE /\ calm = TRUE
    /\ overtaken = {} /\ alone = {}

-----------------------------------------------------------------------------
Go(r, s) == stage' = [stage EXCEPT ![r] = s] /\ UNCHANGED <<file, history>>

(* On to the next file, or to the end of them.                             *)
NextFile(r) ==
    /\ stage' = [stage EXCEPT ![r] = IF file[r] = Count THEN "done" ELSE "select"]
    /\ file' = [file EXCEPT ![r] = @ + 1]
    /\ UNCHANGED history

(* A runner starts, for the first time or again: CREATE TABLE IF NOT       *)
(* EXISTS looks whether the table is there.                                *)
Begin(r) ==
    /\ stage[r] \in Ended
    /\ stage' = [stage EXCEPT ![r] =
                    IF ~ table THEN "create" ELSE IF Count = 0 THEN "done" ELSE "select"]
    /\ file' = [file EXCEPT ![r] = 1]
    /\ overtaken' = overtaken \ {r}
    /\ alone' = IF Running = {} THEN {r} ELSE {}
    /\ UNCHANGED <<database, resets, torn, calm>>

(* It was not there: the table is created, or another runner has created   *)
(* it in the meantime and this one fails in the catalog's unique index.    *)
CreateTable(r) ==
    /\ stage[r] = "create"
    /\ table' = TRUE
    /\ UNCHANGED <<recorded, schema>>
    /\ \/ table /\ Go(r, "refused")
       \/ ~ table /\ Count > 0 /\ Go(r, "select")
       \/ ~ table /\ Count = 0 /\ Go(r, "done")

(* A faulty order of the two statements: the record first.                 *)
SelectRecording(r) ==
    /\ stage[r] = "select"
    /\ UNCHANGED <<table, schema>>
    /\ \/ ~ table /\ Go(r, "refused") /\ UNCHANGED recorded
       \/ table /\ file[r] \in recorded /\ NextFile(r) /\ UNCHANGED recorded
       \/ table /\ file[r] \notin recorded /\ Go(r, "run")
          /\ recorded' = recorded \cup {file[r]}

Select(r) ==
    /\ stage[r] = "select"
    /\ UNCHANGED database
    /\ \/ ~ table /\ Go(r, "refused")
       \/ table /\ file[r] \in recorded /\ NextFile(r)
       \/ table /\ file[r] \notin recorded /\ Go(r, "run")

(* A faulty file, without IF NOT EXISTS.                                   *)
RunFileOnce(r) ==
    /\ stage[r] = "run"
    /\ UNCHANGED database
    /\ \/ file[r] \in schema /\ Go(r, "refused")
       \/ file[r] \notin schema /\ Go(r, "apply")

(* The file's first statement looks whether its tables are there.  If so,  *)
(* nothing is left to do; if not, the tables it refers to must be.         *)
RunFile(r) ==
    /\ stage[r] = "run"
    /\ UNCHANGED database
    /\ \/ file[r] \in schema /\ Go(r, "record")
       \/ /\ file[r] \notin schema
          /\ 1 .. file[r] - 1 \subseteq schema
          /\ Go(r, "apply")
       \/ /\ file[r] \notin schema
          /\ ~ (1 .. file[r] - 1 \subseteq schema)
          /\ Go(r, "refused")

(* The end of the file's transaction, which fails as a whole if another    *)
(* one has created the same tables since it looked.                        *)
ApplyFile(r) ==
    /\ stage[r] = "apply"
    /\ \/ file[r] \in schema /\ Go(r, "refused") /\ UNCHANGED schema
       \/ file[r] \notin schema /\ Go(r, "record") /\ schema' = schema \cup {file[r]}
    /\ UNCHANGED <<table, recorded>>

(* A faulty loop, which ends with the first file it has applied.           *)
RecordFileAndStop(r) ==
    /\ stage[r] = "record"
    /\ UNCHANGED <<table, schema>>
    /\ recorded' = recorded \cup {file[r]}
    /\ Go(r, IF file[r] \in recorded THEN "refused" ELSE "done")

(* The version is the primary key of schema_migrations.                    *)
RecordFile(r) ==
    /\ stage[r] = "record"
    /\ UNCHANGED <<table, schema>>
    /\ \/ /\ ~ table \/ file[r] \in recorded
          /\ Go(r, "refused") /\ UNCHANGED recorded
       \/ /\ table /\ file[r] \notin recorded
          /\ NextFile(r) /\ recorded' = recorded \cup {file[r]}

(* A query fails or the process dies; an open transaction is rolled back.  *)
Crash(r) ==
    /\ stage[r] \notin Ended
    /\ stage' = [stage EXCEPT ![r] = "crashed"]
    /\ calm' = FALSE
    /\ UNCHANGED <<database, file, resets, torn, overtaken, alone>>

(* DROP SCHEMA waits for the transactions that are creating tables.        *)
Reset ==
    /\ ~ Production
    /\ resets < MaxResets
    /\ \A r \in Runners : stage[r] \notin {"create", "apply"}
    /\ table' = FALSE /\ recorded' = {} /\ schema' = {}
    /\ resets' = resets + 1
    /\ torn' = \E r \in Runners : stage[r] = "record"
    /\ overtaken' = Runners
    /\ alone' = {}
    /\ calm' = FALSE
    /\ UNCHANGED <<stage, file>>

Next ==
    \/ \E r \in Runners :
           \/ Begin(r) \/ CreateTable(r) \/ Select(r)
           \/ RunFile(r) \/ ApplyFile(r) \/ RecordFile(r) \/ Crash(r)
    \/ Reset

Spec == Init /\ [][Next]_vars

-----------------------------------------------------------------------------
(* What schema_migrations says is so, although a migration and its record  *)
(* are separate statements and any runner may die between them: a recorded *)
(* file's tables exist, and a runner that reports all migrations up to     *)
(* date is right until the database is reset.  The exception is the code's *)
(* own: a reset that hits a runner just there lets it record a file whose  *)
(* tables are gone.                                                        *)
LedgerIsTrue ==
    ~ torn =>
        /\ recorded \subseteq schema
        /\ \A r \in Runners \ overtaken : stage[r] = "done" => recorded = Files

(* Whatever earlier runners left behind when they died, a migration that   *)
(* was applied and not recorded included, a runner that has the database   *)
(* to itself is never refused by it: starting again is all it takes.       *)
RerunsSucceed ==
    \A r \in alone : ~ torn => stage[r] # "refused"

(* Concurrent runners refuse each other, in the catalog or by the primary  *)
(* key, but never all of them: if nothing else goes wrong, when the last   *)
(* one has ended the schema is up to date.                                 *)
ConflictsLeaveAWinner ==
    calm /\ (\A r \in Runners : stage[r] \in Ended \ {"new"}) => recorded = Files
=============================================================================
