--------------------------- MODULE MigrationsProofs ---------------------------
(***************************************************************************)
(* What the migrations guarantee for any number of runners and files, and  *)
(* any number of resets.                                                   *)
(***************************************************************************)
EXTENDS Migrations, TLAPS

(* The stages of a runner that has the table schema_migrations.            *)
Busy == {"select", "run", "apply", "record"}

(* Where a runner is in the list of files, and what it knows to be there:  *)
(* without a reset since it began, all files before its own are recorded.  *)
RunnersInOrder ==
    \A r \in Runners :
        /\ stage[r] \in Busy => file[r] \in Files
        /\ stage[r] = "create" => file[r] = 1
        /\ r \notin overtaken /\ stage[r] \in Busy =>
               table /\ \A k \in Files : k < file[r] => k \in recorded
        /\ r \notin overtaken /\ stage[r] = "done" => recorded = Files

(* Unless a reset came between a file and its record, what is recorded,    *)
(* and what is about to be, has been applied.                              *)
RecordsFollow ==
    ~ torn =>
        /\ recorded \subseteq schema
        /\ \A r \in Runners : stage[r] = "record" => file[r] \in schema

(* A runner that is alone finds nothing it did not expect.                 *)
AloneUndisturbed ==
    \A r \in alone :
        /\ r \notin overtaken
        /\ Running \subseteq {r}
        /\ stage[r] = "create" => ~ table
        /\ stage[r] \in {"run", "apply", "record"} => file[r] \notin recorded
        /\ stage[r] = "apply" => file[r] \notin schema
        /\ ~ torn => stage[r] # "refused"

(* The runner that is ahead of all others, and that nothing can refuse.    *)
Leads(r) ==
    /\ stage[r] \in Busy \cup {"create"}
    /\ stage[r] = "create" => ~ table
    /\ \A k \in recorded : k < file[r]
    /\ \A k \in schema : k < file[r] \/ (k = file[r] /\ stage[r] = "record")

(* As long as nothing else goes wrong, there is a leader from the moment   *)
(* the first runner begins until the schema is up to date.                 *)
SomebodyLeads ==
    calm =>
        /\ ~ torn /\ overtaken = {}
        /\ ~ table => recorded = {} /\ schema = {}
        /\ \/ (\A r \in Runners : stage[r] = "new") /\ ~ table
           \/ recorded = Files
           \/ \E r \in Runners : Leads(r)

IInv ==
    TypeOK /\ RunnersInOrder /\ RecordsFollow /\ AloneUndisturbed /\ SomebodyLeads

-----------------------------------------------------------------------------
(* The cases of a step, for the proofs that go through them.               *)
LEMMA StepCases ==
    ASSUME [Next]_vars
    PROVE  \/ \E r \in Runners : Begin(r)
           \/ \E r \in Runners : CreateTable(r)
           \/ \E r \in Runners : Select(r)
           \/ \E r \in Runners : RunFile(r)
           \/ \E r \in Runners : ApplyFile(r)
           \/ \E r \in Runners : RecordFile(r)
           \/ \E r \in Runners : Crash(r)
           \/ Reset
           \/ UNCHANGED vars
BY DEF Next

(* A runner's stage changes, and nobody else's.                            *)
LEMMA GoEffect ==
    ASSUME TypeOK, NEW r \in Runners, NEW s \in Stages, Go(r, s)
    PROVE  /\ stage' \in [Runners -> Stages] /\ stage'[r] = s
           /\ \A q \in Runners : q # r => stage'[q] = stage[q]
           /\ UNCHANGED <<file, resets, torn, overtaken, alone, calm>>
BY DEF TypeOK, Go, history

LEMMA NextFileEffect ==
    ASSUME TypeOK, NEW r \in Runners, file[r] \in Files, NextFile(r)
    PROVE  /\ stage' \in [Runners -> Stages]
           /\ stage'[r] = IF file[r] = Count THEN "done" ELSE "select"
           /\ \A q \in Runners : q # r => stage'[q] = stage[q]
           /\ file' \in [Runners -> 1 .. Count + 1] /\ file'[r] = file[r] + 1
           /\ \A q \in Runners : q # r => file'[q] = file[q]
           /\ UNCHANGED <<resets, torn, overtaken, alone, calm>>
<1>1. file[r] + 1 \in 1 .. Count + 1
  BY CountAssumption DEF Files
<1>2. stage' = [stage EXCEPT ![r] = IF file[r] = Count THEN "done" ELSE "select"]
  BY DEF NextFile
<1>3. (IF file[r] = Count THEN "done" ELSE "select") \in Stages
  BY DEF Stages, Ended
<1>4. file' = [file EXCEPT ![r] = file[r] + 1]
  BY DEF NextFile
<1> QED
  BY <1>1, <1>2, <1>3, <1>4 DEF TypeOK, NextFile, history

LEMMA BeginEffect ==
    ASSUME TypeOK, NEW r \in Runners, Begin(r)
    PROVE  /\ stage[r] \in Ended
           /\ stage' \in [Runners -> Stages]
           /\ stage'[r] = IF ~ table THEN "create" ELSE IF Count = 0 THEN "done" ELSE "select"
           /\ \A q \in Runners : q # r => stage'[q] = stage[q]
           /\ file' \in [Runners -> 1 .. Count + 1] /\ file'[r] = 1
           /\ \A q \in Runners : q # r => file'[q] = file[q]
           /\ overtaken' = overtaken \ {r}
           /\ alone' = (IF Running = {} THEN {r} ELSE {})
           /\ UNCHANGED <<table, recorded, schema, resets, torn, calm>>
<1>1. stage' = [stage EXCEPT ![r] =
                    IF ~ table THEN "create" ELSE IF Count = 0 THEN "done" ELSE "select"]
  BY DEF Begin
<1>2. (IF ~ table THEN "create" ELSE IF Count = 0 THEN "done" ELSE "select") \in Stages
  BY DEF Stages, Ended
<1>3. file' = [file EXCEPT ![r] = 1] /\ 1 \in 1 .. Count + 1
  BY CountAssumption DEF Begin
<1> QED
  BY <1>1, <1>2, <1>3 DEF TypeOK, Begin, database

(* What each action does, outcome by outcome.                              *)
LEMMA Outcomes ==
    ASSUME TypeOK, NEW r \in Runners
    PROVE  /\ CreateTable(r) =>
                 /\ stage[r] = "create" /\ table' /\ UNCHANGED <<recorded, schema>>
                 /\ \/ table /\ Go(r, "refused")
                    \/ ~ table /\ Count > 0 /\ Go(r, "select")
                    \/ ~ table /\ Count = 0 /\ Go(r, "done")
           /\ Select(r) =>
                 /\ stage[r] = "select" /\ UNCHANGED <<table, recorded, schema>>
                 /\ \/ ~ table /\ Go(r, "refused")
                    \/ table /\ file[r] \in recorded /\ NextFile(r)
                    \/ table /\ file[r] \notin recorded /\ Go(r, "run")
           /\ RunFile(r) =>
                 /\ stage[r] = "run" /\ UNCHANGED <<table, recorded, schema>>
                 /\ \/ file[r] \in schema /\ Go(r, "record")
                    \/ file[r] \notin schema /\ Go(r, "apply")
                    \/ /\ file[r] \notin schema /\ Go(r, "refused")
                       /\ \E k \in 1 .. file[r] - 1 : k \notin schema
           /\ ApplyFile(r) =>
                 /\ stage[r] = "apply" /\ UNCHANGED <<table, recorded>>
                 /\ \/ file[r] \in schema /\ Go(r, "refused") /\ UNCHANGED schema
                    \/ /\ file[r] \notin schema /\ Go(r, "record")
                       /\ schema' = schema \cup {file[r]}
           /\ RecordFile(r) =>
                 /\ stage[r] = "record" /\ UNCHANGED <<table, schema>>
                 /\ \/ /\ ~ table \/ file[r] \in recorded
                       /\ Go(r, "refused") /\ UNCHANGED recorded
                    \/ /\ table /\ file[r] \notin recorded
                       /\ NextFile(r) /\ recorded' = recorded \cup {file[r]}
           /\ Crash(r) =>
                 /\ stage[r] \notin Ended /\ stage'[r] = "crashed"
                 /\ stage' \in [Runners -> Stages]
                 /\ \A q \in Runners : q # r => stage'[q] = stage[q]
                 /\ calm' = FALSE
                 /\ UNCHANGED <<table, recorded, schema, file, resets, torn, overtaken, alone>>
<1>1. CreateTable(r) =>
          /\ stage[r] = "create" /\ table' /\ UNCHANGED <<recorded, schema>>
          /\ \/ table /\ Go(r, "refused")
             \/ ~ table /\ Count > 0 /\ Go(r, "select")
             \/ ~ table /\ Count = 0 /\ Go(r, "done")
  BY Zenon DEF CreateTable
<1>2. Select(r) =>
          /\ stage[r] = "select" /\ UNCHANGED <<table, recorded, schema>>
          /\ \/ ~ table /\ Go(r, "refused")
             \/ table /\ file[r] \in recorded /\ NextFile(r)
             \/ table /\ file[r] \notin recorded /\ Go(r, "run")
  BY DEF Select, database
<1>3. RunFile(r) =>
          /\ stage[r] = "run" /\ UNCHANGED <<table, recorded, schema>>
          /\ \/ file[r] \in schema /\ Go(r, "record")
             \/ file[r] \notin schema /\ Go(r, "apply")
             \/ /\ file[r] \notin schema /\ Go(r, "refused")
                /\ \E k \in 1 .. file[r] - 1 : k \notin schema
  BY DEF RunFile, database
<1>4. Crash(r) =>
          /\ stage[r] \notin Ended /\ stage' = [stage EXCEPT ![r] = "crashed"]
          /\ calm' = FALSE
          /\ UNCHANGED <<table, recorded, schema, file, resets, torn, overtaken, alone>>
  BY DEF Crash, database
<1>5. "crashed" \in Stages
  BY DEF Stages, Ended
<1> QED
  BY <1>1, <1>2, <1>3, <1>4, <1>5 DEF TypeOK, ApplyFile, RecordFile

-----------------------------------------------------------------------------
(* A runner that goes on keeps its file, and no other runner is touched.   *)
LEMMA OrderAfterGo ==
    ASSUME TypeOK, RunnersInOrder, NEW r \in Runners, NEW s \in Stages, Go(r, s),
           recorded \subseteq recorded', recorded' \subseteq Files, table => table',
           s \in Busy => stage[r] \in Busy \/ (stage[r] = "create" /\ Count > 0 /\ table'),
           s = "create" => stage[r] = "create",
           s = "done" => Files = {}
    PROVE  RunnersInOrder'
<1> USE GoEffect, CountAssumption DEF TypeOK, RunnersInOrder, Files
<1>1. ASSUME NEW q \in Runners, q # r
      PROVE  /\ stage'[q] \in Busy => file'[q] \in Files
             /\ stage'[q] = "create" => file'[q] = 1
             /\ q \notin overtaken' /\ stage'[q] \in Busy =>
                    table' /\ \A k \in Files : k < file'[q] => k \in recorded'
             /\ q \notin overtaken' /\ stage'[q] = "done" => recorded' = Files
  <2>1. stage'[q] = stage[q] /\ file'[q] = file[q] /\ overtaken' = overtaken
    BY <1>1
  <2> QED
    BY <2>1
<1>2. /\ stage'[r] \in Busy => file'[r] \in Files
      /\ stage'[r] = "create" => file'[r] = 1
      /\ r \notin overtaken' /\ stage'[r] \in Busy =>
             table' /\ \A k \in Files : k < file'[r] => k \in recorded'
      /\ r \notin overtaken' /\ stage'[r] = "done" => recorded' = Files
  <2>1. stage'[r] = s /\ file'[r] = file[r] /\ overtaken' = overtaken
    OBVIOUS
  <2>2. s \in Busy => /\ file[r] \in Files
                      /\ r \notin overtaken => table'
                      /\ r \notin overtaken => \A k \in Files : k < file[r] => k \in recorded
    OBVIOUS
  <2>3. s # "create" \/ file[r] = 1
    OBVIOUS
  <2>4. s = "done" => recorded' = Files
    OBVIOUS
  <2> QED
    BY <2>1, <2>2, <2>3, <2>4
<1> QED
  BY <1>1, <1>2

(* A runner whose file is recorded goes on to the next one.                *)
LEMMA OrderAfterNextFile ==
    ASSUME TypeOK, RunnersInOrder, NEW r \in Runners, stage[r] \in Busy, NextFile(r),
           recorded \subseteq recorded', recorded' \subseteq Files,
           file[r] \in recorded', table, table'
    PROVE  RunnersInOrder'
<1> USE CountAssumption DEF TypeOK, RunnersInOrder, Files
<1>0. /\ file[r] \in Files
      /\ stage'[r] = IF file[r] = Count THEN "done" ELSE "select"
      /\ \A q \in Runners : q # r => stage'[q] = stage[q] /\ file'[q] = file[q]
      /\ file'[r] = file[r] + 1 /\ overtaken' = overtaken
  BY NextFileEffect
<1>1. ASSUME NEW q \in Runners, q # r
      PROVE  /\ stage'[q] \in Busy => file'[q] \in Files
             /\ stage'[q] = "create" => file'[q] = 1
             /\ q \notin overtaken' /\ stage'[q] \in Busy =>
                    table' /\ \A k \in Files : k < file'[q] => k \in recorded'
             /\ q \notin overtaken' /\ stage'[q] = "done" => recorded' = Files
  <2>1. stage'[q] = stage[q] /\ file'[q] = file[q]
    BY <1>0, <1>1
  <2> QED
    BY <1>0, <2>1
<1>2. r \notin overtaken => \A k \in Files : k < file[r] + 1 => k \in recorded'
  BY <1>0
<1>3. /\ stage'[r] \in Busy => file'[r] \in Files
      /\ stage'[r] = "create" => file'[r] = 1
      /\ r \notin overtaken' /\ stage'[r] \in Busy =>
             table' /\ \A k \in Files : k < file'[r] => k \in recorded'
      /\ r \notin overtaken' /\ stage'[r] = "done" => recorded' = Files
  <2>1. CASE file[r] = Count
    <3>1. stage'[r] = "done" /\ stage'[r] \notin Busy
      BY <1>0, <2>1 DEF Busy
    <3>2. r \notin overtaken => Files \subseteq recorded'
      BY <1>2, <2>1
    <3> QED
      BY <1>0, <3>1, <3>2
  <2>2. CASE file[r] # Count
    <3>1. stage'[r] = "select" /\ file'[r] \in Files
      BY <1>0, <2>2
    <3> QED
      BY <1>0, <1>2, <3>1
  <2> QED
    BY <2>1, <2>2
<1> QED
  BY <1>1, <1>3

(* Types and the order of the runners need each other: a runner goes on to *)
(* a next file only from one of them.                                      *)
LEMMA OrderedStep ==
    ASSUME TypeOK, RunnersInOrder, [Next]_vars
    PROVE  TypeOK' /\ RunnersInOrder'
<1>1. ASSUME NEW r \in Runners, Begin(r)
      PROVE  TypeOK' /\ RunnersInOrder'
  <2>1. TypeOK'
    BY <1>1, BeginEffect DEF TypeOK
  <2>2. ASSUME NEW q \in Runners
        PROVE  /\ stage'[q] \in Busy => file'[q] \in Files
               /\ stage'[q] = "create" => file'[q] = 1
               /\ q \notin overtaken' /\ stage'[q] \in Busy =>
                      table' /\ \A k \in Files : k < file'[q] => k \in recorded'
               /\ q \notin overtaken' /\ stage'[q] = "done" => recorded' = Files
    <3>1. CASE q = r
      <4>1. file'[q] = 1 /\ UNCHANGED <<table, recorded>>
        BY <1>1, <3>1, BeginEffect
      <4>2. stage'[q] \in Busy => table /\ Count # 0
        BY <1>1, <3>1, BeginEffect DEF Busy
      <4>3. stage'[q] = "done" => Count = 0
        BY <1>1, <3>1, BeginEffect
      <4>4. stage'[q] \in Busy => 1 \in Files
        BY <4>2, CountAssumption DEF Files
      <4>5. stage'[q] = "done" => recorded = {} /\ Files = {}
        BY <4>3 DEF Files, TypeOK
      <4>6. \A k \in Files : ~ k < 1
        BY DEF Files
      <4> QED
        BY <4>1, <4>2, <4>4, <4>5, <4>6
    <3>2. CASE q # r
      <4>1. /\ stage'[q] = stage[q] /\ file'[q] = file[q]
            /\ q \notin overtaken' => q \notin overtaken
            /\ UNCHANGED <<table, recorded>>
        BY <1>1, <3>2, BeginEffect
      <4> QED
        BY <4>1 DEF RunnersInOrder, Files
    <3> QED
      BY <3>1, <3>2
  <2> QED
    BY <2>1, <2>2 DEF RunnersInOrder
<1>2. ASSUME NEW r \in Runners, CreateTable(r)
      PROVE  TypeOK' /\ RunnersInOrder'
  <2>1. /\ stage[r] = "create" /\ table' /\ UNCHANGED <<recorded, schema>>
        /\ table' \in BOOLEAN
    BY <1>2, Outcomes DEF CreateTable
  <2>2. PICK s \in {"refused", "select", "done"} :
            Go(r, s) /\ (s = "select" => Count > 0) /\ (s = "done" => Count = 0)
    BY <1>2, Outcomes
  <2>3. s \in Stages
    BY DEF Stages, Ended
  <2>4. TypeOK'
    BY <2>1, <2>2, <2>3, GoEffect DEF TypeOK
  <2>5. s = "done" => Files = {}
    BY <2>2 DEF Files
  <2> QED
    BY <2>1, <2>2, <2>3, <2>4, <2>5, OrderAfterGo DEF TypeOK, Busy
<1>3. ASSUME NEW r \in Runners, Select(r)
      PROVE  TypeOK' /\ RunnersInOrder'
  <2>1. stage[r] = "select" /\ UNCHANGED <<table, recorded, schema>>
    BY <1>3, Outcomes
  <2>2. stage[r] \in Busy /\ file[r] \in Files
    BY <2>1 DEF Busy, RunnersInOrder
  <2>3. ASSUME NEW s \in {"refused", "run"}, Go(r, s)
        PROVE  TypeOK' /\ RunnersInOrder'
    <3>1. s \in Stages /\ s # "create" /\ s # "done"
      BY DEF Stages, Ended, Busy
    <3> QED
      BY <2>1, <2>2, <2>3, <3>1, GoEffect, OrderAfterGo DEF TypeOK
  <2>4. ASSUME table, file[r] \in recorded, NextFile(r)
        PROVE  TypeOK' /\ RunnersInOrder'
    BY <2>1, <2>2, <2>4, NextFileEffect, OrderAfterNextFile DEF TypeOK
  <2> QED
    BY <1>3, <2>3, <2>4, Outcomes
<1>4. ASSUME NEW r \in Runners, RunFile(r)
      PROVE  TypeOK' /\ RunnersInOrder'
  <2>1. stage[r] = "run" /\ UNCHANGED <<table, recorded, schema>>
    BY <1>4, Outcomes
  <2>2. PICK s \in {"record", "apply", "refused"} : Go(r, s)
    BY <1>4, Outcomes
  <2>3. s \in Stages /\ stage[r] \in Busy /\ s # "create" /\ s # "done"
    BY <2>1 DEF Stages, Ended, Busy
  <2> QED
    BY <2>1, <2>2, <2>3, GoEffect, OrderAfterGo DEF TypeOK
<1>5. ASSUME NEW r \in Runners, ApplyFile(r)
      PROVE  TypeOK' /\ RunnersInOrder'
  <2>1. stage[r] = "apply" /\ UNCHANGED <<table, recorded>>
    BY <1>5, Outcomes
  <2>2. stage[r] \in Busy /\ file[r] \in Files
    BY <2>1 DEF Busy, RunnersInOrder
  <2>3. schema' \subseteq Files
    BY <1>5, <2>2, Outcomes DEF TypeOK
  <2>4. PICK s \in {"record", "refused"} : Go(r, s)
    BY <1>5, Outcomes
  <2>5. s \in Stages /\ s # "create" /\ s # "done"
    BY DEF Stages, Ended
  <2> QED
    BY <2>1, <2>2, <2>3, <2>4, <2>5, GoEffect, OrderAfterGo DEF TypeOK
<1>6. ASSUME NEW r \in Runners, RecordFile(r)
      PROVE  TypeOK' /\ RunnersInOrder'
  <2>1. stage[r] = "record" /\ UNCHANGED <<table, schema>>
    BY <1>6, Outcomes
  <2>2. stage[r] \in Busy /\ file[r] \in Files
    BY <2>1 DEF Busy, RunnersInOrder
  <2>3. ASSUME Go(r, "refused"), UNCHANGED recorded
        PROVE  TypeOK' /\ RunnersInOrder'
    <3>1. "refused" \in Stages /\ "refused" \notin Busy
      BY DEF Stages, Ended, Busy
    <3> QED
      BY <2>1, <2>2, <2>3, <3>1, GoEffect, OrderAfterGo DEF TypeOK
  <2>4. ASSUME table, NextFile(r), recorded' = recorded \cup {file[r]}
        PROVE  TypeOK' /\ RunnersInOrder'
    BY <2>1, <2>2, <2>4, NextFileEffect, OrderAfterNextFile DEF TypeOK
  <2> QED
    BY <1>6, <2>3, <2>4, Outcomes
<1>7. ASSUME NEW r \in Runners, Crash(r)
      PROVE  TypeOK' /\ RunnersInOrder'
  <2>1. /\ stage'[r] = "crashed" /\ stage' \in [Runners -> Stages]
        /\ \A q \in Runners : q # r => stage'[q] = stage[q]
        /\ UNCHANGED <<table, recorded, schema, file, resets, torn, overtaken, alone>>
        /\ calm' = FALSE
    BY <1>7, Outcomes
  <2>2. "crashed" \notin Busy
    BY DEF Busy
  <2>3. TypeOK'
    BY <2>1 DEF TypeOK
  <2> QED
    BY <2>1, <2>2, <2>3 DEF RunnersInOrder, Files
<1>8. CASE Reset
  <2>1. TypeOK'
    <3>1. resets' \in 0 .. MaxResets
      BY <1>8, EnvironmentAssumption DEF Reset, TypeOK
    <3>2. torn' \in BOOLEAN
      BY <1>8 DEF Reset
    <3> QED
      BY <1>8, <3>1, <3>2 DEF Reset, TypeOK
  <2> QED
    BY <1>8, <2>1 DEF Reset, RunnersInOrder
<1>9. CASE UNCHANGED vars
  BY <1>9 DEF vars, database, history, TypeOK, RunnersInOrder, Files
<1> QED
  BY <1>1, <1>2, <1>3, <1>4, <1>5, <1>6, <1>7, <1>8, <1>9, StepCases

(* Every variable keeps its type, and the runners go through the files in  *)
(* their order.                                                            *)
THEOREM TypeCorrect == Spec => [](TypeOK /\ RunnersInOrder)
<1>1. Init => TypeOK /\ RunnersInOrder
  <2> SUFFICES ASSUME Init
               PROVE  TypeOK /\ RunnersInOrder
    OBVIOUS
  <2>1. "new" \in Stages /\ "new" \notin Busy /\ 1 \in 1 .. Count + 1 /\ 0 \in 0 .. MaxResets
    BY CountAssumption, EnvironmentAssumption DEF Stages, Ended, Busy
  <2>2. \A r \in Runners : stage[r] = "new" /\ file[r] = 1
    BY DEF Init
  <2> QED
    BY <2>1, <2>2 DEF Init, TypeOK, RunnersInOrder
<1>2. TypeOK /\ RunnersInOrder /\ [Next]_vars => TypeOK' /\ RunnersInOrder'
  BY OrderedStep
<1> QED
  BY <1>1, <1>2, PTL DEF Spec

-----------------------------------------------------------------------------
LEMMA RecordsFollowStep ==
    ASSUME TypeOK, RunnersInOrder, RecordsFollow, [Next]_vars
    PROVE  RecordsFollow'
(* The parts of the invariant a step leaves alone.                         *)
<1>same. ASSUME NEW r \in Runners, torn' = torn, file' = file,
                recorded' = recorded, schema \subseteq schema',
                \A q \in Runners : q # r => stage'[q] = stage[q],
                stage'[r] = "record" => file[r] \in schema'
         PROVE  RecordsFollow'
  BY <1>same DEF RecordsFollow
<1>next. ASSUME NEW r \in Runners, stage[r] \in Busy, NextFile(r), schema' = schema,
                recorded' \subseteq recorded \cup {file[r]},
                file[r] \in recorded \/ stage[r] = "record"
         PROVE  RecordsFollow'
  <2>1. file[r] \in Files
    BY <1>next DEF RunnersInOrder
  <2>2. /\ torn' = torn /\ stage'[r] # "record"
        /\ \A q \in Runners : q # r => stage'[q] = stage[q] /\ file'[q] = file[q]
    BY <1>next, <2>1, NextFileEffect
  <2> QED
    BY <1>next, <2>2 DEF RecordsFollow
<1>1. ASSUME NEW r \in Runners, Begin(r)
      PROVE  RecordsFollow'
  <2>1. /\ stage'[r] # "record" /\ UNCHANGED <<recorded, schema, torn>>
        /\ \A q \in Runners : q # r => stage'[q] = stage[q] /\ file'[q] = file[q]
    BY <1>1, BeginEffect
  <2> QED
    BY <2>1 DEF RecordsFollow
<1>2. ASSUME NEW r \in Runners, CreateTable(r)
      PROVE  RecordsFollow'
  <2>1. PICK s \in {"refused", "select", "done"} : Go(r, s)
    BY <1>2, Outcomes
  <2>2. s \in Stages /\ s # "record"
    BY DEF Stages, Ended
  <2> QED
    BY <1>2, <2>1, <2>2, Outcomes, GoEffect, <1>same
<1>3. ASSUME NEW r \in Runners, Select(r)
      PROVE  RecordsFollow'
  <2>0. stage[r] \in Busy /\ UNCHANGED <<recorded, schema>>
    BY <1>3, Outcomes DEF Busy
  <2>1. ASSUME NEW s \in {"refused", "run"}, Go(r, s)
        PROVE  RecordsFollow'
    <3>1. s \in Stages /\ s # "record"
      BY DEF Stages, Ended
    <3> QED
      BY <2>0, <2>1, <3>1, GoEffect, <1>same
  <2>2. ASSUME file[r] \in recorded, NextFile(r)
        PROVE  RecordsFollow'
    BY <2>0, <2>2, <1>next
  <2> QED
    BY <1>3, <2>1, <2>2, Outcomes
<1>4. ASSUME NEW r \in Runners, RunFile(r)
      PROVE  RecordsFollow'
  <2>1. PICK s \in {"record", "apply", "refused"} :
            Go(r, s) /\ (s = "record" => file[r] \in schema)
    BY <1>4, Outcomes
  <2>2. s \in Stages
    BY DEF Stages, Ended
  <2> QED
    BY <1>4, <2>1, <2>2, Outcomes, GoEffect, <1>same
<1>5. ASSUME NEW r \in Runners, ApplyFile(r)
      PROVE  RecordsFollow'
  <2>1. PICK s \in {"record", "refused"} :
            /\ Go(r, s) /\ schema \subseteq schema'
            /\ s = "record" => file[r] \in schema'
    BY <1>5, Outcomes
  <2>2. s \in Stages
    BY DEF Stages, Ended
  <2> QED
    BY <1>5, <2>1, <2>2, Outcomes, GoEffect, <1>same
<1>6. ASSUME NEW r \in Runners, RecordFile(r)
      PROVE  RecordsFollow'
  <2>0. stage[r] = "record" /\ stage[r] \in Busy /\ schema' = schema
    BY <1>6, Outcomes DEF Busy
  <2>1. ASSUME Go(r, "refused"), UNCHANGED recorded
        PROVE  RecordsFollow'
    <3>1. "refused" \in Stages
      BY DEF Stages, Ended
    <3> QED
      BY <2>0, <2>1, <3>1, GoEffect, <1>same
  <2>2. ASSUME NextFile(r), recorded' = recorded \cup {file[r]}
        PROVE  RecordsFollow'
    BY <2>0, <2>2, <1>next
  <2> QED
    BY <1>6, <2>1, <2>2, Outcomes
<1>7. ASSUME NEW r \in Runners, Crash(r)
      PROVE  RecordsFollow'
  BY <1>7, Outcomes, <1>same
<1>8. CASE Reset
  BY <1>8 DEF Reset, RecordsFollow
<1>9. CASE UNCHANGED vars
  BY <1>9 DEF vars, database, history, RecordsFollow
<1> QED
  BY <1>1, <1>2, <1>3, <1>4, <1>5, <1>6, <1>7, <1>8, <1>9, StepCases

(* The ledger of migrations is true, whoever died where.                   *)
THEOREM LedgerStaysTrue == Spec => []LedgerIsTrue
<1>1. Init => RecordsFollow
  BY DEF Init, RecordsFollow
<1>2. TypeOK /\ RunnersInOrder /\ RecordsFollow /\ [Next]_vars => RecordsFollow'
  BY RecordsFollowStep
<1>3. TypeOK /\ RunnersInOrder /\ RecordsFollow => LedgerIsTrue
  BY DEF RunnersInOrder, RecordsFollow, LedgerIsTrue
<1> QED
  BY <1>1, <1>2, <1>3, TypeCorrect, PTL DEF Spec

-----------------------------------------------------------------------------
(* When a runner is under way, it is the only one that can be alone.       *)
LEMMA AloneStays ==
    ASSUME TypeOK, AloneUndisturbed, NEW r \in Runners, stage[r] \notin Ended,
           UNCHANGED <<alone, overtaken, torn>>,
           \A q \in Runners : q # r => stage'[q] = stage[q],
           r \in alone =>
               /\ stage'[r] = "create" => ~ table'
               /\ stage'[r] \in {"run", "apply", "record"} => file'[r] \notin recorded'
               /\ stage'[r] = "apply" => file'[r] \notin schema'
               /\ ~ torn => stage'[r] # "refused"
    PROVE  AloneUndisturbed'
<1>1. ASSUME NEW q \in alone
      PROVE  q = r
  BY <1>1 DEF AloneUndisturbed, Running
<1>2. r \in alone => Running' \subseteq {r}
  <2> SUFFICES ASSUME r \in alone, NEW q \in Running'
               PROVE  q = r
    OBVIOUS
  <2>1. q \in Runners /\ stage'[q] \notin Ended
    BY DEF Running
  <2>2. q # r => q \in Running
    BY <2>1 DEF Running
  <2> QED
    BY <2>2 DEF AloneUndisturbed
<1> QED
  BY <1>1, <1>2 DEF AloneUndisturbed

LEMMA AloneStep ==
    ASSUME TypeOK, RunnersInOrder, RecordsFollow, AloneUndisturbed, [Next]_vars
    PROVE  AloneUndisturbed'
<1>0. /\ {"create", "select", "run", "apply", "record"} \cap Ended = {}
      /\ Busy \cap Ended = {} /\ alone \subseteq Runners
  BY DEF Ended, Busy, TypeOK
<1>1. ASSUME NEW r \in Runners, Begin(r)
      PROVE  AloneUndisturbed'
  <2>1. /\ alone' = (IF Running = {} THEN {r} ELSE {}) /\ table' = table
        /\ overtaken' = overtaken \ {r}
        /\ stage'[r] = IF ~ table THEN "create" ELSE IF Count = 0 THEN "done" ELSE "select"
        /\ \A q \in Runners : q # r => stage'[q] = stage[q]
    BY <1>1, BeginEffect
  <2>2. CASE Running = {}
    <3>1. Running' \subseteq {r}
      BY <2>1, <2>2 DEF Running
    <3>2. /\ stage'[r] \notin {"run", "apply", "record", "refused"}
          /\ stage'[r] = "create" => ~ table
      BY <2>1
    <3> QED
      BY <2>1, <2>2, <3>1, <3>2 DEF AloneUndisturbed
  <2>3. CASE Running # {}
    BY <2>1, <2>3 DEF AloneUndisturbed
  <2> QED
    BY <2>2, <2>3
<1>2. ASSUME NEW r \in Runners, CreateTable(r)
      PROVE  AloneUndisturbed'
  <2>1. stage[r] = "create" /\ stage[r] \notin Ended
    BY <1>0, <1>2, Outcomes
  <2>2. PICK s \in {"refused", "select", "done"} : Go(r, s) /\ (s = "refused" => table)
    BY <1>2, Outcomes
  <2>3. s \in Stages /\ (r \in alone => s # "refused")
    BY <2>1, <2>2 DEF Stages, Ended, AloneUndisturbed
  <2> QED
    BY <2>1, <2>2, <2>3, GoEffect, AloneStays
<1>3. ASSUME NEW r \in Runners, Select(r)
      PROVE  AloneUndisturbed'
  <2>1. /\ stage[r] = "select" /\ stage[r] \notin Ended /\ stage[r] \in Busy
        /\ UNCHANGED <<table, recorded, schema>>
    BY <1>0, <1>3, Outcomes DEF Busy
  <2>2. ASSUME NEW s \in {"refused", "run"}, Go(r, s),
               s = "refused" => ~ table, s = "run" => file[r] \notin recorded
        PROVE  AloneUndisturbed'
    <3>1. s \in Stages /\ (r \in alone => s # "refused")
      BY <2>1, <2>2 DEF Stages, Ended, AloneUndisturbed, RunnersInOrder, TypeOK
    <3> QED
      BY <2>1, <2>2, <3>1, GoEffect, AloneStays
  <2>3. ASSUME NextFile(r)
        PROVE  AloneUndisturbed'
    <3>1. file[r] \in Files
      BY <2>1 DEF RunnersInOrder
    <3>2. stage'[r] \in {"done", "select"}
      BY <2>3, <3>1, NextFileEffect
    <3> QED
      BY <2>1, <2>3, <3>1, <3>2, NextFileEffect, AloneStays
  <2> QED
    BY <1>3, <2>2, <2>3, Outcomes
<1>4. ASSUME NEW r \in Runners, RunFile(r)
      PROVE  AloneUndisturbed'
  <2>1. /\ stage[r] = "run" /\ stage[r] \notin Ended /\ stage[r] \in Busy
        /\ UNCHANGED <<table, recorded, schema>>
    BY <1>0, <1>4, Outcomes DEF Busy
  <2>2. PICK s \in {"record", "apply", "refused"} :
            /\ Go(r, s)
            /\ s = "apply" => file[r] \notin schema
            /\ s = "refused" => \E k \in 1 .. file[r] - 1 : k \notin schema
    BY <1>4, Outcomes
  <2>3. s \in Stages
    BY DEF Stages, Ended
  <2>4. r \in alone /\ ~ torn => s # "refused"
    <3> SUFFICES ASSUME r \in alone, ~ torn
                 PROVE  \A k \in 1 .. file[r] - 1 : k \in schema
      BY <2>2
    <3>1. file[r] \in Files /\ r \notin overtaken
      BY <2>1 DEF RunnersInOrder, AloneUndisturbed
    <3>2. ASSUME NEW k \in 1 .. file[r] - 1
          PROVE  k \in Files /\ k < file[r]
      BY <3>1, CountAssumption DEF Files
    <3> QED
      BY <2>1, <3>1, <3>2 DEF RunnersInOrder, RecordsFollow
  <2>5. r \in alone => file[r] \notin recorded
    BY <2>1 DEF AloneUndisturbed
  <2> QED
    BY <2>1, <2>2, <2>3, <2>4, <2>5, GoEffect, AloneStays
<1>5. ASSUME NEW r \in Runners, ApplyFile(r)
      PROVE  AloneUndisturbed'
  <2>1. /\ stage[r] = "apply" /\ stage[r] \notin Ended
        /\ UNCHANGED <<table, recorded>>
    BY <1>0, <1>5, Outcomes
  <2>2. PICK s \in {"record", "refused"} : Go(r, s) /\ (s = "refused" => file[r] \in schema)
    BY <1>5, Outcomes
  <2>3. /\ s \in Stages
        /\ r \in alone => s # "refused" /\ file[r] \notin recorded
    BY <2>1, <2>2 DEF Stages, Ended, AloneUndisturbed
  <2> QED
    BY <2>1, <2>2, <2>3, GoEffect, AloneStays
<1>6. ASSUME NEW r \in Runners, RecordFile(r)
      PROVE  AloneUndisturbed'
  <2>1. stage[r] = "record" /\ stage[r] \notin Ended /\ stage[r] \in Busy
    BY <1>0, <1>6, Outcomes DEF Busy
  <2>2. ASSUME ~ table \/ file[r] \in recorded, Go(r, "refused")
        PROVE  AloneUndisturbed'
    <3>1. "refused" \in Stages /\ r \notin alone
      BY <2>1, <2>2 DEF Stages, Ended, AloneUndisturbed, RunnersInOrder, TypeOK
    <3> QED
      BY <2>1, <2>2, <3>1, GoEffect, AloneStays
  <2>3. ASSUME NextFile(r)
        PROVE  AloneUndisturbed'
    <3>1. file[r] \in Files
      BY <2>1 DEF RunnersInOrder
    <3>2. stage'[r] \in {"done", "select"}
      BY <2>3, <3>1, NextFileEffect
    <3> QED
      BY <2>1, <2>3, <3>1, <3>2, NextFileEffect, AloneStays
  <2> QED
    BY <1>6, <2>2, <2>3, Outcomes
<1>7. ASSUME NEW r \in Runners, Crash(r)
      PROVE  AloneUndisturbed'
  BY <1>7, Outcomes, AloneStays
<1>8. CASE Reset
  BY <1>8 DEF Reset, AloneUndisturbed
<1>9. CASE UNCHANGED vars
  <2>1. Running' = Running
    BY <1>9 DEF vars, Running
  <2> QED
    BY <1>9, <2>1 DEF vars, database, history, AloneUndisturbed
<1> QED
  BY <1>1, <1>2, <1>3, <1>4, <1>5, <1>6, <1>7, <1>8, <1>9, StepCases

(* A runner that has the database to itself succeeds, whatever was left.   *)
THEOREM RunnersAloneSucceed == Spec => []RerunsSucceed
<1>1. Init => RecordsFollow /\ AloneUndisturbed
  BY DEF Init, RecordsFollow, AloneUndisturbed
<1>2. TypeOK /\ RunnersInOrder /\ RecordsFollow /\ AloneUndisturbed /\ [Next]_vars
      => RecordsFollow' /\ AloneUndisturbed'
  BY RecordsFollowStep, AloneStep
<1>3. AloneUndisturbed => RerunsSucceed
  BY DEF AloneUndisturbed, RerunsSucceed
<1> QED
  BY <1>1, <1>2, <1>3, TypeCorrect, PTL DEF Spec

-----------------------------------------------------------------------------
(* Who leads goes on leading while others take steps that change nothing.  *)
LEMMA LeaderStays ==
    ASSUME NEW l \in Runners, Leads(l), stage'[l] = stage[l], file'[l] = file[l],
           UNCHANGED database
    PROVE  Leads(l)'
BY DEF Leads, database

(* In a calm run nobody who has come to an unrecorded file is behind the   *)
(* leader, and the tables of all earlier files are there.                  *)
LEMMA NobodyBehind ==
    ASSUME TypeOK, RunnersInOrder, RecordsFollow, SomebodyLeads, calm,
           NEW r \in Runners, stage[r] \in Busy
    PROVE  /\ table /\ file[r] \in Files /\ file[r] \in Int
           /\ \A k \in Files : k < file[r] => k \in recorded /\ k \in schema
           /\ recorded = Files \/ \E l \in Runners : Leads(l)
           /\ file[r] \notin recorded =>
                  \A l \in Runners : Leads(l) => file[l] \in Int /\ file[l] <= file[r]
<1>1. ~ torn /\ r \notin overtaken
  BY DEF SomebodyLeads
<1>2. /\ table /\ file[r] \in Files /\ file[r] \in Int
      /\ \A k \in Files : k < file[r] => k \in recorded
  BY <1>1, CountAssumption DEF RunnersInOrder, Files
<1>3. stage[r] # "new"
  BY DEF Busy
<1>4. ASSUME file[r] \notin recorded, NEW l \in Runners, Leads(l)
      PROVE  file[l] \in Int /\ file[l] <= file[r]
  <2>1. stage[l] \in Busy
    BY <1>2, <1>4 DEF Leads
  <2>2. file[l] \in Files /\ file[l] \in Int /\ \A k \in Files : k < file[l] => k \in recorded
    BY <1>1, <2>1, CountAssumption DEF RunnersInOrder, SomebodyLeads, Files
  <2> QED
    BY <1>2, <1>4, <2>2
<1> QED
  BY <1>1, <1>2, <1>3, <1>4 DEF SomebodyLeads, RecordsFollow

(* A runner that has added its file, to the schema or to the ledger, leads *)
(* from then on.                                                           *)
LEMMA WhoAddsLeads ==
    ASSUME TypeOK, RunnersInOrder, RecordsFollow, SomebodyLeads, calm,
           NEW r \in Runners, stage[r] \in Busy, file[r] \notin recorded
    PROVE  /\ \A k \in recorded : k \in Int /\ k < file[r]
           /\ \A k \in schema : k \in Int /\ k <= file[r]
<1>1. recorded # Files
  BY NobodyBehind
<1>2. PICK l \in Runners : Leads(l)
  BY <1>1, NobodyBehind
<1>3. file[l] \in Int /\ file[r] \in Int /\ file[l] <= file[r]
  BY <1>2, NobodyBehind
<1>4. recorded \subseteq Int /\ schema \subseteq Int
  BY CountAssumption DEF TypeOK, Files
<1> QED
  BY <1>2, <1>3, <1>4 DEF Leads

(* What has gone wrong stays so.                                           *)
LEMMA CalmEnds ==
    ASSUME TypeOK, RunnersInOrder, [Next]_vars, ~ calm
    PROVE  ~ calm'
<1>1. ASSUME NEW r \in Runners, stage[r] \in Busy, NextFile(r)
      PROVE  ~ calm'
  BY <1>1 DEF NextFile, history
<1>2. ASSUME NEW r \in Runners, NEW s, Go(r, s)
      PROVE  ~ calm'
  BY <1>2 DEF Go, history
<1>3. ASSUME NEW r \in Runners, Begin(r)
      PROVE  ~ calm'
  BY <1>3, BeginEffect
<1>4. ASSUME NEW r \in Runners, CreateTable(r)
      PROVE  ~ calm'
  BY <1>2, <1>4, Outcomes
<1>5. ASSUME NEW r \in Runners, Select(r)
      PROVE  ~ calm'
  BY <1>1, <1>2, <1>5, Outcomes DEF Busy
<1>6. ASSUME NEW r \in Runners, RunFile(r) \/ ApplyFile(r)
      PROVE  ~ calm'
  BY <1>2, <1>6, Outcomes
<1>7. ASSUME NEW r \in Runners, RecordFile(r)
      PROVE  ~ calm'
  BY <1>1, <1>2, <1>7, Outcomes DEF Busy
<1>8. ASSUME NEW r \in Runners, Crash(r)
      PROVE  ~ calm'
  BY <1>8, Outcomes
<1>9. Reset \/ UNCHANGED vars => ~ calm'
  BY DEF Reset, vars, history
<1> QED
  BY <1>3, <1>4, <1>5, <1>6, <1>7, <1>8, <1>9, StepCases

LEMMA LeaderStep ==
    ASSUME TypeOK, RunnersInOrder, RecordsFollow, SomebodyLeads, [Next]_vars
    PROVE  SomebodyLeads'
<1>0. /\ Busy \cap Ended = {} /\ "create" \notin Ended /\ "new" \notin Busy
  BY DEF Ended, Busy
(* A step of a runner that does not lead, and changes nothing.             *)
<1>steady. ASSUME calm, NEW r \in Runners, NEW s \in Stages, Go(r, s), UNCHANGED database,
                  stage[r] # "new", Leads(r) => Leads(r)'
           PROVE  SomebodyLeads'
  <2>1. /\ \A q \in Runners : q # r => stage'[q] = stage[q] /\ file'[q] = file[q]
        /\ UNCHANGED <<torn, overtaken>>
    BY <1>steady, GoEffect
  <2>2. \A l \in Runners : Leads(l) => Leads(l)'
    BY <1>steady, <2>1, LeaderStays
  <2>3. recorded = Files \/ \E l \in Runners : Leads(l)
    BY <1>steady DEF SomebodyLeads
  <2>4. recorded' = Files \/ \E l \in Runners : Leads(l)'
    BY <1>steady, <2>2, <2>3 DEF database
  <2> QED
    BY <1>steady, <2>1, <2>4 DEF SomebodyLeads, database, Files
<1>1. ASSUME NEW r \in Runners, Begin(r), calm
      PROVE  SomebodyLeads'
  <2>1. /\ stage[r] \in Ended
        /\ \A q \in Runners : q # r => stage'[q] = stage[q] /\ file'[q] = file[q]
        /\ file'[r] = 1
        /\ overtaken' = overtaken \ {r} /\ UNCHANGED <<database, torn, calm>>
    BY <1>1, BeginEffect DEF database
  <2>2. CASE (\A q \in Runners : stage[q] = "new") /\ ~ table
    <3>1. stage'[r] = "create"
      BY <1>1, <2>2, BeginEffect
    <3>2. recorded' = {} /\ schema' = {} /\ ~ table'
      BY <1>1, <2>1, <2>2 DEF SomebodyLeads, database
    <3>3. Leads(r)'
      BY <3>1, <3>2 DEF Leads
    <3> QED
      BY <1>1, <2>1, <3>2, <3>3 DEF SomebodyLeads
  <2>3. CASE recorded = Files
    BY <1>1, <2>1, <2>3 DEF SomebodyLeads, database, Files
  <2>4. ASSUME NEW l \in Runners, Leads(l)
        PROVE  SomebodyLeads'
    <3>1. l # r
      BY <1>0, <2>1, <2>4 DEF Leads
    <3>2. Leads(l)'
      BY <2>1, <2>4, <3>1, LeaderStays
    <3> QED
      BY <1>1, <2>1, <3>2 DEF SomebodyLeads, database
  <2> QED
    BY <1>1, <2>2, <2>3, <2>4 DEF SomebodyLeads
<1>2. ASSUME NEW r \in Runners, CreateTable(r), calm
      PROVE  SomebodyLeads'
  <2>1. stage[r] = "create" /\ table' /\ UNCHANGED <<recorded, schema>>
    BY <1>2, Outcomes
  <2>2. CASE table /\ Go(r, "refused")
    <3>1. "refused" \in Stages /\ UNCHANGED database /\ ~ Leads(r)
      BY <1>2, <2>1, <2>2 DEF Stages, Ended, database, Leads, CreateTable
    <3> QED
      BY <1>2, <2>1, <2>2, <3>1, <1>steady
  <2>3. CASE ~ table /\ Count > 0 /\ Go(r, "select")
    <3>1. "select" \in Stages
      BY DEF Stages
    <3>2. stage'[r] = "select" /\ UNCHANGED <<torn, overtaken>>
      BY <2>3, <3>1, GoEffect
    <3>3. recorded' = {} /\ schema' = {}
      BY <1>2, <2>1, <2>3 DEF SomebodyLeads
    <3>4. Leads(r)'
      BY <3>2, <3>3 DEF Leads, Busy
    <3> QED
      BY <1>2, <2>1, <3>2, <3>4 DEF SomebodyLeads
  <2>4. CASE ~ table /\ Count = 0 /\ Go(r, "done")
    <3>1. "done" \in Stages /\ Files = {} /\ recorded = {}
      BY <1>2, <2>4 DEF Stages, Ended, Files, SomebodyLeads
    <3>2. UNCHANGED <<torn, overtaken>> /\ recorded' = Files
      BY <2>1, <2>4, <3>1, GoEffect
    <3> QED
      BY <1>2, <2>1, <3>2 DEF SomebodyLeads, Files
  <2> QED
    BY <1>2, <2>2, <2>3, <2>4, Outcomes
<1>3. ASSUME NEW r \in Runners, Select(r), calm
      PROVE  SomebodyLeads'
  <2>1. stage[r] = "select" /\ stage[r] \in Busy /\ stage[r] # "new" /\ UNCHANGED database
    BY <1>3, Outcomes DEF Busy, database
  <2>2. table
    BY <1>3, <2>1, NobodyBehind
  <2>3. ASSUME file[r] \in recorded, NextFile(r)
        PROVE  SomebodyLeads'
    <3>1. file[r] \in Files /\ file[r] \in Int
      BY <1>3, <2>1, NobodyBehind
    <3>2. /\ \A q \in Runners : q # r => stage'[q] = stage[q] /\ file'[q] = file[q]
          /\ UNCHANGED <<torn, overtaken>>
      BY <2>3, <3>1, NextFileEffect
    <3>3. \A l \in Runners : Leads(l) => l # r
      BY <2>3, <3>1 DEF Leads
    <3>4. \A l \in Runners : Leads(l) => Leads(l)'
      BY <2>1, <3>2, <3>3, LeaderStays
    <3>5. recorded' = Files \/ \E l \in Runners : Leads(l)'
      BY <1>3, <2>1, <3>4, NobodyBehind DEF database
    <3> QED
      BY <1>3, <2>1, <3>2, <3>5 DEF SomebodyLeads, database, Files
  <2>4. ASSUME Go(r, "run")
        PROVE  SomebodyLeads'
    <3>1. "run" \in Stages /\ "run" \in Busy
      BY DEF Stages, Busy
    <3>2. stage'[r] = "run" /\ file'[r] = file[r]
      BY <2>4, <3>1, GoEffect
    <3>3. Leads(r) => Leads(r)'
      BY <2>1, <3>1, <3>2 DEF Leads, database
    <3> QED
      BY <1>3, <2>1, <2>4, <3>1, <3>3, <1>steady
  <2> QED
    BY <1>3, <2>2, <2>3, <2>4, Outcomes
<1>4. ASSUME NEW r \in Runners, RunFile(r), calm
      PROVE  SomebodyLeads'
  <2>1. stage[r] = "run" /\ stage[r] \in Busy /\ stage[r] # "new" /\ UNCHANGED database
    BY <1>4, Outcomes DEF Busy, database
  <2>2. PICK s \in {"record", "apply", "refused"} :
            /\ Go(r, s)
            /\ s = "record" => file[r] \in schema
            /\ s = "refused" => \E k \in 1 .. file[r] - 1 : k \notin schema
    BY <1>4, Outcomes
  <2>3. s \in Stages /\ {"record", "apply"} \subseteq Busy
    BY DEF Stages, Ended, Busy
  <2>4. s # "refused"
    <3> SUFFICES \A k \in 1 .. file[r] - 1 : k \in schema
      BY <2>2
    <3>1. file[r] \in Files
      BY <1>4, <2>1, NobodyBehind
    <3>2. \A k \in 1 .. file[r] - 1 : k \in Files /\ k < file[r]
      BY <3>1, CountAssumption DEF Files
    <3> QED
      BY <1>4, <2>1, <3>2, NobodyBehind
  <2>5. stage'[r] = s /\ file'[r] = file[r]
    BY <2>2, <2>3, GoEffect
  <2>6. Leads(r) => Leads(r)'
    BY <2>1, <2>3, <2>4, <2>5 DEF Leads, database
  <2> QED
    BY <1>4, <2>1, <2>2, <2>3, <2>6, <1>steady
<1>5. ASSUME NEW r \in Runners, ApplyFile(r), calm
      PROVE  SomebodyLeads'
  <2>1. /\ stage[r] = "apply" /\ stage[r] \in Busy /\ stage[r] # "new"
        /\ UNCHANGED <<table, recorded>>
    BY <1>5, Outcomes DEF Busy
  <2>2. CASE file[r] \in schema /\ Go(r, "refused") /\ UNCHANGED schema
    <3>1. "refused" \in Stages /\ UNCHANGED database
      BY <2>1, <2>2 DEF Stages, Ended, database
    <3>2. ~ Leads(r)
      BY <1>5, <2>1, <2>2, NobodyBehind DEF Leads
    <3> QED
      BY <1>5, <2>1, <2>2, <3>1, <3>2, <1>steady
  <2>3. CASE /\ file[r] \notin schema /\ Go(r, "record")
             /\ schema' = schema \cup {file[r]}
    <3>1. "record" \in Stages /\ "record" \in Busy
      BY DEF Stages, Busy
    <3>2. stage'[r] = "record" /\ file'[r] = file[r] /\ UNCHANGED <<torn, overtaken>>
      BY <2>3, <3>1, GoEffect
    <3>3. file[r] \notin recorded
      BY <1>5, <2>3 DEF RecordsFollow, SomebodyLeads
    <3>4. table /\ file[r] \in Int
      BY <1>5, <2>1, NobodyBehind
    <3>5. /\ \A k \in recorded : k < file[r]
          /\ \A k \in schema : k \in Int /\ k <= file[r]
      BY <1>5, <2>1, <3>3, WhoAddsLeads
    <3>6. Leads(r)'
      BY <2>1, <2>3, <3>1, <3>2, <3>4, <3>5 DEF Leads
    <3> QED
      BY <1>5, <2>1, <3>2, <3>4, <3>6 DEF SomebodyLeads
  <2> QED
    BY <1>5, <2>2, <2>3, Outcomes
<1>6. ASSUME NEW r \in Runners, RecordFile(r), calm
      PROVE  SomebodyLeads'
  <2>1. /\ stage[r] = "record" /\ stage[r] \in Busy /\ stage[r] # "new"
        /\ UNCHANGED <<table, schema>>
    BY <1>6, Outcomes DEF Busy
  <2>2. table /\ file[r] \in Files /\ file[r] \in Int
    BY <1>6, <2>1, NobodyBehind
  <2>3. CASE file[r] \in recorded /\ Go(r, "refused") /\ UNCHANGED recorded
    <3>1. "refused" \in Stages /\ UNCHANGED database
      BY <2>1, <2>3 DEF Stages, Ended, database
    <3>2. ~ Leads(r)
      BY <2>2, <2>3 DEF Leads
    <3> QED
      BY <1>6, <2>1, <2>3, <3>1, <3>2, <1>steady
  <2>4. CASE file[r] \notin recorded /\ NextFile(r) /\ recorded' = recorded \cup {file[r]}
    <3>1. /\ UNCHANGED <<torn, overtaken>> /\ file'[r] = file[r] + 1
          /\ stage'[r] = IF file[r] = Count THEN "done" ELSE "select"
      BY <2>2, <2>4, NextFileEffect
    <3>2. CASE file[r] = Count
      <4>1. \A k \in Files : k < file[r] => k \in recorded
        BY <1>6, <2>1, NobodyBehind
      <4>2. \A k \in Files : k < file[r] \/ k = file[r]
        BY <2>2, <3>2, CountAssumption DEF Files
      <4>3. recorded' = Files
        BY <2>2, <2>4, <4>1, <4>2 DEF TypeOK
      <4> QED
        BY <1>6, <2>1, <2>2, <3>1, <4>3 DEF SomebodyLeads, Files
    <3>3. CASE file[r] # Count
      <4>1. /\ \A k \in recorded : k \in Int /\ k < file[r]
            /\ \A k \in schema : k \in Int /\ k <= file[r]
        BY <1>6, <2>1, <2>4, WhoAddsLeads
      <4>2. stage'[r] = "select"
        BY <3>1, <3>3
      <4>3. Leads(r)'
        BY <2>1, <2>2, <2>4, <3>1, <4>1, <4>2 DEF Leads, Busy
      <4> QED
        BY <1>6, <2>1, <2>2, <3>1, <4>3 DEF SomebodyLeads
    <3> QED
      BY <3>2, <3>3
  <2> QED
    BY <1>6, <2>2, <2>3, <2>4, Outcomes
<1>7. ASSUME NEW r \in Runners, Crash(r)
      PROVE  SomebodyLeads'
  BY <1>7, Outcomes DEF SomebodyLeads
<1>8. CASE Reset
  BY <1>8 DEF Reset, SomebodyLeads
<1>9. CASE UNCHANGED vars
  <2>1. \A l \in Runners : Leads(l) => Leads(l)'
    BY <1>9, LeaderStays DEF vars
  <2> QED
    BY <1>9, <2>1 DEF vars, database, history, SomebodyLeads, Files
<1>10. ~ calm => SomebodyLeads'
  BY CalmEnds DEF SomebodyLeads
<1> QED
  BY <1>1, <1>2, <1>3, <1>4, <1>5, <1>6, <1>7, <1>8, <1>9, <1>10, StepCases

(* Runners refuse each other, but never all of them.                       *)
THEOREM OneRunnerWins == Spec => []ConflictsLeaveAWinner
<1>1. Init => RecordsFollow /\ SomebodyLeads
  BY DEF Init, RecordsFollow, SomebodyLeads
<1>2. TypeOK /\ RunnersInOrder /\ RecordsFollow /\ SomebodyLeads /\ [Next]_vars
      => RecordsFollow' /\ SomebodyLeads'
  BY RecordsFollowStep, LeaderStep
<1>3. SomebodyLeads => ConflictsLeaveAWinner
  <2> SUFFICES ASSUME SomebodyLeads, calm,
                      \A r \in Runners : stage[r] \in Ended \ {"new"}
               PROVE  recorded = Files
    BY DEF ConflictsLeaveAWinner
  <2>1. Busy \cap Ended = {} /\ "create" \notin Ended
    BY DEF Busy, Ended
  <2>2. ~ \E r \in Runners : Leads(r)
    BY <2>1 DEF Leads
  <2>3. ~ \A r \in Runners : stage[r] = "new"
    BY RunnersAssumption
  <2> QED
    BY <2>2, <2>3 DEF SomebodyLeads
<1> QED
  BY <1>1, <1>2, <1>3, TypeCorrect, PTL DEF Spec
===============================================================================
