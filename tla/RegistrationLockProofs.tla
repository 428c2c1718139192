----------------------- MODULE RegistrationLockProofs -----------------------
(***************************************************************************)
(* What the registration lock guarantees for every set of callers and PINs *)
(* and every value of the limit and the window.                            *)
(***************************************************************************)
EXTENDS RegistrationLock, FiniteSetTheorems, TLAPS

(* The assumptions of RegistrationLock, gathered for the proofs.           *)
LEMMA ConstantsTyped ==
    /\ MaxFailures \in Nat /\ MaxFailures >= 1
    /\ Window \in Nat /\ Window >= 1
    /\ NoPin \notin Pins
    /\ Cardinality(Clients) \in Nat
BY LimitsAssumption, NoPinAssumption, ClientsAssumption, FS_CardinalityType

(* The cases of a step, for the proofs that go through them.               *)
LEMMA StepCases ==
    ASSUME [Next]_vars
    PROVE  \/ \E c \in Clients, p \in Pins : SetPin(c, p)
           \/ \E c \in Clients, p \in Pins : Ask(c, "verify", p) \/ Ask(c, "disable", p)
           \/ \E c \in Clients : CountFailures(c)
           \/ \E c \in Clients : FetchCredential(c)
           \/ \E c \in Clients : RecordAttempt(c)
           \/ \E c \in Clients : DeleteCredential(c)
           \/ \E c \in Clients : Report(c) \/ Fail(c)
           \/ Tick
           \/ UNCHANGED vars
BY DEF Next

(* An insert takes a row that is not counted.                              *)
LEMMA InsertedRow ==
    ASSUME TypeOK, Insert
    PROVE  \E r \in Rows \ Failed : left' = [left EXCEPT ![r] = Window]
<1>1. Rows \ Failed # {}
  BY DEF Insert, Failed
<1>2. (CHOOSE r \in Rows \ Failed : TRUE) \in Rows \ Failed
  BY <1>1
<1> QED
  BY <1>2 DEF Insert

-----------------------------------------------------------------------------
(* Every variable keeps its type.                                          *)
THEOREM TypeCorrect == Spec => []TypeOK
<1>1. Init => TypeOK
  BY ConstantsTyped DEF Init, TypeOK, Stages, Methods, Events
<1>2. TypeOK /\ [Next]_vars => TypeOK'
  <2> SUFFICES ASSUME TypeOK, [Next]_vars
               PROVE  TypeOK'
    OBVIOUS
  <2> USE ConstantsTyped DEF TypeOK, Stages, Methods, Events
  <2>1. ASSUME NEW c \in Clients, NEW p \in Pins, SetPin(c, p)
        PROVE  TypeOK'
    <3>1. credential' \in Pins \cup {NoPin} /\ overtaken' \subseteq Clients
      BY <2>1 DEF SetPin, Store
    <3>2. stage' \in [Clients -> Stages]
      <4>1. stage' = [stage EXCEPT ![c] = "report"]
        BY <2>1 DEF SetPin
      <4> QED
        BY <4>1
    <3>3. doing' \in [Clients -> Methods]
      <4>1. doing' = [doing EXCEPT ![c] = "set"]
        BY <2>1 DEF SetPin
      <4> QED
        BY <4>1
    <3> QED
      BY <2>1, <3>1, <3>2, <3>3 DEF SetPin
  <2>2. ASSUME NEW c \in Clients, NEW p \in Pins, Ask(c, "verify", p) \/ Ask(c, "disable", p)
        PROVE  TypeOK'
    <3>1. PICK method \in {"verify", "disable"} : Ask(c, method, p)
      BY <2>2
    <3>2. stage' = [stage EXCEPT ![c] = "count"]
      BY <3>1 DEF Ask
    <3>3. doing' = [doing EXCEPT ![c] = method]
      BY <3>1 DEF Ask
    <3>4. stage' \in [Clients -> Stages] /\ doing' \in [Clients -> Methods]
      BY <3>2, <3>3
    <3> QED
      BY <3>1, <3>4 DEF Ask
  <2>3. ASSUME NEW c \in Clients, CountFailures(c)
        PROVE  TypeOK'
    BY <2>3 DEF CountFailures, Go, Return
  <2>4. ASSUME NEW c \in Clients, FetchCredential(c)
        PROVE  TypeOK'
    BY <2>4 DEF FetchCredential, Return
  <2>5. ASSUME NEW c \in Clients, RecordAttempt(c)
        PROVE  TypeOK'
    <3>1. left' \in [Rows -> 0 .. Window]
      <4>1. CASE guess[c] = read[c] /\ UNCHANGED left
        BY <4>1
      <4>2. CASE Insert
        BY <4>2, InsertedRow
      <4> QED
        BY <2>5, <4>1, <4>2 DEF RecordAttempt
    <3>2. /\ stage' \in [Clients -> Stages]
          /\ doing' \in [Clients -> Methods]
          /\ guess' \in [Clients -> Pins \cup {NoPin}]
          /\ read' \in [Clients -> Pins \cup {NoPin}]
          /\ overtaken' \subseteq Clients
      BY <2>5 DEF RecordAttempt, Go, Return
    <3> QED
      BY <2>5, <3>1, <3>2 DEF RecordAttempt
  <2>6. ASSUME NEW c \in Clients, DeleteCredential(c)
        PROVE  TypeOK'
    BY <2>6 DEF DeleteCredential, Store, Go
  <2>7. ASSUME NEW c \in Clients, Report(c) \/ Fail(c)
        PROVE  TypeOK'
    BY <2>7 DEF Report, Fail, Return
  <2>8. CASE Tick
    BY <2>8 DEF Tick, call
  <2>9. CASE UNCHANGED vars
    BY <2>9 DEF vars, call
  <2> QED
    BY <2>1, <2>2, <2>3, <2>4, <2>5, <2>6, <2>7, <2>8, <2>9, StepCases
<1> QED
  BY <1>1, <1>2, PTL DEF Spec

-----------------------------------------------------------------------------
(* What is counted is finite.                                              *)
LEMMA CountsFinite ==
    /\ IsFiniteSet(Failed) /\ Cardinality(Failed) \in Nat
    /\ IsFiniteSet(Comparing) /\ Cardinality(Comparing) \in Nat
    /\ Cardinality(Comparing) <= Cardinality(Clients)
<1>1. Failed \in SUBSET Rows /\ Comparing \in SUBSET Clients
  BY DEF Failed, Comparing
<1> QED
  BY <1>1, RowsAssumption, ClientsAssumption, FS_Subset, FS_CardinalityType


(* The attempts of a window are bounded, whatever calls overlap.           *)
THEOREM FailuresAreBounded == Spec => []FailuresBounded
<1>1. Init => FailuresBounded
  <2>1. ASSUME Init
        PROVE  Failed = {} /\ Comparing = {}
    BY <2>1 DEF Init, Failed, Comparing
  <2> QED
    BY <2>1, ConstantsTyped, FS_EmptySet DEF FailuresBounded
<1>2. TypeOK /\ FailuresBounded /\ [Next]_vars => FailuresBounded'
  <2> SUFFICES ASSUME TypeOK, FailuresBounded, [Next]_vars
               PROVE  FailuresBounded'
    OBVIOUS
  <2>0. /\ IsFiniteSet(Failed) /\ Cardinality(Failed) \in Nat
        /\ IsFiniteSet(Comparing) /\ Cardinality(Comparing) \in Nat
        /\ IsFiniteSet(Comparing') /\ Cardinality(Comparing') \in Nat
        /\ Cardinality(Comparing') <= Cardinality(Clients)
        /\ Cardinality(Failed) + Cardinality(Comparing) < MaxFailures + Cardinality(Clients)
    <3>1. Comparing' \in SUBSET Clients
      BY DEF Comparing
    <3> QED
      BY <3>1, CountsFinite, ClientsAssumption, FS_Subset, FS_CardinalityType DEF FailuresBounded
  (* Fewer of either, and no more of the other.                            *)
  <2>fewer. ASSUME Failed' = Failed, Comparing' \subseteq Comparing
            PROVE  FailuresBounded'
    <3>1. Cardinality(Comparing') <= Cardinality(Comparing)
      BY <2>fewer, <2>0, FS_Subset
    <3> QED
      BY <2>fewer, <2>0, <3>1, ConstantsTyped DEF FailuresBounded
  <2>1. ASSUME NEW c \in Clients, NEW p \in Pins, SetPin(c, p)
        PROVE  FailuresBounded'
    <3>1. Failed' = Failed /\ Comparing' \subseteq Comparing
      BY <2>1 DEF SetPin, TypeOK, Failed, Comparing
    <3> QED
      BY <3>1, <2>fewer
  <2>2. ASSUME NEW c \in Clients, NEW p \in Pins, Ask(c, "verify", p) \/ Ask(c, "disable", p)
        PROVE  FailuresBounded'
    <3>1. Failed' = Failed /\ Comparing' \subseteq Comparing
      BY <2>2 DEF Ask, TypeOK, Failed, Comparing
    <3> QED
      BY <3>1, <2>fewer
  <2>3. ASSUME NEW c \in Clients, CountFailures(c)
        PROVE  FailuresBounded'
    <3>1. Failed' = Failed
      BY <2>3 DEF CountFailures, Failed
    <3>2. CASE Locked
      <4>1. Comparing' \subseteq Comparing
        BY <2>3, <3>2 DEF CountFailures, Return, TypeOK, Comparing
      <4> QED
        BY <3>1, <4>1, <2>fewer
    <3>3. CASE ~ Locked
      BY <3>1, <3>3, <2>0, ConstantsTyped DEF Locked, FailuresBounded
    <3> QED
      BY <3>2, <3>3
  <2>4. ASSUME NEW c \in Clients, FetchCredential(c)
        PROVE  FailuresBounded'
    <3>1. Failed' = Failed /\ Comparing' \subseteq Comparing
      BY <2>4 DEF FetchCredential, Return, TypeOK, Failed, Comparing
    <3> QED
      BY <3>1, <2>fewer
  <2>5. ASSUME NEW c \in Clients, RecordAttempt(c)
        PROVE  FailuresBounded'
    <3>1. Comparing' = Comparing \ {c} /\ c \in Comparing
      BY <2>5 DEF RecordAttempt, Go, Return, TypeOK, Comparing
    <3>2. Cardinality(Comparing') = Cardinality(Comparing) - 1
      BY <3>1, <2>0, FS_RemoveElement
    <3>3. CASE UNCHANGED left
      <4>1. Failed' = Failed
        BY <3>3 DEF Failed
      <4> QED
        BY <4>1, <3>1, <2>fewer
    <3>4. CASE Insert
      <4>1. PICK r \in Rows \ Failed : left' = [left EXCEPT ![r] = Window]
        BY <3>4, InsertedRow
      <4>2. Failed' = Failed \cup {r}
        BY <4>1, ConstantsTyped DEF Failed, TypeOK
      <4>3. Cardinality(Failed') = Cardinality(Failed) + 1
        BY <4>1, <4>2, <2>0, FS_AddElement
      <4> QED
        BY <4>3, <3>2, <2>0, ConstantsTyped DEF FailuresBounded
    <3> QED
      BY <2>5, <3>3, <3>4 DEF RecordAttempt
  <2>6. ASSUME NEW c \in Clients, DeleteCredential(c)
        PROVE  FailuresBounded'
    <3>1. Failed' = Failed /\ Comparing' \subseteq Comparing
      BY <2>6 DEF DeleteCredential, Go, TypeOK, Failed, Comparing
    <3> QED
      BY <3>1, <2>fewer
  <2>7. ASSUME NEW c \in Clients, Report(c) \/ Fail(c)
        PROVE  FailuresBounded'
    <3>1. Failed' = Failed /\ Comparing' \subseteq Comparing
      BY <2>7 DEF Report, Fail, Return, TypeOK, Failed, Comparing
    <3> QED
      BY <3>1, <2>fewer
  <2>8. CASE Tick
    <3>1. Comparing' = Comparing /\ Failed' \subseteq Failed
      BY <2>8 DEF Tick, call, TypeOK, Failed, Comparing
    <3>2. Cardinality(Failed') <= Cardinality(Failed) /\ Cardinality(Failed') \in Nat
      BY <3>1, <2>0, FS_Subset, FS_CardinalityType
    <3> QED
      BY <3>1, <3>2, <2>0, ConstantsTyped DEF FailuresBounded
  <2>9. CASE UNCHANGED vars
    <3>1. Failed' = Failed /\ Comparing' \subseteq Comparing
      BY <2>9 DEF vars, call, Failed, Comparing
    <3> QED
      BY <3>1, <2>fewer
  <2> QED
    BY <2>1, <2>2, <2>3, <2>4, <2>5, <2>6, <2>7, <2>8, <2>9, StepCases
<1> QED
  BY <1>1, <1>2, TypeCorrect, PTL DEF Spec

(* As many names as the bound allows are enough for the failed attempts of *)
(* a window: no attempt is ever held up for want of one.                   *)
THEOREM RowsSuffice ==
    ASSUME Cardinality(Rows) >= MaxFailures + Cardinality(Clients) - 1
    PROVE  Spec => [](\A c \in Clients : stage[c] = "record" => Failed # Rows)
<1>1. FailuresBounded => \A c \in Clients : stage[c] = "record" => Failed # Rows
  <2> SUFFICES ASSUME FailuresBounded, NEW c \in Clients, stage[c] = "record", Failed = Rows
               PROVE  FALSE
    OBVIOUS
  <2>1. Comparing # {}
    BY DEF Comparing
  <2>2. Cardinality(Comparing) # 0
    BY <2>1, CountsFinite, FS_EmptySet
  <2> QED
    BY <2>2, CountsFinite, ConstantsTyped DEF FailuresBounded
<1> QED
  BY <1>1, FailuresAreBounded, PTL

-----------------------------------------------------------------------------
(* A call past the check compares against the credential there is, unless  *)
(* that was replaced since, and only a right guess comes to the deletion.  *)
ReadsAreCurrent ==
    \A c \in Clients :
        /\ stage[c] \in {"record", "delete"} => read[c] = credential \/ c \in overtaken
        /\ stage[c] = "delete" => doing[c] = "disable" /\ guess[c] = read[c]

LEMMA ReadsStayCurrent == Spec => []ReadsAreCurrent
<1>1. Init => ReadsAreCurrent
  BY DEF Init, ReadsAreCurrent
<1>2. TypeOK /\ ReadsAreCurrent /\ [Next]_vars => ReadsAreCurrent'
  <2> SUFFICES ASSUME TypeOK, ReadsAreCurrent, [Next]_vars
               PROVE  ReadsAreCurrent'
    OBVIOUS
  <2> USE DEF TypeOK, ReadsAreCurrent
  <2>1. ASSUME NEW c \in Clients, NEW p \in Pins, SetPin(c, p)
        PROVE  ReadsAreCurrent'
    BY <2>1 DEF SetPin, Store
  <2>2. ASSUME NEW c \in Clients, NEW p \in Pins, Ask(c, "verify", p) \/ Ask(c, "disable", p)
        PROVE  ReadsAreCurrent'
    BY <2>2 DEF Ask
  <2>3. ASSUME NEW c \in Clients, CountFailures(c)
        PROVE  ReadsAreCurrent'
    BY <2>3 DEF CountFailures, Go, Return
  <2>4. ASSUME NEW c \in Clients, FetchCredential(c)
        PROVE  ReadsAreCurrent'
    BY <2>4 DEF FetchCredential, Return
  <2>5. ASSUME NEW c \in Clients, RecordAttempt(c)
        PROVE  ReadsAreCurrent'
    BY <2>5 DEF RecordAttempt, Go, Return
  <2>6. ASSUME NEW c \in Clients, DeleteCredential(c)
        PROVE  ReadsAreCurrent'
    BY <2>6 DEF DeleteCredential, Store, Go
  <2>7. ASSUME NEW c \in Clients, Report(c) \/ Fail(c)
        PROVE  ReadsAreCurrent'
    BY <2>7 DEF Report, Fail, Return
  <2>8. CASE Tick
    BY <2>8 DEF Tick, call
  <2>9. CASE UNCHANGED vars
    BY <2>9 DEF vars, call
  <2> QED
    BY <2>1, <2>2, <2>3, <2>4, <2>5, <2>6, <2>7, <2>8, <2>9, StepCases
<1> QED
  BY <1>1, <1>2, TypeCorrect, PTL DEF Spec

(* Only a call that knew the PIN, or one that has meanwhile been replaced, *)
(* removes the lock.                                                       *)
THEOREM RemovalsWereEarned == Spec => RemovalWasEarned
<1>1. TypeOK /\ ReadsAreCurrent /\ [Next]_vars =>
          (credential # NoPin /\ credential' = NoPin =>
              \E c \in Clients :
                  /\ stage[c] = "delete" /\ doing[c] = "disable"
                  /\ guess[c] = read[c]
                  /\ guess[c] = credential \/ c \in overtaken)
  <2> SUFFICES ASSUME ReadsAreCurrent, [Next]_vars, credential # NoPin, credential' = NoPin
               PROVE  \E c \in Clients :
                          /\ stage[c] = "delete" /\ doing[c] = "disable"
                          /\ guess[c] = read[c]
                          /\ guess[c] = credential \/ c \in overtaken
    OBVIOUS
  <2>1. ASSUME NEW c \in Clients, NEW p \in Pins, SetPin(c, p)
        PROVE  FALSE
    BY <2>1, ConstantsTyped DEF SetPin, Store
  <2>2. \E c \in Clients : DeleteCredential(c)
    BY <2>1, StepCases DEF Ask, CountFailures, FetchCredential, RecordAttempt, Report,
                           Fail, Tick, vars
  <2>3. PICK c \in Clients : DeleteCredential(c)
    BY <2>2
  <2> QED
    BY <2>3 DEF DeleteCredential, ReadsAreCurrent
<1> QED
  BY <1>1, TypeCorrect, ReadsStayCurrent, PTL DEF Spec, RemovalWasEarned

-----------------------------------------------------------------------------
(* While an account is locked and no earlier call is still comparing, its  *)
(* failures only run out: calls that are refused add nothing.              *)
THEOREM LockRunsDown ==
    Spec => [][Locked /\ Comparing = {} => Failed' \subseteq Failed /\ Comparing' = {}]_vars
<1>1. TypeOK /\ [Next]_vars =>
          (Locked /\ Comparing = {} => Failed' \subseteq Failed /\ Comparing' = {})
  <2> SUFFICES ASSUME TypeOK, [Next]_vars, Locked, Comparing = {}
               PROVE  Failed' \subseteq Failed /\ Comparing' = {}
    OBVIOUS
  <2> USE DEF TypeOK, Failed, Comparing
  <2>1. ASSUME NEW c \in Clients, NEW p \in Pins,
               SetPin(c, p) \/ Ask(c, "verify", p) \/ Ask(c, "disable", p)
        PROVE  Failed' \subseteq Failed /\ Comparing' = {}
    BY <2>1 DEF SetPin, Ask
  <2>2. ASSUME NEW c \in Clients, CountFailures(c)
        PROVE  Failed' \subseteq Failed /\ Comparing' = {}
    <3>1. Return(c) /\ UNCHANGED left
      BY <2>2 DEF CountFailures
    <3> QED
      BY <3>1 DEF Return
  <2>3. ASSUME NEW c \in Clients, FetchCredential(c) \/ RecordAttempt(c)
        PROVE  FALSE
    BY <2>3 DEF FetchCredential, RecordAttempt
  <2>4. ASSUME NEW c \in Clients, DeleteCredential(c) \/ Report(c) \/ Fail(c)
        PROVE  Failed' \subseteq Failed /\ Comparing' = {}
    BY <2>4 DEF DeleteCredential, Report, Fail, Go, Return
  <2>5. CASE Tick
    BY <2>5 DEF Tick, call
  <2>6. CASE UNCHANGED vars
    BY <2>6 DEF vars, call
  <2> QED
    BY <2>1, <2>2, <2>3, <2>4, <2>5, <2>6, StepCases
<1> QED
  BY <1>1, TypeCorrect, PTL DEF Spec
=============================================================================
