------------------------- MODULE RegistrationProofs -------------------------
(***************************************************************************)
(* What registration guarantees for every set of calls, challenges, names  *)
(* and numbers, and every size of the pool.                                *)
(***************************************************************************)
EXTENDS Registration, FiniteSetTheorems, TLAPS

(* Phone yields numbers.                                                   *)
LEMMA PhoneTyped == \A c \in Calls : Phone(c) \in Phones /\ ChallengeOf[c] \in Challenges
BY CallsAssumption, PhonesAssumption DEF Phone

(* The cases of a step, for the proofs that go through them.               *)
LEMMA StepCases ==
    ASSUME [Next]_vars
    PROVE  \/ \E h \in Challenges : Verify(h)
           \/ \E c \in Calls : Begin(c)
           \/ \E c \in Calls : Connect(c) \/ ConnectAgain(c)
           \/ \E c \in Calls : LockChallenge(c) \/ CheckPhone(c) \/ CheckName(c)
           \/ \E c \in Calls : InsertPhone(c) \/ InsertName(c)
           \/ \E c \in Calls : Commit(c)
           \/ \E c \in Calls : CreateSession(c)
           \/ \E c \in Calls : Timeout(c)
           \/ \E c \in Calls : Fail(c)
           \/ UNCHANGED vars
BY DEF Next, Advance

(* The control part of a step.                                             *)
LEMMA GoTyped ==
    ASSUME TypeOK, NEW c \in Calls, NEW s \in Stages, Go(c, s)
    PROVE  /\ stage' \in [Calls -> Stages] /\ outcome' \in [Calls -> Outcomes]
           /\ stage'[c] = s
           /\ \A d \in Calls \ {c} : stage'[d] = stage[d]
           /\ outcome' = outcome
BY DEF TypeOK, Go

LEMMA AnswerTyped ==
    ASSUME TypeOK, NEW c \in Calls, NEW o \in Outcomes, Answer(c, o)
    PROVE  /\ stage' \in [Calls -> Stages] /\ outcome' \in [Calls -> Outcomes]
           /\ stage'[c] = "answered" /\ outcome'[c] = o
           /\ \A d \in Calls \ {c} : stage'[d] = stage[d] /\ outcome'[d] = outcome[d]
BY DEF TypeOK, Answer, Stages

(* A call that has begun its transaction goes on or is refused.            *)
LEMMA ChecksGoOnOrRefuse ==
    ASSUME NEW c \in Calls,
           LockChallenge(c) \/ CheckPhone(c) \/ CheckName(c) \/ InsertPhone(c) \/ InsertName(c)
    PROVE  /\ stage[c] \in {"lock", "check phone", "check name", "insert phone", "insert name"}
           /\ UNCHANGED tables
           /\ \/ /\ UNCHANGED free
                 /\ \E s \in {"check phone", "check name", "insert phone", "insert name", "commit"} :
                        Go(c, s)
              \/ /\ free' = free + 1
                 /\ \E o \in Refusals \cup {"failed"} : Answer(c, o)
<1>1. CASE LockChallenge(c)
  BY <1>1 DEF LockChallenge, Refuse, Refusals, tables
<1>2. CASE CheckPhone(c)
  BY <1>2 DEF CheckPhone, Refuse, Refusals, tables
<1>3. CASE CheckName(c)
  BY <1>3 DEF CheckName, Refuse, Refusals, tables
<1>4. CASE InsertPhone(c)
  BY <1>4 DEF InsertPhone, Refuse, tables
<1>5. CASE InsertName(c)
  BY <1>5 DEF InsertName, Refuse, tables
<1> QED
  BY <1>1, <1>2, <1>3, <1>4, <1>5

(* Every variable keeps its type.                                          *)
THEOREM TypeCorrect == Spec => []TypeOK
<1>1. Init => TypeOK
  BY PoolAssumption DEF Init, TypeOK, Stages, Outcomes
<1>2. TypeOK /\ [Next]_vars => TypeOK'
  <2> SUFFICES ASSUME TypeOK, [Next]_vars
               PROVE  TypeOK'
    OBVIOUS
  <2>1. ASSUME NEW h \in Challenges, Verify(h)
        PROVE  TypeOK'
    BY <2>1 DEF Verify, TypeOK
  <2>2. ASSUME NEW c \in Calls, Begin(c) \/ Connect(c) \/ ConnectAgain(c)
        PROVE  TypeOK'
    <3>1. PICK s \in Stages : Go(c, s)
      BY <2>2 DEF Begin, Connect, ConnectAgain, Stages
    <3>4. free' \in Nat
      <4>1. CASE Begin(c)
        BY <4>1 DEF Begin, TypeOK
      <4>2. CASE Connect(c) \/ ConnectAgain(c)
        <5>1. free > 0 /\ free' = free - 1
          BY <4>2 DEF Connect, ConnectAgain
        <5> QED
          BY <5>1 DEF TypeOK
      <4> QED
        BY <2>2, <4>1, <4>2
    <3>2. UNCHANGED tables
      BY <2>2 DEF Begin, Connect, ConnectAgain, tables
    <3>3. stage' \in [Calls -> Stages] /\ outcome' \in [Calls -> Outcomes]
      BY <3>1, GoTyped
    <3> QED
      BY <3>4, <3>2, <3>3 DEF TypeOK, tables, Stages, Outcomes, Refusals
  <2>3. ASSUME NEW c \in Calls,
               LockChallenge(c) \/ CheckPhone(c) \/ CheckName(c) \/ InsertPhone(c) \/ InsertName(c)
        PROVE  TypeOK'
    <3>0. free' = free \/ free' = free + 1
      BY <2>3, ChecksGoOnOrRefuse
    <3>1. UNCHANGED tables
      BY <2>3, ChecksGoOnOrRefuse
    <3>2. (\E s \in Stages : Go(c, s)) \/ (\E o \in Outcomes : Answer(c, o))
      BY <2>3, ChecksGoOnOrRefuse DEF Stages, Outcomes
    <3>3. stage' \in [Calls -> Stages] /\ outcome' \in [Calls -> Outcomes]
      BY <3>2, GoTyped, AnswerTyped
    <3>4. free' \in Nat
      BY <3>0 DEF TypeOK
    <3> QED
      BY <3>4, <3>1, <3>3 DEF TypeOK, tables, Stages, Outcomes, Refusals
  <2>4. ASSUME NEW c \in Calls, Commit(c)
        PROVE  TypeOK'
    <3>0. free' = free \/ free' = free + 1
      BY <2>4 DEF Commit
    <3>1. accounts' \subseteq Calls /\ UNCHANGED <<verified, sessions>>
      BY <2>4 DEF Commit, TypeOK
    <3>2. (\E s \in Stages : Go(c, s)) \/ (\E o \in Outcomes : Answer(c, o))
      BY <2>4 DEF Commit, Stages, Outcomes
    <3>3. stage' \in [Calls -> Stages] /\ outcome' \in [Calls -> Outcomes]
      BY <3>2, GoTyped, AnswerTyped
    <3>4. free' \in Nat
      BY <3>0 DEF TypeOK
    <3> QED
      BY <3>4, <3>1, <3>3 DEF TypeOK, Stages, Outcomes, Refusals
  <2>5. ASSUME NEW c \in Calls, CreateSession(c) \/ Timeout(c) \/ Fail(c)
        PROVE  TypeOK'
    <3>1. free' = free \/ free' = free + 1 \/ free' = free + 2
      BY <2>5 DEF CreateSession, Timeout, Fail
    <3>2. sessions' \subseteq Calls /\ UNCHANGED <<verified, accounts>>
      BY <2>5 DEF CreateSession, Timeout, Fail, TypeOK, tables
    <3>3. PICK o \in Outcomes : Answer(c, o)
      BY <2>5 DEF CreateSession, Timeout, Fail, Outcomes
    <3>4. stage' \in [Calls -> Stages] /\ outcome' \in [Calls -> Outcomes]
      BY <3>3, AnswerTyped
    <3>5. free' \in Nat
      BY <3>1 DEF TypeOK
    <3> QED
      BY <3>2, <3>4, <3>5 DEF TypeOK, Stages, Outcomes, Refusals
  <2>6. CASE UNCHANGED vars
    BY <2>6 DEF vars, tables, TypeOK
  <2> QED
    BY <2>1, <2>2, <2>3, <2>4, <2>5, <2>6, StepCases
<1> QED
  BY <1>1, <1>2, PTL DEF Spec

-----------------------------------------------------------------------------
(* What the locks and the unique indexes keep: a transaction that is open  *)
(* past an insert is the only one, and there is no account, with its       *)
(* number, and likewise with its name; it saw its challenge verified.      *)
TransactionInv ==
    /\ \A c \in accounts : stage[c] \in {"connect again", "session", "answered"}
    /\ \A c \in Calls : stage[c] \in HoldsChallenge => ChallengeOf[c] \in verified
    /\ \A c \in Calls : stage[c] \in HoldsPhone =>
          /\ \A d \in accounts : Phone(d) # Phone(c)
          /\ \A d \in Calls : stage[d] \in HoldsPhone /\ Phone(d) = Phone(c) => c = d
    /\ \A c \in Calls : stage[c] \in HoldsName =>
          /\ \A d \in accounts : NameOf[d] # NameOf[c]
          /\ \A d \in Calls : stage[d] \in HoldsName /\ NameOf[d] = NameOf[c] => c = d
    /\ \A c \in Calls : outcome[c] # "none" => stage[c] = "answered"

RegistrationInv == TransactionInv /\ AccountsUnique /\ AnswersStand

(* A step that opens no transaction, commits nothing and answers nothing   *)
(* but a failure or a refusal keeps the invariant.                         *)
LEMMA QuietStep ==
    ASSUME TypeOK, RegistrationInv, NEW c \in Calls, UNCHANGED tables,
           \/ /\ stage[c] \in {"new", "connect", "lock", "check phone", "check name", "connect again"}
              /\ \E s \in {"connect", "lock", "check name", "insert phone", "session"} :
                    /\ Go(c, s)
                    /\ s \in {"check name", "insert phone"} => stage[c] \in HoldsChallenge
                    /\ s \in {"connect", "lock"} => c \notin accounts
           \/ /\ stage[c] # "answered"
              /\ \/ Answer(c, "failed")
                 \/ c \notin accounts /\ \E o \in Refusals : Answer(c, o)
    PROVE  RegistrationInv'
<1> USE DEF RegistrationInv, TransactionInv, AccountsUnique, AnswersStand, tables, Phone,
            HoldsChallenge, HoldsPhone, HoldsName
<1>1. ASSUME NEW s \in {"connect", "lock", "check name", "insert phone", "session"}, Go(c, s),
             stage[c] \in {"new", "connect", "lock", "check phone", "check name", "connect again"},
             s \in {"check name", "insert phone"} => stage[c] \in HoldsChallenge,
             s \in {"connect", "lock"} => c \notin accounts
      PROVE  RegistrationInv'
  BY <1>1 DEF Go, TypeOK
<1>2. ASSUME NEW o \in Refusals \cup {"failed"}, Answer(c, o), stage[c] # "answered",
             o = "failed" \/ c \notin accounts
      PROVE  RegistrationInv'
  BY <1>2 DEF Answer, TypeOK, Refusals
<1> QED
  BY <1>1, <1>2

(* It holds in every reachable state.                                      *)
THEOREM RegistrationInvariant == Spec => []RegistrationInv
<1>1. Init => RegistrationInv
  BY DEF Init, RegistrationInv, TransactionInv, AccountsUnique, AnswersStand,
         HoldsChallenge, HoldsPhone, HoldsName, Refusals
<1>2. TypeOK /\ RegistrationInv /\ [Next]_vars => RegistrationInv'
  <2> SUFFICES ASSUME TypeOK, RegistrationInv, [Next]_vars
               PROVE  RegistrationInv'
    OBVIOUS
  <2>1. ASSUME NEW h \in Challenges, Verify(h)
        PROVE  RegistrationInv'
    BY <2>1 DEF Verify, RegistrationInv, TransactionInv, AccountsUnique, AnswersStand, Phone
  <2>2. ASSUME NEW c \in Calls, Begin(c) \/ Connect(c) \/ ConnectAgain(c)
        PROVE  RegistrationInv'
    <3>1. /\ UNCHANGED tables
          /\ stage[c] \in {"new", "connect", "connect again"}
          /\ \E s \in {"connect", "lock", "session"} :
                Go(c, s) /\ (s \in {"connect", "lock"} => stage[c] # "connect again")
      BY <2>2 DEF Begin, Connect, ConnectAgain, tables
    <3>2. stage[c] # "connect again" => c \notin accounts
      BY <3>1 DEF RegistrationInv, TransactionInv
    <3> QED
      BY <3>1, <3>2, QuietStep
  <2>3. ASSUME NEW c \in Calls, LockChallenge(c)
        PROVE  RegistrationInv'
    <3>1. CASE ChallengeOf[c] \in verified
      <4>1. Go(c, "check phone") /\ UNCHANGED tables
        BY <2>3, <3>1 DEF LockChallenge, tables
      <4> QED
        BY <3>1, <4>1, <2>3
           DEF LockChallenge, Go, tables, RegistrationInv, TransactionInv, AccountsUnique,
               AnswersStand, Phone, HoldsChallenge, HoldsPhone, HoldsName, TypeOK
    <3>2. CASE ChallengeOf[c] \notin verified
      <4>1. Answer(c, "unverified") /\ UNCHANGED tables /\ stage[c] = "lock"
        BY <2>3, <3>2 DEF LockChallenge, Refuse
      <4>2. c \notin accounts
        BY <4>1 DEF RegistrationInv, TransactionInv
      <4> QED
        BY <4>1, <4>2, QuietStep DEF Refusals
    <3> QED
      BY <3>1, <3>2
  <2>4. ASSUME NEW c \in Calls, CheckPhone(c) \/ CheckName(c)
        PROVE  RegistrationInv'
    <3>1. UNCHANGED tables /\ stage[c] \in {"check phone", "check name"}
      BY <2>4 DEF CheckPhone, CheckName, Refuse, tables
    <3>2. \/ \E s \in {"check name", "insert phone"} : Go(c, s)
          \/ \E o \in Refusals : Answer(c, o)
      BY <2>4 DEF CheckPhone, CheckName, Refuse, Refusals
    <3>3. c \notin accounts /\ stage[c] \in HoldsChallenge
      BY <3>1 DEF RegistrationInv, TransactionInv, HoldsChallenge
    <3> QED
      BY <3>1, <3>2, <3>3, QuietStep
  <2>5. ASSUME NEW c \in Calls, InsertPhone(c)
        PROVE  RegistrationInv'
    <3>1. CASE \E d \in accounts : Phone(d) = Phone(c)
      BY <2>5, <3>1, QuietStep DEF InsertPhone, Refuse
    <3>2. CASE ~ \E d \in accounts : Phone(d) = Phone(c)
      <4>1. Go(c, "insert name") /\ UNCHANGED tables /\ stage[c] = "insert phone"
        BY <2>5, <3>2 DEF InsertPhone, tables
      <4>2. \A d \in Calls : Phone(d) = Phone(c) => stage[d] \notin HoldsPhone
        BY <2>5 DEF InsertPhone
      <4> QED
        BY <3>2, <4>1, <4>2
           DEF Go, tables, RegistrationInv, TransactionInv, AccountsUnique, AnswersStand, Phone,
               HoldsChallenge, HoldsPhone, HoldsName, TypeOK
    <3> QED
      BY <3>1, <3>2
  <2>6. ASSUME NEW c \in Calls, InsertName(c)
        PROVE  RegistrationInv'
    <3>1. CASE \E d \in accounts : NameOf[d] = NameOf[c]
      BY <2>6, <3>1, QuietStep DEF InsertName, Refuse
    <3>2. CASE ~ \E d \in accounts : NameOf[d] = NameOf[c]
      <4>1. Go(c, "commit") /\ UNCHANGED tables /\ stage[c] = "insert name"
        BY <2>6, <3>2 DEF InsertName, tables
      <4>2. \A d \in Calls : NameOf[d] = NameOf[c] => stage[d] \notin HoldsName
        BY <2>6 DEF InsertName
      <4> QED
        BY <3>2, <4>1, <4>2
           DEF Go, tables, RegistrationInv, TransactionInv, AccountsUnique, AnswersStand, Phone,
               HoldsChallenge, HoldsPhone, HoldsName, TypeOK
    <3> QED
      BY <3>1, <3>2
  <2>7. ASSUME NEW c \in Calls, Commit(c)
        PROVE  RegistrationInv'
    <3>1. /\ stage[c] = "commit" /\ accounts' = accounts \cup {c}
          /\ UNCHANGED <<verified, sessions>>
          /\ Go(c, "connect again") \/ Answer(c, "failed")
      BY <2>7 DEF Commit
    <3>2. /\ \A d \in accounts : Phone(d) # Phone(c) /\ NameOf[d] # NameOf[c]
          /\ \A d \in Calls \ {c} : stage[d] \in HoldsPhone => Phone(d) # Phone(c)
          /\ \A d \in Calls \ {c} : stage[d] \in HoldsName => NameOf[d] # NameOf[c]
          /\ ChallengeOf[c] \in verified
          /\ outcome[c] = "none"
      BY <3>1 DEF RegistrationInv, TransactionInv, HoldsChallenge, HoldsPhone, HoldsName, TypeOK
    <3>3. /\ stage'[c] \in {"connect again", "answered"}
          /\ \A d \in Calls \ {c} : stage'[d] = stage[d] /\ outcome'[d] = outcome[d]
          /\ outcome'[c] \in {"none", "failed"}
          /\ outcome'[c] # "none" => stage'[c] = "answered"
      <4>1. CASE Go(c, "connect again")
        BY <3>2, <4>1 DEF Go, TypeOK
      <4>2. CASE Answer(c, "failed")
        BY <4>2 DEF Answer, TypeOK
      <4> QED
        BY <3>1, <4>1, <4>2
    <3>4. TransactionInv'
      <4>1. \A d \in accounts' : stage'[d] \in {"connect again", "session", "answered"}
        BY <3>1, <3>3 DEF RegistrationInv, TransactionInv, TypeOK
      <4>2. \A d \in Calls : stage'[d] \in HoldsChallenge => ChallengeOf[d] \in verified
        BY <3>3 DEF RegistrationInv, TransactionInv, HoldsChallenge
      <4>3. \A d \in Calls : stage'[d] \in HoldsPhone =>
                /\ \A e \in accounts' : Phone(e) # Phone(d)
                /\ \A e \in Calls : stage'[e] \in HoldsPhone /\ Phone(e) = Phone(d) => d = e
        BY <3>1, <3>2, <3>3 DEF RegistrationInv, TransactionInv, HoldsPhone
      <4>4. \A d \in Calls : stage'[d] \in HoldsName =>
                /\ \A e \in accounts' : NameOf[e] # NameOf[d]
                /\ \A e \in Calls : stage'[e] \in HoldsName /\ NameOf[e] = NameOf[d] => d = e
        BY <3>1, <3>2, <3>3 DEF RegistrationInv, TransactionInv, HoldsName
      <4>5. \A d \in Calls : outcome'[d] # "none" => stage'[d] = "answered"
        BY <3>3 DEF RegistrationInv, TransactionInv
      <4> QED
        BY <3>1, <4>1, <4>2, <4>3, <4>4, <4>5
           DEF TransactionInv, Phone, HoldsChallenge, HoldsPhone, HoldsName
    <3>5. AccountsUnique'
      BY <3>1, <3>2 DEF RegistrationInv, AccountsUnique, Phone
    <3>6. AnswersStand'
      BY <3>1, <3>2, <3>3 DEF RegistrationInv, AnswersStand, Refusals, TypeOK
    <3> QED
      BY <3>4, <3>5, <3>6 DEF RegistrationInv
  <2>8. ASSUME NEW c \in Calls, CreateSession(c)
        PROVE  RegistrationInv'
    <3>1. /\ stage[c] = "session" /\ sessions' = sessions \cup {c}
          /\ UNCHANGED <<verified, accounts>>
          /\ Answer(c, "ok") \/ Answer(c, "failed")
      BY <2>8 DEF CreateSession
    <3>2. /\ stage'[c] = "answered" /\ outcome'[c] \in {"ok", "failed"}
          /\ \A d \in Calls \ {c} : stage'[d] = stage[d] /\ outcome'[d] = outcome[d]
      BY <3>1 DEF Answer, TypeOK
    <3>3. TransactionInv'
      BY <3>1, <3>2
         DEF RegistrationInv, TransactionInv, Phone, HoldsChallenge, HoldsPhone, HoldsName, TypeOK
    <3>4. AccountsUnique'
      BY <3>1 DEF RegistrationInv, AccountsUnique, Phone
    <3>5. AnswersStand'
      BY <3>1, <3>2 DEF RegistrationInv, AnswersStand, Refusals, TypeOK
    <3> QED
      BY <3>3, <3>4, <3>5 DEF RegistrationInv
  <2>9. ASSUME NEW c \in Calls, Timeout(c) \/ Fail(c)
        PROVE  RegistrationInv'
    <3>1. UNCHANGED tables /\ Answer(c, "failed") /\ stage[c] # "answered"
      BY <2>9 DEF Timeout, Fail, HaveFirst
    <3> QED
      BY <3>1, QuietStep
  <2>10. CASE UNCHANGED vars
    BY <2>10 DEF vars, tables, RegistrationInv, TransactionInv, AccountsUnique, AnswersStand, Phone
  <2> QED
    BY <2>1, <2>2, <2>3, <2>4, <2>5, <2>6, <2>7, <2>8, <2>9, <2>10, StepCases
<1> QED
  BY <1>1, <1>2, TypeCorrect, PTL DEF Spec

(* No number and no name is registered twice.                              *)
THEOREM AccountsAreUnique == Spec => []AccountsUnique
<1>1. RegistrationInv => AccountsUnique
  BY DEF RegistrationInv
<1> QED
  BY <1>1, RegistrationInvariant, PTL

(* What a call is answered agrees with what it has stored.                 *)
THEOREM AnswersAreTrue == Spec => []AnswersStand
<1>1. RegistrationInv => AnswersStand
  BY DEF RegistrationInv
<1> QED
  BY <1>1, RegistrationInvariant, PTL

-----------------------------------------------------------------------------
(* A refusal names a reason that is in the tables, for good: accounts are  *)
(* never withdrawn.                                                        *)
THEOREM RefusalsHaveReasons == Spec => []RefusedForAReason
<1>1. Init => RefusedForAReason
  BY DEF Init, RefusedForAReason
<1>2. TypeOK /\ RefusedForAReason /\ [Next]_vars => RefusedForAReason'
  <2> SUFFICES ASSUME TypeOK, RefusedForAReason, [Next]_vars
               PROVE  RefusedForAReason'
    OBVIOUS
  <2>1. ASSUME NEW c \in Calls, CheckPhone(c)
        PROVE  RefusedForAReason'
    BY <2>1 DEF CheckPhone, Refuse, Answer, Go, tables, RefusedForAReason, Phone, TypeOK
  <2>2. ASSUME NEW c \in Calls, CheckName(c)
        PROVE  RefusedForAReason'
    BY <2>2 DEF CheckName, Refuse, Answer, Go, tables, RefusedForAReason, Phone, TypeOK
  <2>3. ASSUME accounts \subseteq accounts',
               \/ UNCHANGED outcome
               \/ \E c \in Calls, o \in {"unverified", "failed", "ok"} : Answer(c, o)
        PROVE  RefusedForAReason'
    BY <2>3 DEF Answer, RefusedForAReason, Phone, TypeOK
  <2>4. ASSUME NEW c \in Calls, LockChallenge(c) \/ InsertPhone(c) \/ InsertName(c)
        PROVE  RefusedForAReason'
    <3>1. accounts' = accounts
      BY <2>4 DEF LockChallenge, InsertPhone, InsertName, Refuse, tables
    <3>2. UNCHANGED outcome \/ \E o \in {"unverified", "failed", "ok"} : Answer(c, o)
      BY <2>4 DEF LockChallenge, InsertPhone, InsertName, Refuse, Go
    <3> QED
      BY <2>3, <3>1, <3>2
  <2>5. ASSUME NEW c \in Calls,
               \/ Begin(c) \/ Connect(c) \/ ConnectAgain(c) \/ Commit(c)
               \/ CreateSession(c) \/ Timeout(c) \/ Fail(c)
        PROVE  RefusedForAReason'
    <3>1. accounts \subseteq accounts'
      BY <2>5 DEF Begin, Connect, ConnectAgain, Commit, CreateSession, Timeout, Fail, tables
    <3>2. UNCHANGED outcome \/ \E o \in {"unverified", "failed", "ok"} : Answer(c, o)
      BY <2>5 DEF Begin, Connect, ConnectAgain, Commit, CreateSession, Timeout, Fail, Go
    <3> QED
      BY <2>3, <3>1, <3>2
  <2>6. CASE (\E h \in Challenges : Verify(h)) \/ UNCHANGED vars
    BY <2>3, <2>6 DEF Verify, vars, tables
  <2> QED
    BY <2>1, <2>2, <2>4, <2>5, <2>6, StepCases
<1> QED
  BY <1>1, <1>2, TypeCorrect, PTL DEF Spec

-----------------------------------------------------------------------------
(* The callers that hold connections are finitely many.                    *)
LEMMA HoldersFinite ==
    /\ IsFiniteSet(HaveFirst) /\ Cardinality(HaveFirst) \in Nat
    /\ IsFiniteSet(HaveSecond) /\ Cardinality(HaveSecond) \in Nat
<1>1. HaveFirst \in SUBSET Calls /\ HaveSecond \in SUBSET Calls
  BY DEF HaveFirst, HaveSecond
<1> QED
  BY <1>1, CallsAssumption, FS_Subset, FS_CardinalityType

(* Adding a member, and removing a stranger, change nothing.               *)
LEMMA AlreadySo ==
    ASSUME NEW S, NEW x
    PROVE  (x \in S => S \cup {x} = S) /\ (x \notin S => S \ {x} = S)
OBVIOUS

(* A step of one call moves no connection of another; what it takes and    *)
(* gives back shows in the two sets.                                       *)
LEMMA OneCallMoves ==
    ASSUME TypeOK, NEW c \in Calls, stage' \in [Calls -> Stages],
           \A d \in Calls \ {c} : stage'[d] = stage[d]
    PROVE  /\ stage'[c] \notin {"new", "connect", "answered"} => HaveFirst' = HaveFirst \cup {c}
           /\ stage'[c] \in {"new", "connect", "answered"} => HaveFirst' = HaveFirst \ {c}
           /\ stage'[c] = "session" => HaveSecond' = HaveSecond \cup {c}
           /\ stage'[c] # "session" => HaveSecond' = HaveSecond \ {c}
BY DEF HaveFirst, HaveSecond, TypeOK

(* Connections are neither lost nor made.                                  *)
THEOREM ConnectionsAreConserved == Spec => []ConnectionsConserved
<1>1. Init => ConnectionsConserved
  <2> SUFFICES ASSUME Init
               PROVE  ConnectionsConserved
    OBVIOUS
  <2>1. HaveFirst = {} /\ HaveSecond = {}
    BY DEF Init, HaveFirst, HaveSecond
  <2>2. Cardinality(HaveFirst) = 0 /\ Cardinality(HaveSecond) = 0
    BY <2>1, FS_EmptySet
  <2> QED
    BY <2>2, PoolAssumption DEF Init, ConnectionsConserved
<1>2. TypeOK /\ ConnectionsConserved /\ [Next]_vars => ConnectionsConserved'
  <2> SUFFICES ASSUME TypeOK, ConnectionsConserved, [Next]_vars
               PROVE  ConnectionsConserved'
    OBVIOUS
  <2>1. ASSUME UNCHANGED free, HaveFirst' = HaveFirst, HaveSecond' = HaveSecond
        PROVE  ConnectionsConserved'
    BY <2>1 DEF ConnectionsConserved
  <2>2. ASSUME NEW c \in Calls, free' = free - 1, c \notin HaveFirst,
               HaveFirst' = HaveFirst \cup {c}, HaveSecond' = HaveSecond
        PROVE  ConnectionsConserved'
    <3>1. Cardinality(HaveFirst') = Cardinality(HaveFirst) + 1
      BY <2>2, HoldersFinite, FS_AddElement
    <3> QED
      BY <2>2, <3>1, HoldersFinite, PoolAssumption DEF ConnectionsConserved, TypeOK
  <2>3. ASSUME NEW c \in Calls, free' = free - 1, c \notin HaveSecond,
               HaveSecond' = HaveSecond \cup {c}, HaveFirst' = HaveFirst
        PROVE  ConnectionsConserved'
    <3>1. Cardinality(HaveSecond') = Cardinality(HaveSecond) + 1
      BY <2>3, HoldersFinite, FS_AddElement
    <3> QED
      BY <2>3, <3>1, HoldersFinite, PoolAssumption DEF ConnectionsConserved, TypeOK
  <2>4. ASSUME NEW c \in Calls, free' = free + 1, c \in HaveFirst,
               HaveFirst' = HaveFirst \ {c}, HaveSecond' = HaveSecond
        PROVE  ConnectionsConserved'
    <3>1. Cardinality(HaveFirst') = Cardinality(HaveFirst) - 1
      BY <2>4, HoldersFinite, FS_RemoveElement
    <3> QED
      BY <2>4, <3>1, HoldersFinite, PoolAssumption DEF ConnectionsConserved, TypeOK
  <2>5. ASSUME NEW c \in Calls, free' = free + 2, c \in HaveFirst, c \in HaveSecond,
               HaveFirst' = HaveFirst \ {c}, HaveSecond' = HaveSecond \ {c}
        PROVE  ConnectionsConserved'
    <3>1. /\ Cardinality(HaveFirst') = Cardinality(HaveFirst) - 1
          /\ Cardinality(HaveSecond') = Cardinality(HaveSecond) - 1
      BY <2>5, HoldersFinite, FS_RemoveElement
    <3> QED
      BY <2>5, <3>1, HoldersFinite, PoolAssumption DEF ConnectionsConserved, TypeOK
  <2>6. CASE (\E h \in Challenges : Verify(h)) \/ UNCHANGED vars
    BY <2>1, <2>6 DEF Verify, vars, HaveFirst, HaveSecond
  <2>7. ASSUME NEW c \in Calls, Begin(c)
        PROVE  ConnectionsConserved'
    <3>1. stage[c] = "new" /\ stage'[c] = "connect" /\ UNCHANGED free
      BY <2>7, GoTyped DEF Begin, Stages
    <3>2. /\ stage' \in [Calls -> Stages]
          /\ \A d \in Calls \ {c} : stage'[d] = stage[d]
      BY <2>7, GoTyped DEF Begin, Stages
    <3>3. c \notin HaveFirst /\ c \notin HaveSecond
      BY <3>1 DEF HaveFirst, HaveSecond
    <3> QED
      BY <2>1, <3>1, <3>2, <3>3, OneCallMoves, AlreadySo
  <2>8. ASSUME NEW c \in Calls, Connect(c)
        PROVE  ConnectionsConserved'
    <3>1. stage[c] = "connect" /\ stage'[c] = "lock" /\ free' = free - 1
      BY <2>8, GoTyped DEF Connect, Stages
    <3>2. /\ stage' \in [Calls -> Stages]
          /\ \A d \in Calls \ {c} : stage'[d] = stage[d]
      BY <2>8, GoTyped DEF Connect, Stages
    <3>3. c \notin HaveFirst /\ c \notin HaveSecond
      BY <3>1 DEF HaveFirst, HaveSecond
    <3> QED
      BY <2>2, <3>1, <3>2, <3>3, OneCallMoves, AlreadySo
  <2>9. ASSUME NEW c \in Calls, ConnectAgain(c)
        PROVE  ConnectionsConserved'
    <3>1. stage[c] = "connect again" /\ stage'[c] = "session" /\ free' = free - 1
      BY <2>9, GoTyped DEF ConnectAgain, Stages
    <3>2. /\ stage' \in [Calls -> Stages]
          /\ \A d \in Calls \ {c} : stage'[d] = stage[d]
      BY <2>9, GoTyped DEF ConnectAgain, Stages
    <3>3. c \in HaveFirst /\ c \notin HaveSecond
      BY <3>1 DEF HaveFirst, HaveSecond
    <3> QED
      BY <2>3, <3>1, <3>2, <3>3, OneCallMoves, AlreadySo
  <2>10. ASSUME NEW c \in Calls,
                LockChallenge(c) \/ CheckPhone(c) \/ CheckName(c) \/ InsertPhone(c) \/ InsertName(c)
         PROVE  ConnectionsConserved'
    <3>1. c \in HaveFirst /\ c \notin HaveSecond
      BY <2>10, ChecksGoOnOrRefuse DEF HaveFirst, HaveSecond
    <3>2. CASE \E s \in {"check phone", "check name", "insert phone", "insert name", "commit"} :
                   Go(c, s) /\ UNCHANGED free
      <4>1. PICK s \in {"check phone", "check name", "insert phone", "insert name", "commit"} :
                Go(c, s) /\ UNCHANGED free
        BY <3>2
      <4>2. /\ stage' \in [Calls -> Stages] /\ stage'[c] = s
            /\ \A d \in Calls \ {c} : stage'[d] = stage[d]
        BY <4>1, GoTyped DEF Stages
      <4>3. HaveFirst' = HaveFirst \cup {c} /\ HaveSecond' = HaveSecond \ {c}
        BY <4>2, OneCallMoves
      <4>4. HaveFirst' = HaveFirst /\ HaveSecond' = HaveSecond
        BY <3>1, <4>3, AlreadySo
      <4> QED
        BY <2>1, <4>1, <4>4
    <3>3. CASE \E o \in Outcomes : Answer(c, o) /\ free' = free + 1
      BY <2>4, <3>1, <3>3, AnswerTyped, OneCallMoves, AlreadySo
    <3> QED
      BY <2>10, <3>2, <3>3, ChecksGoOnOrRefuse DEF Outcomes
  <2>11. ASSUME NEW c \in Calls, Commit(c)
         PROVE  ConnectionsConserved'
    <3>1. c \in HaveFirst /\ c \notin HaveSecond
      BY <2>11 DEF Commit, HaveFirst, HaveSecond
    <3>2. CASE Go(c, "connect again") /\ UNCHANGED free
      <4>1. /\ stage' \in [Calls -> Stages] /\ stage'[c] = "connect again"
            /\ \A d \in Calls \ {c} : stage'[d] = stage[d]
        BY <3>2, GoTyped DEF Stages
      <4>2. HaveFirst' = HaveFirst \cup {c} /\ HaveSecond' = HaveSecond \ {c}
        BY <4>1, OneCallMoves
      <4>3. HaveFirst' = HaveFirst /\ HaveSecond' = HaveSecond
        BY <3>1, <4>2, AlreadySo
      <4> QED
        BY <2>1, <3>2, <4>3
    <3>3. CASE Answer(c, "failed") /\ free' = free + 1
      BY <2>4, <3>1, <3>3, AnswerTyped, OneCallMoves, AlreadySo DEF Outcomes
    <3> QED
      BY <2>11, <3>2, <3>3 DEF Commit
  <2>12. ASSUME NEW c \in Calls, CreateSession(c)
         PROVE  ConnectionsConserved'
    <3>1. c \in HaveFirst /\ c \in HaveSecond /\ free' = free + 2
      BY <2>12 DEF CreateSession, HaveFirst, HaveSecond
    <3>2. \E o \in Outcomes : Answer(c, o)
      BY <2>12 DEF CreateSession, Outcomes
    <3> QED
      BY <2>5, <3>1, <3>2, AnswerTyped, OneCallMoves, AlreadySo
  <2>13. ASSUME NEW c \in Calls, Timeout(c)
         PROVE  ConnectionsConserved'
    <3>1. /\ stage' \in [Calls -> Stages] /\ stage'[c] = "answered"
          /\ \A d \in Calls \ {c} : stage'[d] = stage[d]
      BY <2>13, AnswerTyped DEF Timeout, Outcomes
    <3>2. CASE stage[c] = "connect" /\ UNCHANGED free
      <4>1. c \notin HaveFirst /\ c \notin HaveSecond
        BY <3>2 DEF HaveFirst, HaveSecond
      <4> QED
        BY <2>1, <3>1, <3>2, <4>1, OneCallMoves, AlreadySo
    <3>3. CASE stage[c] = "connect again" /\ free' = free + 1
      <4>1. c \in HaveFirst /\ c \notin HaveSecond
        BY <3>3 DEF HaveFirst, HaveSecond
      <4>2. HaveFirst' = HaveFirst \ {c} /\ HaveSecond' = HaveSecond \ {c}
        BY <3>1, OneCallMoves
      <4>3. HaveSecond' = HaveSecond
        BY <4>1, <4>2, AlreadySo
      <4> QED
        BY <2>4, <3>3, <4>1, <4>2, <4>3
    <3> QED
      BY <2>13, <3>2, <3>3 DEF Timeout
  <2>14. ASSUME NEW c \in Calls, Fail(c)
         PROVE  ConnectionsConserved'
    <3>1. /\ stage' \in [Calls -> Stages] /\ stage'[c] = "answered"
          /\ \A d \in Calls \ {c} : stage'[d] = stage[d]
      BY <2>14, AnswerTyped DEF Fail, Outcomes
    <3>2. CASE c \in HaveSecond
      <4>1. c \in HaveFirst /\ free' = free + 2
        BY <2>14, <3>2 DEF Fail
      <4> QED
        BY <2>5, <3>1, <3>2, <4>1, OneCallMoves, AlreadySo
    <3>3. CASE c \notin HaveSecond
      <4>1. c \in HaveFirst /\ free' = free + 1
        BY <2>14, <3>3 DEF Fail
      <4> QED
        BY <2>4, <3>1, <3>3, <4>1, OneCallMoves, AlreadySo
    <3> QED
      BY <3>2, <3>3
  <2> QED
    BY <2>6, <2>7, <2>8, <2>9, <2>10, <2>11, <2>12, <2>13, <2>14, StepCases
<1> QED
  BY <1>1, <1>2, TypeCorrect, PTL DEF Spec

-----------------------------------------------------------------------------
(* The guard of the steps that Advance(c) is made of, and of the timer.    *)
CanAdvance(c) ==
    \/ stage[c] \in {"connect", "connect again"} /\ free > 0
    \/ /\ stage[c] = "lock"
       /\ \A d \in Calls : ChallengeOf[d] = ChallengeOf[c] => stage[d] \notin HoldsChallenge
    \/ stage[c] \in {"check phone", "check name", "commit", "session"}
    \/ /\ stage[c] = "insert phone"
       /\ \A d \in Calls : Phone(d) = Phone(c) => stage[d] \notin HoldsPhone
    \/ /\ stage[c] = "insert name"
       /\ \A d \in Calls : NameOf[d] = NameOf[c] => stage[d] \notin HoldsName

CanTimeOut(c) == stage[c] \in {"connect", "connect again"}

UnderWay(c) == stage[c] \notin {"new", "answered"}

(* Only connections can run out: calls that are not in want of one are not *)
(* stopped by each other's locks and unique indexes.                       *)
OneCanAdvance == (\E c \in Calls : UnderWay(c)) => \E c \in Calls : CanAdvance(c)
OneGoesOn ==
    (\E c \in Calls : UnderWay(c)) => \E c \in Calls : CanAdvance(c) \/ CanTimeOut(c)

(* If none can advance, all that are under way want a connection.          *)
LEMMA LocksAreOrdered ==
    ASSUME TypeOK, NEW c \in Calls, UnderWay(c), \A d \in Calls : ~ CanAdvance(d)
    PROVE  \A d \in Calls : UnderWay(d) => CanTimeOut(d)
<1> USE DEF CanAdvance
<1>1. \A d \in Calls : stage[d] \notin HoldsName
  BY DEF HoldsName
<1>2. \A d \in Calls : stage[d] # "insert name"
  BY <1>1
<1>3. \A d \in Calls : stage[d] \notin HoldsPhone
  BY <1>2 DEF HoldsPhone
<1>4. \A d \in Calls : stage[d] # "insert phone"
  BY <1>3
<1>5. \A d \in Calls : stage[d] \notin HoldsChallenge
  BY <1>2, <1>4 DEF HoldsChallenge
<1>6. \A d \in Calls : stage[d] \notin {"lock", "insert phone", "insert name",
                                       "check phone", "check name", "commit", "session"}
  BY <1>2, <1>4, <1>5
<1> QED
  BY <1>6 DEF TypeOK, Stages, UnderWay, CanTimeOut

(* Somebody can always go on, if need be because a wait for a connection   *)
(* runs out.                                                               *)
THEOREM NoStandstill == Spec => []OneGoesOn
<1>1. TypeOK => OneGoesOn
  BY LocksAreOrdered DEF OneGoesOn
<1> QED
  BY <1>1, TypeCorrect, PTL

(* A pool with one connection more than there are calls needs no timer: of *)
(* the calls that hold their first one, somebody always gets a second.     *)
THEOREM LargePoolNeedsNoTimer ==
    ASSUME Cardinality(Calls) < PoolSize
    PROVE  Spec => []OneCanAdvance
<1>1. TypeOK /\ ConnectionsConserved => OneCanAdvance
  <2> SUFFICES ASSUME TypeOK, ConnectionsConserved,
                      NEW c \in Calls, UnderWay(c), \A d \in Calls : ~ CanAdvance(d)
               PROVE  FALSE
    BY DEF OneCanAdvance
  <2>0. CanTimeOut(c) /\ ~ CanAdvance(c)
    BY LocksAreOrdered
  <2>a. ~ (free > 0)
    BY <2>0, Zenon DEF CanTimeOut, CanAdvance
  <2>1. free = 0
    BY <2>a DEF TypeOK
  <2>2. HaveSecond = {}
    BY DEF HaveSecond, CanAdvance
  <2>3. Cardinality(HaveSecond) = 0
    BY <2>2, FS_EmptySet
  <2>4. Cardinality(HaveFirst) <= Cardinality(Calls) /\ Cardinality(Calls) \in Nat
    <3>1. HaveFirst \in SUBSET Calls
      BY DEF HaveFirst
    <3> QED
      BY <3>1, CallsAssumption, FS_Subset, FS_CardinalityType
  <2> QED
    BY <2>1, <2>3, <2>4, HoldersFinite, PoolAssumption DEF ConnectionsConserved
<1> QED
  BY <1>1, TypeCorrect, ConnectionsAreConserved, PTL

(* The stages in the order of the code.                                    *)
Ladder == <<"new", "connect", "lock", "check phone", "check name", "insert phone",
            "insert name", "commit", "connect again", "session", "answered">>

Forward(s, t) == \E i, j \in 1 .. 11 : i < j /\ Ladder[i] = s /\ Ladder[j] = t

(* From stage to stage, and from each to the answer, is forward.           *)
LEMMA Forwards ==
    /\ Forward("new", "connect") /\ Forward("connect", "lock")
    /\ Forward("lock", "check phone") /\ Forward("check phone", "check name")
    /\ Forward("check name", "insert phone") /\ Forward("insert phone", "insert name")
    /\ Forward("insert name", "commit") /\ Forward("commit", "connect again")
    /\ Forward("connect again", "session")
    /\ \A s \in Stages \ {"answered"} : Forward(s, "answered")
<1>1. ASSUME NEW i \in 1 .. 11, NEW j \in 1 .. 11, i < j
      PROVE  Forward(Ladder[i], Ladder[j])
  BY <1>1 DEF Forward
<1>2. /\ Ladder[1] = "new" /\ Ladder[2] = "connect" /\ Ladder[3] = "lock"
      /\ Ladder[4] = "check phone" /\ Ladder[5] = "check name" /\ Ladder[6] = "insert phone"
      /\ Ladder[7] = "insert name" /\ Ladder[8] = "commit" /\ Ladder[9] = "connect again"
      /\ Ladder[10] = "session" /\ Ladder[11] = "answered"
  BY DEF Ladder
<1>3. \A i \in 1 .. 10 : Forward(Ladder[i], Ladder[i + 1]) /\ Forward(Ladder[i], Ladder[11])
  BY <1>1
<1>4. /\ Forward(Ladder[1], Ladder[2]) /\ Forward(Ladder[2], Ladder[3])
      /\ Forward(Ladder[3], Ladder[4]) /\ Forward(Ladder[4], Ladder[5])
      /\ Forward(Ladder[5], Ladder[6]) /\ Forward(Ladder[6], Ladder[7])
      /\ Forward(Ladder[7], Ladder[8]) /\ Forward(Ladder[8], Ladder[9])
      /\ Forward(Ladder[9], Ladder[10])
  BY <1>1
<1>5. /\ Forward("new", "connect") /\ Forward("connect", "lock")
      /\ Forward("lock", "check phone") /\ Forward("check phone", "check name")
      /\ Forward("check name", "insert phone") /\ Forward("insert phone", "insert name")
      /\ Forward("insert name", "commit") /\ Forward("commit", "connect again")
      /\ Forward("connect again", "session")
  BY <1>2, <1>4
<1>6. \A s \in Stages \ {"answered"} :
          \/ s = Ladder[1] \/ s = Ladder[2] \/ s = Ladder[3] \/ s = Ladder[4] \/ s = Ladder[5]
          \/ s = Ladder[6] \/ s = Ladder[7] \/ s = Ladder[8] \/ s = Ladder[9] \/ s = Ladder[10]
  BY <1>2 DEF Stages
<1>7. \A s \in Stages \ {"answered"} : \E i \in 1 .. 10 : s = Ladder[i]
  BY <1>6
<1>8. \A s \in Stages \ {"answered"} : Forward(s, "answered")
  BY <1>2, <1>3, <1>7
<1> QED
  BY <1>5, <1>8

(* Each step of a call takes it nearer to its answer: with NoStandstill,   *)
(* this is what EveryCallAnswered rests on.                                *)
CallsGoForward ==
    [][\A c \in Calls : stage'[c] # stage[c] => Forward(stage[c], stage'[c])]_vars

(* No query of registerAccount or createSession is ever made again.        *)
THEOREM NoCallGoesBack == Spec => CallsGoForward
<1>1. TypeOK /\ [Next]_vars =>
          \A c \in Calls : stage'[c] # stage[c] => Forward(stage[c], stage'[c])
  <2> SUFFICES ASSUME TypeOK, [Next]_vars, NEW d \in Calls, stage'[d] # stage[d]
               PROVE  Forward(stage[d], stage'[d])
    OBVIOUS
  <2>1. ASSUME NEW c \in Calls, NEW s \in Stages, stage' = [stage EXCEPT ![c] = s]
        PROVE  stage'[d] = s /\ d = c
    BY <2>1 DEF TypeOK
  <2>2. ASSUME NEW c \in Calls, NEW o, Answer(c, o)
        PROVE  Forward(stage[d], stage'[d])
    <3>1. stage'[d] = "answered" /\ stage[d] # "answered" /\ stage[d] \in Stages
      BY <2>1, <2>2 DEF Answer, TypeOK, Stages
    <3> QED
      BY <3>1, Forwards
  <2>3. ASSUME NEW c \in Calls, NEW s \in Stages, Go(c, s), Forward(stage[c], s)
        PROVE  Forward(stage[d], stage'[d])
    <3>1. stage'[d] = s /\ d = c
      BY <2>1, <2>3 DEF Go
    <3> QED
      BY <2>3, <3>1
  <2>4. ASSUME NEW c \in Calls,
               Begin(c) \/ Connect(c) \/ ConnectAgain(c) \/ CreateSession(c) \/ Timeout(c) \/ Fail(c)
        PROVE  Forward(stage[d], stage'[d])
    <3>1. \/ stage[c] = "new" /\ Go(c, "connect")
          \/ stage[c] = "connect" /\ Go(c, "lock")
          \/ stage[c] = "connect again" /\ Go(c, "session")
          \/ \E o : Answer(c, o)
      BY <2>4 DEF Begin, Connect, ConnectAgain, CreateSession, Timeout, Fail
    <3> QED
      BY <3>1, <2>2, <2>3, Forwards DEF Stages
  <2>5. ASSUME NEW c \in Calls,
               \/ LockChallenge(c) \/ CheckPhone(c) \/ CheckName(c)
               \/ InsertPhone(c) \/ InsertName(c) \/ Commit(c)
        PROVE  Forward(stage[d], stage'[d])
    <3>1. \/ stage[c] = "lock" /\ Go(c, "check phone")
          \/ stage[c] = "check phone" /\ Go(c, "check name")
          \/ stage[c] = "check name" /\ Go(c, "insert phone")
          \/ stage[c] = "insert phone" /\ Go(c, "insert name")
          \/ stage[c] = "insert name" /\ Go(c, "commit")
          \/ stage[c] = "commit" /\ Go(c, "connect again")
          \/ \E o : Answer(c, o)
      BY <2>5 DEF LockChallenge, CheckPhone, CheckName, InsertPhone, InsertName, Commit, Refuse
    <3> QED
      BY <3>1, <2>2, <2>3, Forwards DEF Stages
  <2>6. ASSUME NEW h \in Challenges, Verify(h)
        PROVE  FALSE
    BY <2>6 DEF Verify
  <2>7. CASE UNCHANGED vars
    BY <2>7 DEF vars
  <2> QED
    BY <2>4, <2>5, <2>6, <2>7, StepCases
<1> QED
  BY <1>1, TypeCorrect, PTL DEF Spec, CallsGoForward

=============================================================================
