------------------------ MODULE OtpChallengesProofs ------------------------
(***************************************************************************)
(* What the one-time passwords guarantee for every set of calls, requesters*)
(* and verifications, and every value of the limits.                       *)
(***************************************************************************)
EXTENDS OtpChallenges, FiniteSetTheorems, TLAPS

(* The assumptions of OtpChallenges, gathered for the proofs.              *)
LEMMA ConstantsTyped ==
    /\ MaxAttempts \in Nat /\ MaxAttempts >= 1
    /\ Window \in Nat /\ Window >= 5
    /\ MaxTime \in Nat
    /\ NoChallenge \notin Challenges
    /\ PhoneOf \in [Challenges -> Phones]
    /\ RequesterOf \in [Challenges -> Requesters]
    /\ Cardinality(Verifiers) \in Nat
    /\ Cardinality(Requesters) \in Nat
BY BoundsAssumption, VerifiersAssumption, RequestersAssumption, PhonesAssumption,
   FS_CardinalityType

(* The cases of a step, for the proofs that go through them.               *)
LEMMA StepCases ==
    ASSUME [Next]_vars
    PROVE  \/ \E c \in Challenges : SelectRecent(c)
           \/ \E c \in Challenges : Decide(c)
           \/ \E c \in Challenges : Insert(c) \/ Send(c) \/ Fail(c)
           \/ \E v \in Verifiers, c \in Challenges : VerifySelect(v, c)
           \/ \E v \in Verifiers : VerifyUpdate(v)
           \/ \E v \in Verifiers : VerifyAbort(v)
           \/ Tick
           \/ UNCHANGED vars
BY DEF Next

-----------------------------------------------------------------------------
(* Every variable keeps its type.                                          *)
THEOREM TypeCorrect == Spec => []TypeOK
<1>1. Init => TypeOK
  BY ConstantsTyped DEF Init, TypeOK, Stages
<1>2. TypeOK /\ [Next]_vars => TypeOK'
  <2> SUFFICES ASSUME TypeOK, [Next]_vars
               PROVE  TypeOK'
    OBVIOUS
  <2> USE ConstantsTyped DEF TypeOK, Stages
  <2>1. ASSUME NEW c \in Challenges, SelectRecent(c)
        PROVE  TypeOK'
    BY <2>1 DEF SelectRecent, Stored, verifyVars
  <2>2. ASSUME NEW c \in Challenges, Decide(c)
        PROVE  TypeOK'
    BY <2>2 DEF Decide, verifyVars
  <2>3. ASSUME NEW c \in Challenges, Insert(c) \/ Send(c) \/ Fail(c)
        PROVE  TypeOK'
    BY <2>3 DEF Insert, Send, Fail, verifyVars
  <2>4. ASSUME NEW v \in Verifiers, NEW c \in Challenges, VerifySelect(v, c)
        PROVE  TypeOK'
    BY <2>4 DEF VerifySelect, requestVars
  <2>5. ASSUME NEW v \in Verifiers, VerifyUpdate(v)
        PROVE  TypeOK'
    BY <2>5 DEF VerifyUpdate, requestVars
  <2>6. ASSUME NEW v \in Verifiers, VerifyAbort(v)
        PROVE  TypeOK'
    BY <2>6 DEF VerifyAbort, requestVars
  <2>7. CASE Tick
    BY <2>7 DEF Tick, requestVars, verifyVars
  <2>8. CASE UNCHANGED vars
    BY <2>8 DEF vars, requestVars, verifyVars
  <2> QED
    BY <2>1, <2>2, <2>3, <2>4, <2>5, <2>6, <2>7, <2>8, StepCases
<1> QED
  BY <1>1, <1>2, PTL DEF Spec

-----------------------------------------------------------------------------
(* The verifications that compare a challenge are finitely many.           *)
LEMMA ComparingFinite ==
    ASSUME NEW c
    PROVE  /\ IsFiniteSet(Comparing(c))
           /\ Cardinality(Comparing(c)) \in Nat
           /\ Cardinality(Comparing(c)) <= Cardinality(Verifiers)
<1>1. Comparing(c) \in SUBSET Verifiers
  BY DEF Comparing
<1> QED
  BY <1>1, VerifiersAssumption, FS_Subset, FS_CardinalityType

(* A step that counts no attempt, and takes up no challenge, keeps the     *)
(* bound.                                                                  *)
LEMMA NoNewGuess ==
    ASSUME TypeOK, GuessesBounded, UNCHANGED attempts,
           \A v \in Verifiers : checking'[v] \in {checking[v], NoChallenge}
    PROVE  GuessesBounded'
<1> SUFFICES ASSUME NEW c \in Challenges
             PROVE  attempts'[c] + Cardinality(Comparing(c)')
                        <= MaxAttempts - 1 + Cardinality(Verifiers)
  BY DEF GuessesBounded
<1>1. Comparing(c)' \subseteq Comparing(c)
  BY ConstantsTyped DEF Comparing
<1>2. /\ Cardinality(Comparing(c)') \in Nat
      /\ Cardinality(Comparing(c)') <= Cardinality(Comparing(c))
  BY <1>1, ComparingFinite, FS_Subset, FS_CardinalityType
<1>3. /\ attempts[c] + Cardinality(Comparing(c)) <= MaxAttempts - 1 + Cardinality(Verifiers)
      /\ attempts'[c] = attempts[c] /\ attempts[c] \in Nat
  BY DEF GuessesBounded, TypeOK
<1> QED
  BY <1>2, <1>3, ComparingFinite, ConstantsTyped

(* Guesses counted and guesses being compared stay within the limit plus   *)
(* one for each further verification.                                      *)
THEOREM GuessesAreBounded == Spec => []GuessesBounded
<1>1. Init => GuessesBounded
  <2> SUFFICES ASSUME Init, NEW c \in Challenges
               PROVE  attempts[c] + Cardinality(Comparing(c))
                          <= MaxAttempts - 1 + Cardinality(Verifiers)
    BY DEF GuessesBounded
  <2>1. Comparing(c) = {}
    BY ConstantsTyped DEF Init, Comparing
  <2> QED
    BY <2>1, ConstantsTyped, FS_EmptySet DEF Init
<1>2. TypeOK /\ GuessesBounded /\ [Next]_vars => GuessesBounded'
  <2> SUFFICES ASSUME TypeOK, GuessesBounded, [Next]_vars
               PROVE  GuessesBounded'
    OBVIOUS
  <2>1. ASSUME NEW c \in Challenges, SelectRecent(c) \/ Decide(c) \/ Insert(c) \/ Send(c) \/ Fail(c)
        PROVE  GuessesBounded'
    BY <2>1, NoNewGuess DEF SelectRecent, Decide, Insert, Send, Fail, verifyVars
  <2>2. ASSUME NEW v \in Verifiers, NEW d \in Challenges, VerifySelect(v, d)
        PROVE  GuessesBounded'
    <3> SUFFICES ASSUME NEW c \in Challenges
                 PROVE  attempts'[c] + Cardinality(Comparing(c)')
                            <= MaxAttempts - 1 + Cardinality(Verifiers)
      BY DEF GuessesBounded
    <3>1. attempts'[c] = attempts[c] /\ attempts[c] \in Nat
      BY <2>2 DEF VerifySelect, TypeOK
    <3>2. CASE c = d
      <4>1. attempts[c] <= MaxAttempts - 1
        BY <2>2, <3>2, <3>1, ConstantsTyped DEF VerifySelect, Open
      <4>2. Comparing(c)' \in SUBSET Verifiers
        BY DEF Comparing
      <4>3. /\ Cardinality(Comparing(c)') \in Nat
            /\ Cardinality(Comparing(c)') <= Cardinality(Verifiers)
        BY <4>2, VerifiersAssumption, FS_Subset, FS_CardinalityType
      <4> QED
        BY <3>1, <4>1, <4>3, ConstantsTyped
    <3>3. CASE c # d
      <4>1. Comparing(c)' = Comparing(c)
        BY <2>2, <3>3, ConstantsTyped DEF VerifySelect, Comparing, TypeOK
      <4> QED
        BY <3>1, <4>1 DEF GuessesBounded
    <3> QED
      BY <3>2, <3>3
  <2>3. ASSUME NEW v \in Verifiers, VerifyUpdate(v)
        PROVE  GuessesBounded'
    <3> SUFFICES ASSUME NEW c \in Challenges
                 PROVE  attempts'[c] + Cardinality(Comparing(c)')
                            <= MaxAttempts - 1 + Cardinality(Verifiers)
      BY DEF GuessesBounded
    <3>1. attempts[c] \in Nat
      BY DEF TypeOK
    <3>2. CASE c = checking[v]
      <4>1. attempts'[c] = attempts[c] + 1
        BY <2>3, <3>2 DEF VerifyUpdate, TypeOK
      <4>2. Comparing(c)' = Comparing(c) \ {v} /\ v \in Comparing(c)
        BY <2>3, <3>2, ConstantsTyped DEF VerifyUpdate, Comparing, TypeOK
      <4>3. Cardinality(Comparing(c) \ {v}) = Cardinality(Comparing(c)) - 1
        BY <4>2, ComparingFinite, FS_RemoveElement
      <4>4. Cardinality(Comparing(c)') = Cardinality(Comparing(c)) - 1
        BY <4>2, <4>3
      <4> QED
        BY <3>1, <4>1, <4>4, ComparingFinite, ConstantsTyped DEF GuessesBounded
    <3>3. CASE c # checking[v]
      <4>1. attempts'[c] = attempts[c]
        BY <2>3, <3>3 DEF VerifyUpdate, TypeOK
      <4>2. Comparing(c)' = Comparing(c)
        BY <2>3, <3>3, ConstantsTyped DEF VerifyUpdate, Comparing, TypeOK
      <4> QED
        BY <4>1, <4>2 DEF GuessesBounded
    <3> QED
      BY <3>2, <3>3
  <2>4. ASSUME NEW v \in Verifiers, VerifyAbort(v)
        PROVE  GuessesBounded'
    BY <2>4, NoNewGuess DEF VerifyAbort, TypeOK
  <2>5. CASE Tick \/ UNCHANGED vars
    BY <2>5, NoNewGuess DEF Tick, vars, verifyVars
  <2> QED
    BY <2>1, <2>2, <2>3, <2>4, <2>5, StepCases
<1> QED
  BY <1>1, <1>2, TypeCorrect, PTL DEF Spec

-----------------------------------------------------------------------------
(* The rows a call has read, and the times it may rely on:                 *)
(*  - what it read is of its own number, inserted, and a row for good;     *)
(*  - a row or an INSERT on its way carries a time that has passed;        *)
(*  - of one requester's calls one is running, and it has read every row   *)
(*    of that requester and number that the query looks back at.           *)
RequestInv ==
    /\ \A c \in Challenges : \A d \in recent[c] : d \in Stored /\ PhoneOf[d] = PhoneOf[c]
    /\ \A c \in Challenges : decidedAt[c] <= now
    /\ \A c, d \in Running : RequesterOf[c] = RequesterOf[d] => c = d
    /\ \A c, d \in Challenges :
          /\ stage[c] = "deciding" /\ d \in Stored
          /\ PhoneOf[c] = PhoneOf[d] /\ RequesterOf[c] = RequesterOf[d]
          => d \in recent[c] \/ decidedAt[d] <= now - Window

(* The challenges that were let through.                                   *)
Accepted == {c \in Challenges : stage[c] \in {"inserting", "stored", "answered", "unsent"}}

(* Those of one requester for one number are two minutes apart.            *)
Spaced ==
    \A c, d \in Accepted :
        /\ c # d
        /\ PhoneOf[c] = PhoneOf[d]
        /\ RequesterOf[c] = RequesterOf[d]
        => decidedAt[c] >= decidedAt[d] + 2 \/ decidedAt[d] >= decidedAt[c] + 2

(* It holds in every reachable state.                                      *)
THEOREM RequestsInvariant == Spec => []RequestInv
<1>1. Init => RequestInv
  BY DEF Init, RequestInv, Stored, Running
<1>2. TypeOK /\ RequestInv /\ [Next]_vars => RequestInv'
  <2> SUFFICES ASSUME TypeOK, RequestInv, [Next]_vars
               PROVE  RequestInv'
    OBVIOUS
  <2> USE ConstantsTyped DEF TypeOK, RequestInv, Running, Stored
  <2>1. ASSUME NEW c \in Challenges, SelectRecent(c)
        PROVE  RequestInv'
    BY <2>1 DEF SelectRecent
  <2>2. ASSUME NEW c \in Challenges, Decide(c)
        PROVE  RequestInv'
    BY <2>2 DEF Decide
  <2>3. ASSUME NEW c \in Challenges, Insert(c)
        PROVE  RequestInv'
    BY <2>3 DEF Insert
  <2>4. ASSUME NEW c \in Challenges, Send(c) \/ Fail(c)
        PROVE  RequestInv'
    BY <2>4 DEF Send, Fail
  <2>5. CASE UNCHANGED <<now, requestVars>>
    BY <2>5 DEF requestVars
  <2>6. CASE Tick
    BY <2>6 DEF Tick, requestVars
  <2> QED
    BY <2>1, <2>2, <2>3, <2>4, <2>5, <2>6, StepCases
       DEF VerifySelect, VerifyUpdate, VerifyAbort, vars
<1> QED
  BY <1>1, <1>2, TypeCorrect, PTL DEF Spec

(* A call that read a challenge, and is let through, comes two minutes     *)
(* after it.                                                               *)
LEMMA LetThroughLate ==
    ASSUME TypeOK, NEW c \in Challenges, NEW d \in recent[c], ~ CoolingDown(c)
    PROVE  now >= decidedAt[d] + 2
<1>1. IsFiniteSet(recent[c]) /\ Cardinality(recent[c]) \in Nat
  BY ChallengesAssumption, FS_Subset, FS_CardinalityType DEF TypeOK
<1>2. Cardinality(recent[c]) # 0
  BY <1>1, FS_EmptySet
<1>3. Cooldown(Cardinality(recent[c])) >= 2
  BY <1>1, <1>2 DEF Cooldown
<1>4. now - decidedAt[d] >= Cooldown(Cardinality(recent[c]))
  BY <1>1 DEF CoolingDown, TypeOK, Cooldown
<1> QED
  BY <1>1, <1>3, <1>4 DEF TypeOK, Cooldown

(* Two challenges that one requester creates are two minutes apart.        *)
THEOREM RequestersAreSpaced == Spec => []Spaced
<1>1. Init => Spaced
  BY DEF Init, Spaced, Accepted
<1>2. TypeOK /\ RequestInv /\ Spaced /\ [Next]_vars => Spaced'
  <2> SUFFICES ASSUME TypeOK, RequestInv, Spaced, [Next]_vars
               PROVE  Spaced'
    OBVIOUS
  <2>1. ASSUME NEW c \in Challenges, Decide(c)
        PROVE  Spaced'
    <3>1. CASE CoolingDown(c)
      BY <2>1, <3>1 DEF Decide, Spaced, Accepted, TypeOK
    <3>2. CASE ~ CoolingDown(c)
      <4> SUFFICES ASSUME NEW d \in Accepted, d # c, PhoneOf[c] = PhoneOf[d],
                          RequesterOf[c] = RequesterOf[d]
                   PROVE  now >= decidedAt[d] + 2
        BY <2>1, <3>2 DEF Decide, Spaced, Accepted, TypeOK
      <4>1. d \in Stored
        BY <2>1 DEF RequestInv, Decide, Running, Accepted, Stored
      <4>2. d \in recent[c] \/ decidedAt[d] <= now - Window
        BY <2>1, <4>1 DEF RequestInv, Decide, Stored
      <4>3. CASE d \in recent[c]
        BY <3>2, <4>3, LetThroughLate
      <4>4. CASE decidedAt[d] <= now - Window
        BY <4>4, ConstantsTyped DEF TypeOK, Accepted
      <4> QED
        BY <4>2, <4>3, <4>4
    <3> QED
      BY <3>1, <3>2
  <2>2. ASSUME NEW c \in Challenges, SelectRecent(c) \/ Insert(c) \/ Send(c) \/ Fail(c)
        PROVE  Spaced'
    <3>1. Accepted' \subseteq Accepted /\ decidedAt' = decidedAt
      BY <2>2 DEF SelectRecent, Insert, Send, Fail, Accepted, Running, Stored, TypeOK
    <3> QED
      BY <3>1 DEF Spaced
  <2>3. CASE UNCHANGED requestVars
    BY <2>3 DEF requestVars, Spaced, Accepted
  <2> QED
    BY <2>1, <2>2, <2>3, StepCases DEF VerifySelect, VerifyUpdate, VerifyAbort, Tick, vars
<1> QED
  BY <1>1, <1>2, TypeCorrect, RequestsInvariant, PTL DEF Spec

(* In any two minutes a number is sent no more codes than there are        *)
(* requesters: the requesters of a burst are distinct.                     *)
THEOREM BurstsAreBounded == Spec => []BurstsBounded
<1>1. TypeOK /\ Spaced => BurstsBounded
  <2> SUFFICES ASSUME TypeOK, Spaced, NEW p \in Phones, NEW t \in 0 .. MaxTime
               PROVE  Cardinality(Burst(p, t)) <= Cardinality(Requesters)
    BY DEF BurstsBounded
  <2> DEFINE f == [c \in Burst(p, t) |-> RequesterOf[c]]
  <2>1. f \in [Burst(p, t) -> Requesters]
    BY ConstantsTyped DEF Burst, Stored
  <2>2. ASSUME NEW c \in Burst(p, t), NEW d \in Burst(p, t), f[c] = f[d]
        PROVE  c = d
    BY <2>2, ConstantsTyped DEF Burst, Stored, Spaced, Accepted, TypeOK
  <2>3. f \in Injection(Burst(p, t), Requesters)
    BY <2>1, <2>2 DEF Injection, IsInjective
  <2> QED
    BY <2>3, RequestersAssumption, FS_Injection
<1> QED
  BY <1>1, TypeCorrect, RequestersAreSpaced, PTL

(* Whoever is refused has a code that has not expired.                     *)
THEOREM RefusedWhileACodeLives == Spec => []RefusedWhileCodeLives
<1>1. Init => RefusedWhileCodeLives
  BY DEF Init, RefusedWhileCodeLives
<1>2. TypeOK /\ RequestInv /\ RefusedWhileCodeLives /\ [Next]_vars => RefusedWhileCodeLives'
  <2> SUFFICES ASSUME TypeOK, RequestInv, RefusedWhileCodeLives, [Next]_vars
               PROVE  RefusedWhileCodeLives'
    OBVIOUS
  <2>1. ASSUME NEW c \in Challenges, Decide(c)
        PROVE  RefusedWhileCodeLives'
    <3>1. /\ Stored' = Stored
          /\ \A d \in Stored : decidedAt'[d] = decidedAt[d]
      BY <2>1 DEF Decide, Stored, TypeOK
    <3>2. \A b \in Challenges : b # c /\ stage'[b] = "refused" =>
              stage[b] = "refused" /\ decidedAt'[b] = decidedAt[b]
      BY <2>1 DEF Decide, TypeOK
    <3>3. ASSUME stage'[c] = "refused"
          PROVE  \E d \in Stored : PhoneOf[d] = PhoneOf[c] /\ now < ExpiresAt(d)
      <4>1. CoolingDown(c)
        BY <2>1, <3>3 DEF Decide, TypeOK
      <4>2. PICK d \in recent[c] : now - decidedAt[d] < Cooldown(Cardinality(recent[c]))
        BY <4>1 DEF CoolingDown
      <4>3. d \in Stored /\ PhoneOf[d] = PhoneOf[c]
        BY <4>2 DEF RequestInv
      <4>4. Cooldown(Cardinality(recent[c])) <= 5
        BY DEF Cooldown
      <4>5. now < ExpiresAt(d)
        BY <4>2, <4>3, <4>4 DEF ExpiresAt, Lifetime, Stored, TypeOK, Cooldown
      <4> QED
        BY <4>3, <4>5
    <3>4. decidedAt'[c] = now
      BY <2>1 DEF Decide, TypeOK
    <3> QED
      BY <3>1, <3>2, <3>3, <3>4 DEF RefusedWhileCodeLives, ExpiresAt, Stored
  <2>2. ASSUME NEW c \in Challenges, SelectRecent(c) \/ Insert(c) \/ Send(c) \/ Fail(c)
        PROVE  RefusedWhileCodeLives'
    <3>1. Stored \subseteq Stored' /\ decidedAt' = decidedAt
      BY <2>2 DEF SelectRecent, Insert, Send, Fail, Running, Stored, TypeOK
    <3>2. \A b \in Challenges : stage'[b] = "refused" => stage[b] = "refused"
      BY <2>2 DEF SelectRecent, Insert, Send, Fail, TypeOK
    <3> QED
      BY <3>1, <3>2 DEF RefusedWhileCodeLives, ExpiresAt
  <2>3. CASE UNCHANGED requestVars
    BY <2>3 DEF requestVars, RefusedWhileCodeLives, Stored, ExpiresAt
  <2> QED
    BY <2>1, <2>2, <2>3, StepCases DEF VerifySelect, VerifyUpdate, VerifyAbort, Tick, vars
<1> QED
  BY <1>1, <1>2, TypeCorrect, RequestsInvariant, PTL DEF Spec

(* A closed challenge that nobody compares stays out of reach.             *)
THEOREM ClosedChallengesStayClosed == Spec => ClosedStaysClosed
<1>1. TypeOK /\ [Next]_vars =>
          [\A c \in Challenges :
              Closed(c) /\ Comparing(c) = {} =>
                  /\ Closed(c)' /\ Comparing(c)' = {}
                  /\ attempts'[c] = attempts[c]
                  /\ c \in verified' <=> c \in verified]_vars
  <2> SUFFICES ASSUME TypeOK, [Next]_vars, NEW c \in Challenges,
                      Closed(c), Comparing(c) = {}
               PROVE  /\ Closed(c)' /\ Comparing(c)' = {}
                      /\ attempts'[c] = attempts[c]
                      /\ c \in verified' <=> c \in verified
    OBVIOUS
  <2> USE ConstantsTyped DEF TypeOK, Closed, Expired, ExpiresAt, Lifetime, Stored, Comparing
  <2>1. ASSUME NEW b \in Challenges, SelectRecent(b) \/ Decide(b)
        PROVE  /\ Closed(c)' /\ Comparing(c)' = {}
               /\ attempts'[c] = attempts[c]
               /\ c \in verified' <=> c \in verified
    BY <2>1 DEF SelectRecent, Decide, verifyVars
  <2>2. ASSUME NEW b \in Challenges, Insert(b) \/ Send(b) \/ Fail(b)
        PROVE  /\ Closed(c)' /\ Comparing(c)' = {}
               /\ attempts'[c] = attempts[c]
               /\ c \in verified' <=> c \in verified
    BY <2>2 DEF Insert, Send, Fail, Running, verifyVars
  <2>3. ASSUME NEW v \in Verifiers, NEW b \in Challenges, VerifySelect(v, b)
        PROVE  /\ Closed(c)' /\ Comparing(c)' = {}
               /\ attempts'[c] = attempts[c]
               /\ c \in verified' <=> c \in verified
    <3>1. b # c
      BY <2>3 DEF VerifySelect, Open
    <3> QED
      BY <2>3, <3>1 DEF VerifySelect, requestVars
  <2>4. ASSUME NEW v \in Verifiers, VerifyUpdate(v) \/ VerifyAbort(v)
        PROVE  /\ Closed(c)' /\ Comparing(c)' = {}
               /\ attempts'[c] = attempts[c]
               /\ c \in verified' <=> c \in verified
    <3>1. checking[v] # c
      OBVIOUS
    <3> QED
      BY <2>4, <3>1 DEF VerifyUpdate, VerifyAbort, requestVars
  <2>5. CASE Tick \/ UNCHANGED vars
    BY <2>5 DEF Tick, vars, requestVars, verifyVars
  <2> QED
    BY <2>1, <2>2, <2>3, <2>4, <2>5, StepCases
<1> QED
  BY <1>1, TypeCorrect, PTL DEF Spec, ClosedStaysClosed
=============================================================================
