--------------------------- MODULE OtpChallenges ---------------------------
(***************************************************************************)
(* One-time passwords (otp.service.ts): requestOtpChallenge, three queries *)
(* and a message, and verifyOtpChallenge, two queries, each committed by   *)
(* itself.  The lock of the SELECT ... FOR UPDATE that begins a            *)
(* verification is gone before its UPDATE is sent.  Time is in minutes.    *)
(***************************************************************************)
EXTENDS Integers, FiniteSets

CONSTANTS
    Challenges,     \* one for each call of requestOtpChallenge, under a fresh id
    Phones,         \* blind indexes of telephone numbers
    PhoneOf,        \* the blind index of the number a call asks for
    Requesters,     \* those who call it, each one call at a time
    RequesterOf,    \* the requester that makes a call
    Verifiers,      \* verifications that may be under way at once
    NoChallenge,    \* what an idle one compares
    MaxAttempts,    \* max_attempts
    Window,         \* how far back the first query looks (24 hours)
    MaxTime         \* bound of the clock

ASSUME ChallengesAssumption == IsFiniteSet(Challenges)
ASSUME PhonesAssumption == PhoneOf \in [Challenges -> Phones]
ASSUME RequestersAssumption ==
    RequesterOf \in [Challenges -> Requesters] /\ IsFiniteSet(Requesters)
ASSUME VerifiersAssumption == IsFiniteSet(Verifiers) /\ NoChallenge \notin Challenges
ASSUME BoundsAssumption ==
    MaxAttempts \in Nat \ {0} /\ Window \in Nat /\ Window >= 5 /\ MaxTime \in Nat

VARIABLES
    now,            \* the clock
    stage,          \* where a call stands, and what it came to
    recent,         \* the challenges its first query returned
    decidedAt,      \* when it decided: created_at of its row if it goes on
    attempts,       \* attempts_count
    verified,       \* the challenges with is_verified
    checking,       \* the challenge a verification compares with its guess
    matching        \* the verifications whose guess is right

requestVars == <<stage, recent, decidedAt>>
verifyVars == <<attempts, verified, checking, matching>>
vars == <<now, requestVars, verifyVars>>

(* "stored": the row is inserted, its code not sent yet; "answered": sent; *)
(* "unsent": the provider, or the query after it, failed.                  *)
Stored == {c \in Challenges : stage[c] \in {"stored", "answered", "unsent"}}

Stages == {"new", "deciding", "inserting", "refused", "failed",
           "stored", "answered", "unsent"}

TypeOK ==
    /\ now \in 0 .. MaxTime
    /\ stage \in [Challenges -> Stages]
    /\ recent \in [Challenges -> SUBSET Challenges]
    /\ decidedAt \in [Challenges -> 0 .. MaxTime]
    /\ attempts \in [Challenges -> Nat]
    /\ verified \subseteq Challenges
    /\ checking \in [Verifiers -> Challenges \cup {NoChallenge}]
    /\ matching \subseteq Verifiers

Init ==
    /\ now = 0
    /\ stage = [c \in Challenges |-> "new"]
    /\ recent = [c \in Challenges |-> {}]
    /\ decidedAt = [c \in Challenges |-> 0]
    /\ attempts = [c \in Challenges |-> 0]
    /\ verified = {}
    /\ checking = [v \in Verifiers |-> NoChallenge]
    /\ matching = {}

-----------------------------------------------------------------------------
Lifetime == 5

(* A faulty last tier, twice as long.                                      *)
CooldownSteep(n) == IF n = 0 THEN 1 ELSE IF n = 1 THEN 2 ELSE 10

(* The wait after the last of n challenges.                                *)
Cooldown(n) == IF n = 0 THEN 1 ELSE IF n = 1 THEN 2 ELSE 5

ExpiresAt(c) == decidedAt[c] + Lifetime

(* A challenge of the number is younger than the wait.                     *)
CoolingDown(c) ==
    \E d \in recent[c] : now - decidedAt[d] < Cooldown(Cardinality(recent[c]))

Running == {c \in Challenges : stage[c] \in {"deciding", "inserting", "stored"}}

(* A faulty query: challenges whose code was not sent are left out.        *)
SelectRecentSent(c) ==
    /\ stage[c] = "new"
    /\ \A d \in Running : RequesterOf[d] # RequesterOf[c]
    /\ stage' = [stage EXCEPT ![c] = "deciding"]
    /\ recent' = [recent EXCEPT ![c] = {d \in Stored : /\ PhoneOf[d] = PhoneOf[c]
                                                      /\ decidedAt[d] > now - Window
                                                      /\ stage[d] = "answered"}]
    /\ UNCHANGED <<now, decidedAt, verifyVars>>

(* The first query.                                                        *)
SelectRecent(c) ==
    /\ stage[c] = "new"
    /\ \A d \in Running : RequesterOf[d] # RequesterOf[c]
    /\ stage' = [stage EXCEPT ![c] = "deciding"]
    /\ recent' = [recent EXCEPT ![c] =
                     {d \in Stored : PhoneOf[d] = PhoneOf[c] /\ decidedAt[d] > now - Window}]
    /\ UNCHANGED <<now, decidedAt, verifyVars>>

(* The call's process has the rows: it refuses, or sends the INSERT.       *)
Decide(c) ==
    /\ stage[c] = "deciding"
    /\ decidedAt' = [decidedAt EXCEPT ![c] = now]
    /\ stage' = [stage EXCEPT ![c] = IF CoolingDown(c) THEN "refused" ELSE "inserting"]
    /\ UNCHANGED <<now, recent, verifyVars>>

Insert(c) ==
    /\ stage[c] = "inserting"
    /\ stage' = [stage EXCEPT ![c] = "stored"]
    /\ UNCHANGED <<now, recent, decidedAt, verifyVars>>

(* The provider takes the code and its answer is recorded.                 *)
Send(c) ==
    /\ stage[c] = "stored"
    /\ stage' = [stage EXCEPT ![c] = "answered"]
    /\ UNCHANGED <<now, recent, decidedAt, verifyVars>>

(* A query or the provider throws.  A row that was inserted stays.         *)
Fail(c) ==
    /\ c \in Running
    /\ stage' = [stage EXCEPT ![c] = IF c \in Stored THEN "unsent" ELSE "failed"]
    /\ UNCHANGED <<now, recent, decidedAt, verifyVars>>

-----------------------------------------------------------------------------
Expired(c) == ExpiresAt(c) < now

(* verifyOtpChallenge takes the challenge as good.                         *)
Open(c) ==
    /\ c \in Stored
    /\ c \notin verified
    /\ ~ Expired(c)
    /\ attempts[c] < MaxAttempts

(* Faulty SELECTs: an attempt too many, no look at is_verified.            *)
VerifySelectOneMore(v, c) ==
    /\ checking[v] = NoChallenge
    /\ c \in Stored \ verified /\ ~ Expired(c) /\ attempts[c] <= MaxAttempts
    /\ checking' = [checking EXCEPT ![v] = c]
    /\ matching' \in {matching, matching \cup {v}}
    /\ UNCHANGED <<now, requestVars, attempts, verified>>
VerifySelectAgain(v, c) ==
    /\ checking[v] = NoChallenge
    /\ c \in Stored /\ ~ Expired(c) /\ attempts[c] < MaxAttempts
    /\ checking' = [checking EXCEPT ![v] = c]
    /\ matching' \in {matching, matching \cup {v}}
    /\ UNCHANGED <<now, requestVars, attempts, verified>>

(* The SELECT and the comparison.                                          *)
VerifySelect(v, c) ==
    /\ checking[v] = NoChallenge
    /\ Open(c)
    /\ checking' = [checking EXCEPT ![v] = c]
    /\ matching' \in {matching, matching \cup {v}}
    /\ UNCHANGED <<now, requestVars, attempts, verified>>

(* The UPDATE, by the id alone.                                            *)
VerifyUpdate(v) ==
    /\ checking[v] # NoChallenge
    /\ attempts' = [attempts EXCEPT ![checking[v]] = @ + 1]
    /\ verified' = IF v \in matching THEN verified \cup {checking[v]} ELSE verified
    /\ checking' = [checking EXCEPT ![v] = NoChallenge]
    /\ matching' = matching \ {v}
    /\ UNCHANGED <<now, requestVars>>

(* The UPDATE throws: no answer, and no attempt counted.                   *)
VerifyAbort(v) ==
    /\ checking[v] # NoChallenge
    /\ checking' = [checking EXCEPT ![v] = NoChallenge]
    /\ matching' = matching \ {v}
    /\ UNCHANGED <<now, requestVars, attempts, verified>>

Tick ==
    /\ now < MaxTime
    /\ now' = now + 1
    /\ UNCHANGED <<requestVars, verifyVars>>

Next ==
    \/ \E c \in Challenges : SelectRecent(c) \/ Decide(c) \/ Insert(c) \/ Send(c) \/ Fail(c)
    \/ \E v \in Verifiers, c \in Challenges : VerifySelect(v, c)
    \/ \E v \in Verifiers : VerifyUpdate(v) \/ VerifyAbort(v)
    \/ Tick

Spec == Init /\ [][Next]_vars

-----------------------------------------------------------------------------
(* The verifications that are about to count an attempt for a challenge.   *)
Comparing(c) == {v \in Verifiers : checking[v] = c}

(* Guesses counted and guesses compared but not counted yet: verifications *)
(* that overlap exceed the limit of a challenge by one each beyond the     *)
(* first, however they and the clock are interleaved.                      *)
GuessesBounded ==
    \A c \in Challenges :
        attempts[c] + Cardinality(Comparing(c)) <= MaxAttempts - 1 + Cardinality(Verifiers)

Closed(c) == c \in Stored /\ (c \in verified \/ Expired(c) \/ attempts[c] >= MaxAttempts)

(* A challenge that was verified, used up or left to expire is out of      *)
(* reach once no verification is comparing it: none takes it up again, and *)
(* its row stays as it is.                                                 *)
ClosedStaysClosed ==
    [][\A c \in Challenges :
          Closed(c) /\ Comparing(c) = {} =>
              /\ Closed(c)' /\ Comparing(c)' = {}
              /\ attempts'[c] = attempts[c]
              /\ c \in verified' <=> c \in verified]_vars

(* The challenges of a number that were created in the two minutes from t. *)
Burst(p, t) == {c \in Stored : PhoneOf[c] = p /\ decidedAt[c] \in t .. t + 1}

(* Requesters that overlap may each be let through by a read that came     *)
(* before the others' INSERTs, but only once: in any two minutes a number  *)
(* is sent no more codes than there are requesters.                        *)
BurstsBounded ==
    \A p \in Phones, t \in 0 .. MaxTime :
        Cardinality(Burst(p, t)) <= Cardinality(Requesters)

(* A request is refused only while a code for the same number has not      *)
(* expired: the longest wait is no longer than the life of a code.         *)
RefusedWhileCodeLives ==
    \A c \in Challenges :
        stage[c] = "refused" =>
            \E d \in Stored : PhoneOf[d] = PhoneOf[c] /\ decidedAt[c] < ExpiresAt(d)
=============================================================================
