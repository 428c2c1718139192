---------------------------- MODULE Registration ----------------------------
(***************************************************************************)
(* Registration (account.service.ts): any number of calls of               *)
(* registerAccount at once, each a transaction on a connection of the      *)
(* pool, after which, still holding it, the call takes another one for     *)
(* createSession (session.service.ts).  One action is one query, or a run  *)
(* of queries nobody can come between; a call's stage is what it waits for.*)
(***************************************************************************)
EXTENDS Integers, FiniteSets

CONSTANTS
    Calls,          \* calls of registerAccount
    Challenges,     \* rows of otp_challenges
    ChallengeOf,    \* params.challengeId
    Phones,
    PhoneOf,        \* phone_blind_index of a challenge
    Names,
    NameOf,         \* params.username in lower case
    PoolSize        \* connections of the pool that registrations may use

ASSUME CallsAssumption ==
    /\ IsFiniteSet(Calls)
    /\ ChallengeOf \in [Calls -> Challenges]
    /\ NameOf \in [Calls -> Names]
ASSUME PhonesAssumption == PhoneOf \in [Challenges -> Phones]
ASSUME PoolAssumption == PoolSize \in Nat

VARIABLES
    verified,       \* the challenges with is_verified
    accounts,       \* the calls whose transaction is committed
    sessions,       \* those that have a session
    free,           \* idle connections
    stage,
    outcome         \* what a call was answered

tables == <<verified, accounts, sessions>>
vars == <<tables, free, stage, outcome>>

Phone(c) == PhoneOf[ChallengeOf[c]]

Stages == {"new", "connect", "lock", "check phone", "check name", "insert phone",
           "insert name", "commit", "connect again", "session", "answered"}

(* The transaction is open: its locks and rows are the call's alone.       *)
HoldsChallenge == {"check phone", "check name", "insert phone", "insert name", "commit"}
HoldsPhone == {"insert name", "commit"}
HoldsName == {"commit"}

(* The connections a call has taken and not given back.                    *)
HaveFirst == {c \in Calls : stage[c] \notin {"new", "connect", "answered"}}
HaveSecond == {c \in Calls : stage[c] = "session"}

Refusals == {"unverified", "phone taken", "name taken"}
Outcomes == Refusals \cup {"none", "ok", "failed"}

TypeOK ==
    /\ verified \subseteq Challenges
    /\ accounts \subseteq Calls
    /\ sessions \subseteq Calls
    /\ free \in Nat
    /\ stage \in [Calls -> Stages]
    /\ outcome \in [Calls -> Outcomes]

Init ==
    /\ verified = {} /\ accounts = {} /\ sessions = {}
    /\ free = PoolSize
    /\ stage = [c \in Calls |-> "new"]
    /\ outcome = [c \in Calls |-> "none"]

-----------------------------------------------------------------------------
Go(c, s) == stage' = [stage EXCEPT ![c] = s] /\ UNCHANGED outcome

Answer(c, o) ==
    /\ stage' = [stage EXCEPT ![c] = "answered"]
    /\ outcome' = [outcome EXCEPT ![c] = o]

(* ROLLBACK, release, and the error to the caller.                         *)
Refuse(c, o) ==
    /\ free' = free + 1
    /\ Answer(c, o)
    /\ UNCHANGED tables

(* The challenge's row is updated by verifyOtpChallenge, which waits for   *)
(* the lock of a registration.                                             *)
Verify(h) ==
    /\ h \in Challenges \ verified
    /\ \A c \in Calls : ChallengeOf[c] = h => stage[c] \notin HoldsChallenge
    /\ verified' = verified \cup {h}
    /\ UNCHANGED <<accounts, sessions, free, stage, outcome>>

Begin(c) ==
    /\ stage[c] = "new"
    /\ Go(c, "connect")
    /\ UNCHANGED <<tables, free>>

Connect(c) ==
    /\ stage[c] = "connect"
    /\ free > 0
    /\ free' = free - 1
    /\ Go(c, "lock")
    /\ UNCHANGED tables

(* A faulty call goes on without looking at is_verified.                   *)
LockUnverified(c) ==
    /\ stage[c] = "lock"
    /\ \A d \in Calls : ChallengeOf[d] = ChallengeOf[c] => stage[d] \notin HoldsChallenge
    /\ Go(c, "check phone") /\ UNCHANGED <<tables, free>>

(* SELECT ... FOR UPDATE waits for the calls with the same challenge.      *)
LockChallenge(c) ==
    /\ stage[c] = "lock"
    /\ \A d \in Calls : ChallengeOf[d] = ChallengeOf[c] => stage[d] \notin HoldsChallenge
    /\ IF ChallengeOf[c] \in verified
         THEN Go(c, "check phone") /\ UNCHANGED <<tables, free>>
         ELSE Refuse(c, "unverified")

(* A faulty read that sees other calls' uncommitted rows.                  *)
CheckPhoneDirty(c) ==
    /\ stage[c] = "check phone"
    /\ IF \E d \in Calls : /\ d \in accounts \/ stage[d] \in HoldsPhone
                           /\ Phone(d) = Phone(c)
         THEN Refuse(c, "phone taken")
         ELSE Go(c, "check name") /\ UNCHANGED <<tables, free>>

CheckPhone(c) ==
    /\ stage[c] = "check phone"
    /\ IF \E d \in accounts : Phone(d) = Phone(c)
         THEN Refuse(c, "phone taken")
         ELSE Go(c, "check name") /\ UNCHANGED <<tables, free>>

CheckName(c) ==
    /\ stage[c] = "check name"
    /\ IF \E d \in accounts : NameOf[d] = NameOf[c]
         THEN Refuse(c, "name taken")
         ELSE Go(c, "insert phone") /\ UNCHANGED <<tables, free>>

(* A faulty schema, without the unique index on the blind index.           *)
InsertPhoneAnyway(c) ==
    /\ stage[c] = "insert phone"
    /\ Go(c, "insert name") /\ UNCHANGED <<tables, free>>

(* The user and the phone identity.  An insert under a unique index waits  *)
(* for an open transaction with the same value, and fails once it is       *)
(* committed.                                                              *)
InsertPhone(c) ==
    /\ stage[c] = "insert phone"
    /\ \A d \in Calls : Phone(d) = Phone(c) => stage[d] \notin HoldsPhone
    /\ IF \E d \in accounts : Phone(d) = Phone(c)
         THEN Refuse(c, "failed")
         ELSE Go(c, "insert name") /\ UNCHANGED <<tables, free>>

(* The profile and the username.                                           *)
InsertName(c) ==
    /\ stage[c] = "insert name"
    /\ \A d \in Calls : NameOf[d] = NameOf[c] => stage[d] \notin HoldsName
    /\ IF \E d \in accounts : NameOf[d] = NameOf[c]
         THEN Refuse(c, "failed")
         ELSE Go(c, "commit") /\ UNCHANGED <<tables, free>>

(* The device, the settings, the events, COMMIT; its answer may be lost.   *)
Commit(c) ==
    /\ stage[c] = "commit"
    /\ accounts' = accounts \cup {c}
    /\ \/ Go(c, "connect again") /\ UNCHANGED free
       \/ Answer(c, "failed") /\ free' = free + 1
    /\ UNCHANGED <<verified, sessions>>

(* createSession takes a connection of its own.                            *)
ConnectAgain(c) ==
    /\ stage[c] = "connect again"
    /\ free > 0
    /\ free' = free - 1
    /\ Go(c, "session")
    /\ UNCHANGED tables

(* Its transaction, as a whole, and both connections given back; the       *)
(* answer of its COMMIT may be lost.                                       *)
CreateSession(c) ==
    /\ stage[c] = "session"
    /\ sessions' = sessions \cup {c}
    /\ free' = free + 2
    /\ Answer(c, "ok") \/ Answer(c, "failed")
    /\ UNCHANGED <<verified, accounts>>

(* Faulty: a call may wait for its second connection for ever.             *)
TimeoutFirstOnly(c) ==
    /\ stage[c] = "connect"
    /\ Answer(c, "failed") /\ UNCHANGED <<tables, free>>

(* No connection came free in connectionTimeoutMillis.                     *)
Timeout(c) ==
    /\ \/ stage[c] = "connect" /\ UNCHANGED free
       \/ stage[c] = "connect again" /\ free' = free + 1
    /\ Answer(c, "failed")
    /\ UNCHANGED tables

(* A query throws: each transaction is rolled back, each connection        *)
(* released.                                                               *)
Fail(c) ==
    /\ c \in HaveFirst
    /\ free' = IF c \in HaveSecond THEN free + 2 ELSE free + 1
    /\ Answer(c, "failed")
    /\ UNCHANGED tables

Advance(c) ==
    \/ Connect(c) \/ LockChallenge(c) \/ CheckPhone(c) \/ CheckName(c)
    \/ InsertPhone(c) \/ InsertName(c) \/ Commit(c)
    \/ ConnectAgain(c) \/ CreateSession(c)

Next ==
    \/ \E h \in Challenges : Verify(h)
    \/ \E c \in Calls : Begin(c) \/ Advance(c) \/ Timeout(c) \/ Fail(c)

Spec == Init /\ [][Next]_vars

(* The database answers, and the timer of a waiting connection fires.      *)
FairSpec == Spec /\ \A c \in Calls : WF_vars(Advance(c)) /\ WF_vars(Timeout(c))

-----------------------------------------------------------------------------
(* Calls that race past both checks, with the same or with different       *)
(* challenges, never register one number or one name twice.                *)
AccountsUnique ==
    \A c, d \in accounts : Phone(c) = Phone(d) \/ NameOf[c] = NameOf[d] => c = d

(* No path out of a call, in either transaction, leaks a connection or     *)
(* gives one back twice.                                                   *)
ConnectionsConserved ==
    free + Cardinality(HaveFirst) + Cardinality(HaveSecond) = PoolSize

(* An ok answer means an account with a session, for a verified challenge; *)
(* a refused call leaves no account behind.                                *)
AnswersStand ==
    \A c \in Calls :
        /\ outcome[c] = "ok" => c \in sessions
        /\ outcome[c] \in Refusals => c \notin accounts
        /\ c \in accounts => ChallengeOf[c] \in verified

(* A call is told that its number or its name is taken only if an account  *)
(* has it, not because of a transaction that may yet be rolled back.       *)
RefusedForAReason ==
    \A c \in Calls :
        /\ outcome[c] = "phone taken" => \E d \in accounts : Phone(d) = Phone(c)
        /\ outcome[c] = "name taken" => \E d \in accounts : NameOf[d] = NameOf[c]

(* Every call is answered, though each holds a connection while it waits   *)
(* for a second one and for the locks of others.                           *)
EveryCallAnswered == \A c \in Calls : stage[c] = "connect" ~> stage[c] = "answered"
=============================================================================
