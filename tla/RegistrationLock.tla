-------------------------- MODULE RegistrationLock --------------------------
(***************************************************************************)
(* The registration lock of one account (registration-lock.service.ts):    *)
(* calls of setPin, verifyPin and disablePin at once, none of them in a    *)
(* transaction.  One action is one query, with what a call does until its  *)
(* next one; a call's stage is the query it is about to make.  Of a PIN    *)
(* only its identity matters, and its hash is the PIN it was made from.    *)
(***************************************************************************)
EXTENDS Integers, FiniteSets

CONSTANTS
    Clients,        \* callers, each of which has one call under way at most
    Pins,
    NoPin,          \* no row in registration_lock_credentials
    Rows,           \* rows of registration_lock_attempts that are in the window
    MaxFailures,    \* 5
    Window          \* 30 minutes

ASSUME ClientsAssumption == IsFiniteSet(Clients)
ASSUME RowsAssumption == IsFiniteSet(Rows)
ASSUME NoPinAssumption == NoPin \notin Pins
ASSUME LimitsAssumption == MaxFailures \in Nat \ {0} /\ Window \in Nat \ {0}

VARIABLES
    credential,     \* pin_argon2_hash of the account
    left,           \* minutes for which a row still counts as a failed attempt
    events,         \* the types of the rows of security_events
    stage,
    doing,          \* the method a client has called
    guess,          \* candidatePin
    read,           \* the hash verifyPin has fetched
    overtaken       \* the clients whose hash was replaced after they fetched it

call == <<stage, doing, guess, read>>
vars == <<credential, left, events, call, overtaken>>

Stages == {"idle", "count", "fetch", "record", "delete", "report"}
Methods == {"none", "set", "verify", "disable"}
Events == {"enabled", "disabled"}

(* The failed attempts of the last Window minutes.  A name in Rows is free *)
(* again when its row leaves the window.                                   *)
Failed == {r \in Rows : left[r] > 0}
Locked == Cardinality(Failed) >= MaxFailures

(* Calls that have seen the number of failures and not added their own.    *)
Comparing == {c \in Clients : stage[c] \in {"fetch", "record"}}

TypeOK ==
    /\ credential \in Pins \cup {NoPin}
    /\ left \in [Rows -> 0 .. Window]
    /\ events \subseteq Events
    /\ stage \in [Clients -> Stages]
    /\ doing \in [Clients -> Methods]
    /\ guess \in [Clients -> Pins \cup {NoPin}]
    /\ read \in [Clients -> Pins \cup {NoPin}]
    /\ overtaken \subseteq Clients

Init ==
    /\ credential = NoPin
    /\ left = [r \in Rows |-> 0]
    /\ events = {}
    /\ stage = [c \in Clients |-> "idle"]
    /\ doing = [c \in Clients |-> "none"]
    /\ guess = [c \in Clients |-> NoPin]
    /\ read = [c \in Clients |-> NoPin]
    /\ overtaken = {}

-----------------------------------------------------------------------------
Go(c, s) == stage' = [stage EXCEPT ![c] = s] /\ UNCHANGED <<doing, guess, read>>

(* An answer or an error, whatever it says.                                *)
Return(c) ==
    /\ stage' = [stage EXCEPT ![c] = "idle"]
    /\ doing' = [doing EXCEPT ![c] = "none"]
    /\ guess' = [guess EXCEPT ![c] = NoPin]
    /\ read' = [read EXCEPT ![c] = NoPin]
    /\ overtaken' = overtaken \ {c}

(* The credential changes under the calls that have fetched it.            *)
Store(p) ==
    /\ credential' = p
    /\ overtaken' = overtaken \cup {c \in Clients : stage[c] \in {"record", "delete"}}

(* setPin hashes the PIN and upserts it, whatever was there.               *)
SetPin(c, p) ==
    /\ stage[c] = "idle"
    /\ Store(p)
    /\ stage' = [stage EXCEPT ![c] = "report"]
    /\ doing' = [doing EXCEPT ![c] = "set"]
    /\ UNCHANGED <<guess, read, left, events>>

(* verifyPin, by itself or as the beginning of disablePin.                 *)
Ask(c, method, p) ==
    /\ stage[c] = "idle"
    /\ stage' = [stage EXCEPT ![c] = "count"]
    /\ doing' = [doing EXCEPT ![c] = method]
    /\ guess' = [guess EXCEPT ![c] = p]
    /\ UNCHANGED <<read, credential, left, events, overtaken>>

(* A row is inserted, with the time of the database.                       *)
Insert ==
    /\ Failed # Rows
    /\ left' = [left EXCEPT ![CHOOSE r \in Rows \ Failed : TRUE] = Window]

(* Faulty counts: one failure too many passes; a refusal counts, too.      *)
CountFailuresLate(c) ==
    /\ stage[c] = "count"
    /\ IF Cardinality(Failed) > MaxFailures
         THEN Return(c)
         ELSE Go(c, "fetch") /\ UNCHANGED overtaken
    /\ UNCHANGED <<credential, left, events>>
CountFailuresRecording(c) ==
    /\ stage[c] = "count"
    /\ \/ ~ Locked /\ Go(c, "fetch") /\ UNCHANGED <<left, overtaken>>
       \/ Locked /\ Return(c) /\ Insert
    /\ UNCHANGED <<credential, events>>

(* 1. A locked account refuses, and the refusal leaves no trace.           *)
CountFailures(c) ==
    /\ stage[c] = "count"
    /\ \/ ~ Locked /\ Go(c, "fetch") /\ UNCHANGED overtaken
       \/ Locked /\ Return(c)
    /\ UNCHANGED <<credential, left, events>>

(* 2. No credential is an error.                                           *)
FetchCredential(c) ==
    /\ stage[c] = "fetch"
    /\ \/ /\ credential # NoPin
          /\ stage' = [stage EXCEPT ![c] = "record"]
          /\ read' = [read EXCEPT ![c] = credential]
          /\ UNCHANGED <<doing, guess, overtaken>>
       \/ credential = NoPin /\ Return(c)
    /\ UNCHANGED <<credential, left, events>>

(* A faulty disablePin goes on whatever verifyPin says.                    *)
RecordAttemptHeedless(c) ==
    /\ stage[c] = "record"
    /\ \/ guess[c] = read[c] /\ UNCHANGED left
       \/ guess[c] # read[c] /\ Insert
    /\ \/ doing[c] = "disable" /\ Go(c, "delete") /\ UNCHANGED overtaken
       \/ doing[c] # "disable" /\ Return(c)
    /\ UNCHANGED <<credential, events>>

(* 3. The attempt is recorded.  Only failures are counted, so a row for a  *)
(* success is left out.  disablePin goes on when the PIN was right.        *)
RecordAttempt(c) ==
    /\ stage[c] = "record"
    /\ \/ guess[c] = read[c] /\ UNCHANGED left
       \/ guess[c] # read[c] /\ Insert
    /\ \/ /\ guess[c] = read[c] /\ doing[c] = "disable"
          /\ Go(c, "delete") /\ UNCHANGED overtaken
       \/ guess[c] # read[c] /\ Return(c)
       \/ doing[c] # "disable" /\ Return(c)
    /\ UNCHANGED <<credential, events>>

(* disablePin deletes the credential of the account, whichever it is now.  *)
DeleteCredential(c) ==
    /\ stage[c] = "delete"
    /\ Store(NoPin)
    /\ Go(c, "report")
    /\ UNCHANGED <<left, events>>

Report(c) ==
    /\ stage[c] = "report"
    /\ events' = events \cup {IF doing[c] = "set" THEN "enabled" ELSE "disabled"}
    /\ Return(c)
    /\ UNCHANGED <<credential, left>>

(* A query fails, or the process dies; what was done before stays.         *)
Fail(c) ==
    /\ stage[c] # "idle"
    /\ Return(c)
    /\ UNCHANGED <<credential, left, events>>

(* A minute passes.                                                        *)
Tick ==
    /\ Failed # {}
    /\ left' = [r \in Rows |-> IF left[r] > 0 THEN left[r] - 1 ELSE 0]
    /\ UNCHANGED <<credential, events, call, overtaken>>

Next ==
    \/ \E c \in Clients, p \in Pins :
           SetPin(c, p) \/ Ask(c, "verify", p) \/ Ask(c, "disable", p)
    \/ \E c \in Clients :
           \/ CountFailures(c) \/ FetchCredential(c) \/ RecordAttempt(c)
           \/ DeleteCredential(c) \/ Report(c) \/ Fail(c)
    \/ Tick

Spec == Init /\ [][Next]_vars

(* Time passes; nobody need answer.                                        *)
FairSpec == Spec /\ WF_vars(Tick)

-----------------------------------------------------------------------------
(* Calls count the failures before they compare and record theirs after,   *)
(* so that concurrent ones get past the limit together, but by no more     *)
(* than there are callers: in any window the failed attempts, with those   *)
(* under way, stay below the limit and one for each caller.                *)
FailuresBounded ==
    Cardinality(Failed) + Cardinality(Comparing) < MaxFailures + Cardinality(Clients)

(* The lock is removed only by a disablePin whose guess was the credential *)
(* it removes, or was when that call fetched it: disablePin deletes by the *)
(* account, and so a credential that was set in the meantime goes, too.    *)
RemovalWasEarned ==
    [][credential # NoPin /\ credential' = NoPin =>
          \E c \in Clients :
              /\ stage[c] = "delete" /\ doing[c] = "disable"
              /\ guess[c] = read[c]
              /\ guess[c] = credential \/ c \in overtaken]_vars

(* A locked account opens again, however often it is tried: attempts the   *)
(* lock refuses are not recorded, and those that got past it are few.  New *)
(* failures may lock it afterwards.                                        *)
LockOpens == Locked ~> ~ Locked
=============================================================================
