------------------------------ MODULE Sessions ------------------------------
(***************************************************************************)
(* The session of an account (session.service.ts), the guard in front of   *)
(* its handlers (jwt-auth.guard.ts) and the revocation of its device       *)
(* (device.service.ts), query by query, with the row locks of PostgreSQL.  *)
(* Registration gives an account one device, one session, one family of    *)
(* refresh tokens and one token in it, and accounts share no row.          *)
(***************************************************************************)
EXTENDS Naturals

CONSTANTS
    Calls,      \* calls of the API, retries included
    Kind        \* what each call asks for

Kinds == {"refresh", "revoke", "logout", "logout all"}

ASSUME CallsAssumption == Kind \in [Calls -> Kinds]

(* The rows of devices, sessions, refresh_token_families, refresh_tokens.  *)
Rows == {"device", "session", "family", "token"}

(* A call waits for the guard's answer, for a row, or for its COMMIT (its  *)
(* return, when it has no transaction).                                    *)
Stages == {"idle", "guard"} \cup Rows \cup {"end", "answered"}

Answers == {"none", "ok", "unauthorized", "not found", "invalid token",
            "foreign key", "error"}

VARIABLES
    dead,       \* rows committed as revoked or compromised
    holder,     \* the calls whose transaction has locked a row
    stage,      \* what a call waits for
    answer,     \* what it was answered
    late,       \* it began after one that ends the session was answered ok
    age         \* 0, 1: the access token has expired, 2: the refresh token too

calls == <<stage, answer, late>>
vars == <<dead, holder, calls, age>>

TypeOK ==
    /\ dead \subseteq Rows
    /\ holder \in [Rows -> SUBSET Calls]
    /\ stage \in [Calls -> Stages]
    /\ answer \in [Calls -> Answers]
    /\ late \in [Calls -> BOOLEAN]
    /\ age \in 0 .. 2

(* After createSession.                                                    *)
Init ==
    /\ dead = {}
    /\ holder = [r \in Rows |-> {}]
    /\ stage = [c \in Calls |-> "idle"]
    /\ answer = [c \in Calls |-> "none"]
    /\ late = [c \in Calls |-> FALSE]
    /\ age = 0

-----------------------------------------------------------------------------
Guarded(c) == Kind[c] # "refresh"

(* Calls with a transaction of several statements.                         *)
Transactional(c) == Kind[c] \in {"refresh", "revoke"}

(* The rows in the order in which a call asks for them.  A rotation locks  *)
(* the token, then the family; the others go the other way.                *)
FirstRow(c) ==
    CASE Kind[c] = "refresh" -> "token"
      [] Kind[c] = "revoke" -> "device"
      [] OTHER -> "session"

(* Faulty: the tokens of the family are forgotten.                         *)
AfterForgetful(c, r) ==
    CASE r = "device" -> "session"
      [] r = "session" -> IF Kind[c] = "logout" THEN "end" ELSE "family"
      [] r = "family" -> "end"
      [] r = "token" -> IF Kind[c] = "refresh" THEN "family" ELSE "end"

After(c, r) ==
    CASE r = "device" -> "session"
      [] r = "session" -> IF Kind[c] = "logout" THEN "end" ELSE "family"
      [] r = "family" -> IF Kind[c] = "refresh" THEN "end" ELSE "token"
      [] r = "token" -> IF Kind[c] = "refresh" THEN "family" ELSE "end"

Free(r) == holder[r] = {}

Go(c, s) == stage' = [stage EXCEPT ![c] = s]

(* Faulty: an error is passed on without ROLLBACK.                         *)
ReturnHolding(c, a) ==
    /\ Go(c, "answered")
    /\ answer' = [answer EXCEPT ![c] = a]
    /\ holder' = [r \in Rows |-> IF a = "ok" THEN holder[r] \ {c} ELSE holder[r]]

(* The answer to the caller; a transaction that is open ends with it.      *)
Return(c, a) ==
    /\ Go(c, "answered")
    /\ answer' = [answer EXCEPT ![c] = a]
    /\ holder' = [r \in Rows |-> holder[r] \ {c}]

(* Every kind of call but a refresh ends the session.                      *)
Ended == \E d \in Calls : Guarded(d) /\ answer[d] = "ok"

(* A guarded call whose access token has expired goes no further.          *)
Begin(c) ==
    /\ stage[c] = "idle"
    /\ late' = [late EXCEPT ![c] = Ended]
    /\ IF Guarded(c) /\ age > 0
         THEN Return(c, "unauthorized")
         ELSE /\ Go(c, IF Guarded(c) THEN "guard" ELSE FirstRow(c))
              /\ UNCHANGED <<holder, answer>>
    /\ UNCHANGED <<dead, age>>

(* A faulty guard, which looks at the device alone.                        *)
AdmitByDevice(c) ==
    /\ stage[c] = "guard"
    /\ "device" \notin dead
    /\ Go(c, FirstRow(c))
    /\ UNCHANGED <<dead, holder, answer, late, age>>

(* canActivate: one query over the session and its device.                 *)
Admit(c) ==
    /\ stage[c] = "guard"
    /\ dead \cap {"session", "device"} = {}
    /\ Go(c, FirstRow(c))
    /\ UNCHANGED <<dead, holder, answer, late, age>>

Reject(c) ==
    /\ stage[c] = "guard"
    /\ dead \cap {"session", "device"} # {}
    /\ Return(c, "unauthorized")
    /\ UNCHANGED <<dead, late, age>>

(* A statement of a transaction gets the row it waits for, and keeps it.   *)
(* The device is revoked only once.                                        *)
Lock(c) ==
    /\ Transactional(c)
    /\ stage[c] \in Rows /\ Free(stage[c])
    /\ stage[c] = "device" => "device" \notin dead
    /\ holder' = [holder EXCEPT ![stage[c]] = {c}]
    /\ Go(c, After(c, stage[c]))
    /\ UNCHANGED <<dead, answer, late, age>>

NotFound(c) ==
    /\ Transactional(c)
    /\ stage[c] = "device" /\ Free("device") /\ "device" \in dead
    /\ Return(c, "not found")
    /\ UNCHANGED <<dead, late, age>>

(* A statement of its own: revokeSession, and the three of                 *)
(* revokeAllSessionsForUser.                                               *)
Write(c) ==
    /\ ~ Transactional(c)
    /\ stage[c] \in Rows /\ Free(stage[c])
    /\ dead' = dead \cup {stage[c]}
    /\ Go(c, After(c, stage[c]))
    /\ UNCHANGED <<holder, answer, late, age>>

(* The end of such a call, which has nothing to commit.                    *)
Done(c) ==
    /\ ~ Transactional(c) /\ stage[c] = "end"
    /\ Return(c, "ok")
    /\ UNCHANGED <<dead, late, age>>

(* COMMIT of revokeDevice.  It may take effect and its answer be lost.     *)
Commit(c) ==
    /\ Kind[c] = "revoke" /\ stage[c] = "end"
    /\ dead' = dead \cup {r \in Rows : c \in holder[r]}
    /\ Return(c, "ok") \/ Return(c, "error")
    /\ UNCHANGED <<late, age>>

(* rotateRefreshToken with both rows locked.  A token that may be rotated  *)
(* is made to refer to its replacement, which is inserted only by the next *)
(* statement: the foreign key of replacement_token_id, which is not        *)
(* deferrable, refuses the UPDATE, and nothing behind it is ever reached.  *)
Usable == dead \cap {"family", "token"} = {} /\ age < 2

Rotate(c) ==
    /\ Kind[c] = "refresh" /\ stage[c] = "end"
    /\ Return(c, IF Usable THEN "foreign key" ELSE "invalid token")
    /\ UNCHANGED <<dead, late, age>>

(* A query throws, or the API dies: ROLLBACK.                              *)
Fail(c) ==
    /\ stage[c] \notin {"idle", "answered"}
    /\ Return(c, "error")
    /\ UNCHANGED <<dead, late, age>>

(* Two transactions wait for each other's row: PostgreSQL ends one of them *)
(* with an error.                                                          *)
Deadlocked(c, d) ==
    /\ stage[c] \in Rows /\ d \in holder[stage[c]]
    /\ stage[d] \in Rows /\ c \in holder[stage[d]]

Deadlock(c) ==
    /\ \E d \in Calls : Deadlocked(c, d)
    /\ Return(c, "error")
    /\ UNCHANGED <<dead, late, age>>

(* 15 minutes, and 30 days.                                                *)
Expire ==
    /\ age < 2
    /\ age' = age + 1
    /\ UNCHANGED <<dead, holder, calls>>

(* What the database does for a call that it was sent.                     *)
Advance(c) ==
    \/ Admit(c) \/ Reject(c)
    \/ Lock(c) \/ NotFound(c) \/ Commit(c)
    \/ Write(c) \/ Done(c)
    \/ Rotate(c)
    \/ Deadlock(c)

Next ==
    \/ \E c \in Calls : Begin(c) \/ Advance(c) \/ Fail(c)
    \/ Expire

Spec == Init /\ [][Next]_vars

(* The database does not rest while there is a call it could serve.        *)
FairSpec == Spec /\ WF_vars(\E c \in Calls : Advance(c))

-----------------------------------------------------------------------------
(* Past the guard, and not answered yet.                                   *)
Admitted(c) == Guarded(c) /\ stage[c] \in Rows \cup {"end"}

(* An ok answer says what was done, and a device is never revoked without  *)
(* its session and its tokens: not by a commit whose answer is lost, nor   *)
(* by a transaction that a refresh or another revocation runs into.        *)
AnswersStand ==
    /\ "device" \in dead => dead = Rows
    /\ \A c \in Calls :
          answer[c] = "ok" =>
             /\ "session" \in dead
             /\ Kind[c] = "logout all" => {"family", "token"} \subseteq dead
             /\ Kind[c] = "revoke" => dead = Rows

(* Whoever has been told that the session is over may rely on it: no call  *)
(* that begins later with its access token passes the guard.               *)
NothingAfterTheEnd == \A c \in Calls : late[c] => ~ Admitted(c) /\ answer[c] # "ok"

(* Once the session is revoked and no call is past the guard any more, the *)
(* account stays as it is: a logout from everywhere that failed half-way   *)
(* leaves its tokens unrevoked for good, and repeating it is of no use,    *)
(* since the guard refuses it.                                             *)
Stuck == "session" \in dead /\ \A c \in Calls : ~ Admitted(c)
HalfDoneStays == [][Stuck => Stuck' /\ dead' = dead]_vars

(* Every call that begins is answered, though rotation and revocation lock *)
(* the same rows in opposite orders: in the end none is left waiting.      *)
EveryCallAnswered == <>[](\A c \in Calls : stage[c] \in {"idle", "answered"})

(* Every refresh with a valid token is answered with a new pair.           *)
RefreshHonoured ==
    \A c \in Calls : Kind[c] = "refresh" =>
        answer[c] \in {"none", "ok", "invalid token", "error"}
=============================================================================
