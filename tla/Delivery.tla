------------------------------ MODULE Delivery ------------------------------
(***************************************************************************)
(* The life of the rows of message_recipient_devices: one row per envelope *)
(* and recipient device, written by four programs that share only the      *)
(* database:                                                               *)
(*                                                                         *)
(*   - submitEnvelope inserts the rows of an envelope ("accepted");        *)
(*   - processOfflineMessageRetries, invoked by any number of workers at   *)
(*     once, SELECTs a batch and then UPDATEs its rows one at a time;      *)
(*   - processExpiredEnvelopeCleanup expires, in one statement, the        *)
(*     pending rows of the envelopes past their expires_at;                *)
(*   - acknowledgeDelivery SELECTs a row to authorise the caller and, in a *)
(*     later transaction, sets it "delivered" and inserts a row of         *)
(*     message_acknowledgements.                                           *)
(*                                                                         *)
(* Every statement is one action.  What a program read is kept between its *)
(* statements (batch, acking), so the other programs run in between.       *)
(***************************************************************************)
EXTENDS Integers, FiniteSets, RecipientRows

CONSTANTS
    Workers,        \* concurrent invocations of processOfflineMessageRetries
    MaxAttempts,    \* the attempts at which the retry query stops selecting: 5
    BatchLimit,     \* the LIMIT of the retry query: 50
    MaxTime,        \* bound on the clock
    MaxAcks         \* bound on the acknowledgements begun for one row

ASSUME ExpiryAssumption == \A e \in Requests : e.expiresAt \in Int
ASSUME BoundsAssumption ==
    /\ MaxAttempts \in Nat \ {0}
    /\ BatchLimit \in Nat \ {0}
    /\ MaxTime \in Nat
    /\ MaxAcks \in Nat
ASSUME WorkersAssumption == IsFiniteSet(Workers)

VARIABLES
    now,            \* CURRENT_TIMESTAMP
    status,         \* delivery_status of each row, "absent" before the insert
    attempts,       \* delivery_attempts_count of each row
    acks,           \* 'delivery' rows of message_acknowledgements, per row
    acking,         \* calls of acknowledgeDelivery past their SELECT, per row
    batch           \* rows each worker has selected and not yet updated

rowVars == <<status, attempts>>
ackVars == <<acks, acking>>
processVars == <<now, rowVars, ackVars, batch>>
deliveryVars == <<revoked, rows, processVars>>

-----------------------------------------------------------------------------
(* 'routed' is in the queries and in the CHECK of the column, and nothing  *)
(* writes it.                                                              *)
Pending == {"accepted", "queued"}
Settled == {"delivered", "expired"}
Statuses == {"absent"} \cup Pending \cup Settled

Expired(r) == EnvelopeOf(r).expiresAt <= now

DeliveryTypeOK ==
    /\ now \in 0..MaxTime
    /\ revoked \in SUBSET Devices
    /\ rows \in SUBSET Records
    /\ status \in [Records -> Statuses]
    /\ attempts \in [Records -> Nat]
    /\ acks \in [Records -> Nat]
    /\ acking \in [Records -> Nat]
    /\ batch \in [Workers -> SUBSET Records]

DeliveryInit ==
    /\ now = 0
    /\ revoked = {}
    /\ rows = {}
    /\ status = [r \in Records |-> "absent"]
    /\ attempts = [r \in Records |-> 0]
    /\ acks = [r \in Records |-> 0]
    /\ acking = [r \in Records |-> 0]
    /\ batch = [w \in Workers |-> {}]

-----------------------------------------------------------------------------
(* The commit of submitEnvelope: the rows of a new envelope appear         *)
(* together.  expires_at may already be past, since nothing compares it    *)
(* with the clock, and the set of devices may be empty.                    *)
Accept(e, devices) ==
    /\ \A d \in Devices : <<e, d>> \notin rows
    /\ rows' = rows \cup ({e} \X devices)
    /\ status' = [r \in Records |->
                     IF EnvelopeOf(r) = e /\ DeviceOf(r) \in devices
                     THEN "accepted" ELSE status[r]]
    /\ UNCHANGED <<now, revoked, attempts, ackVars, batch>>

(* Faulty variants of the query: an off-by-one, a forgotten status test.   *)
EligibleOneMore ==
    {r \in rows : status[r] \in Pending /\ ~ Expired(r) /\ attempts[r] <= MaxAttempts}
EligibleAnyStatus ==
    {r \in rows : ~ Expired(r) /\ attempts[r] < MaxAttempts}

(* The rows the retry query selects from.  Revocation is not looked at.    *)
Eligible ==
    {r \in rows : /\ status[r] \in Pending
                  /\ ~ Expired(r)
                  /\ attempts[r] < MaxAttempts}

(* The SELECT of one invocation: BatchLimit of the eligible rows, or all   *)
(* of them, in no particular order.  An invocation that finds none ends    *)
(* without changing anything.                                              *)
RetrySelect(w) ==
    /\ batch[w] = {}
    /\ Eligible # {}
    /\ \E selected \in SUBSET Eligible :
          /\ \/ selected = Eligible /\ Cardinality(selected) <= BatchLimit
             \/ Cardinality(selected) = BatchLimit
          /\ batch' = [batch EXCEPT ![w] = selected]
    /\ UNCHANGED <<now, revoked, rows, rowVars, ackVars>>

(* A faulty UPDATE, which does not count the attempt.                      *)
RetryUpdateUncounted(w, r) ==
    /\ r \in batch[w]
    /\ status' = [status EXCEPT ![r] = "queued"]
    /\ batch' = [batch EXCEPT ![w] = @ \ {r}]
    /\ UNCHANGED <<now, revoked, rows, attempts, ackVars>>

(* The UPDATE of one selected row, WHERE id = $1 and nothing else, with    *)
(* the increment evaluated by the database on the row's current value.     *)
RetryUpdate(w, r) ==
    /\ r \in batch[w]
    /\ status' = [status EXCEPT ![r] = "queued"]
    /\ attempts' = [attempts EXCEPT ![r] = @ + 1]
    /\ batch' = [batch EXCEPT ![w] = @ \ {r}]
    /\ UNCHANGED <<now, revoked, rows, ackVars>>

(* A query throws, or the process dies: the rest of the batch is dropped.  *)
RetryAbandon(w) ==
    /\ batch[w] # {}
    /\ batch' = [batch EXCEPT ![w] = {}]
    /\ UNCHANGED <<now, revoked, rows, rowVars, ackVars>>

(* A faulty cleanup, which compares expires_at the wrong way round.        *)
ExpireCleanupEarly ==
    LET due == {r \in rows : status[r] \in Pending /\ ~ Expired(r)}
    IN  /\ due # {}
        /\ status' = [r \in Records |-> IF r \in due THEN "expired" ELSE status[r]]
        /\ UNCHANGED <<now, revoked, rows, attempts, ackVars, batch>>

(* One invocation of processExpiredEnvelopeCleanup: a single statement,    *)
(* whose row locks re-evaluate the WHERE clause.                           *)
ExpireCleanup ==
    LET due == {r \in rows : status[r] \in Pending /\ Expired(r)}
    IN  /\ due # {}
        /\ status' = [r \in Records |->
                         IF r \in due THEN "expired" ELSE status[r]]
        /\ UNCHANGED <<now, revoked, rows, attempts, ackVars, batch>>

(* The SELECT of acknowledgeDelivery finds the row, and the caller is the  *)
(* recipient.  The status it also reads is never looked at.  A call it     *)
(* refuses changes nothing.                                                *)
AckSelect(r) ==
    /\ r \in rows
    /\ acks[r] + acking[r] < MaxAcks
    /\ acking' = [acking EXCEPT ![r] = @ + 1]
    /\ UNCHANGED <<now, revoked, rows, rowVars, acks, batch>>

(* The transaction of acknowledgeDelivery: UPDATE by id, INSERT, COMMIT.   *)
AckCommit(r) ==
    /\ acking[r] > 0
    /\ status' = [status EXCEPT ![r] = "delivered"]
    /\ acks' = [acks EXCEPT ![r] = @ + 1]
    /\ acking' = [acking EXCEPT ![r] = @ - 1]
    /\ UNCHANGED <<now, revoked, rows, attempts, batch>>

(* The transaction is rolled back, or the process dies before it commits.  *)
AckAbort(r) ==
    /\ acking[r] > 0
    /\ acking' = [acking EXCEPT ![r] = @ - 1]
    /\ UNCHANGED <<now, revoked, rows, rowVars, acks, batch>>

Tick ==
    /\ now < MaxTime
    /\ now' = now + 1
    /\ UNCHANGED <<revoked, rows, rowVars, ackVars, batch>>

(* The programs that run after the insert.                                 *)
Process ==
    \/ \E w \in Workers :
          \/ RetrySelect(w)
          \/ \E r \in Records : RetryUpdate(w, r)
          \/ RetryAbandon(w)
    \/ ExpireCleanup
    \/ \E r \in Records : AckSelect(r) \/ AckCommit(r) \/ AckAbort(r)
    \/ Tick

DeliveryNext ==
    \/ \E e \in Requests, devices \in SUBSET Devices : Accept(e, devices)
    \/ \E d \in Devices : RevokeDevice(d) /\ UNCHANGED processVars
    \/ Process

(* Nothing is assumed of when, or whether, the processors are invoked.     *)
DeliverySpec == DeliveryInit /\ [][DeliveryNext]_deliveryVars

-----------------------------------------------------------------------------
(* Safety.                                                                 *)

Holders(r) == {w \in Workers : r \in batch[w]}

(* Invocations that overlap may push a row past the limit the query reads, *)
(* since the UPDATE does not repeat the test, but by no more than one      *)
(* attempt for each invocation beyond the first.                           *)
AttemptsBounded ==
    \A r \in Records : attempts[r] <= MaxAttempts - 1 + Cardinality(Workers)

(* The strengthening that is inductive: an attempt is charged for when the *)
(* row enters a batch, and paid when the UPDATE is made.                   *)
ChargedAttemptsBounded ==
    \A r \in Records :
        attempts[r] + Cardinality(Holders(r)) <= MaxAttempts - 1 + Cardinality(Workers)

(* The limit of the retry query as the limit of a row's attempts: what     *)
(* OFFLINE_DELIVERY.md and ADR-055 promise, "up to 5 max attempts".        *)
AttemptsWithinMax == \A r \in Records : attempts[r] <= MaxAttempts

(* A row is "delivered" only with an acknowledgement on record, "expired"  *)
(* only once its envelope has expired; it has a status from its insert on, *)
(* and nothing touches it before.                                          *)
StatusJustified ==
    \A r \in Records :
        /\ status[r] = "delivered" => acks[r] > 0
        /\ status[r] = "expired" => Expired(r)
        /\ r \in rows <=> status[r] # "absent"
        /\ r \notin rows => /\ attempts[r] = 0
                            /\ acks[r] = 0 /\ acking[r] = 0
                            /\ Holders(r) = {}

(* A settled row that no batch still holds is out of the workers' reach:   *)
(* no later step selects it, attempts it or makes it pending again.  The   *)
(* batches taken before it settled are the only way back.                  *)
OutOfReach(r) == status[r] \in Settled /\ Holders(r) = {}
SettledStayOutOfReach ==
    [][\A r \in Records : OutOfReach(r) => OutOfReach(r)']_deliveryVars

(* A row goes back from a settled status only through a worker that had    *)
(* selected it, and that costs it one of its attempts: the returns to      *)
(* "queued" of one row are bounded with its attempts.                      *)
ReturnsCostAnAttempt ==
    [][\A r \in Records :
          status[r] \in Settled /\ status'[r] \in Pending
              => Holders(r) # {} /\ attempts'[r] = attempts[r] + 1]_deliveryVars
=============================================================================
