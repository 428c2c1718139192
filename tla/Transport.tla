----------------------------- MODULE Transport -----------------------------
(***************************************************************************)
(* The message transport as a whole: calls of submitEnvelope               *)
(* (EnvelopeSubmission) put rows into message_recipient_devices, the       *)
(* worker and the recipients' calls (Delivery) carry them on.  The two     *)
(* meet in the database (RecipientRows): the rows a submission commits are *)
(* the ones Delivery finds, and both see a device revoked at once.         *)
(***************************************************************************)
EXTENDS EnvelopeSubmission, Delivery

vars == <<revoked, rows, callVars, processVars>>

Init == SubmissionInit /\ DeliveryInit

(* The commit of a submission is the insertion of its rows.                *)
Submit(q) == Commit(q) /\ Accept(q, targets[q])

(* Every other step of a call leaves the rows alone.                       *)
Call(q) ==
    /\ CheckDevice(q) \/ Advance(q) \/ Fail(q)
    /\ UNCHANGED processVars

Revoke(d) == RevokeDevice(d) /\ UNCHANGED <<callVars, processVars>>

Deliver == Process /\ UNCHANGED callVars

Next ==
    \/ \E q \in Requests : Submit(q) \/ Call(q)
    \/ \E d \in Devices : Revoke(d)
    \/ Deliver

Spec == Init /\ [][Next]_vars

(* Faulty queries: rows out of attempts are left out; the recipient is not *)
(* compared.                                                               *)
PendingWithAttemptsLeft(user, d) ==
    {e \in envelopes : /\ e.recipient = user
                       /\ <<e, d>> \in Eligible}
PendingOfDevice(user, d) ==
    {e \in envelopes : /\ <<e, d>> \in rows
                       /\ status[<<e, d>>] \in Pending
                       /\ ~ Expired(<<e, d>>)}

(* getPendingEnvelopes: what a device that reconnects is given.            *)
PendingEnvelopes(user, d) ==
    {e \in envelopes : /\ e.recipient = user
                       /\ <<e, d>> \in rows
                       /\ status[<<e, d>>] \in Pending
                       /\ ~ Expired(<<e, d>>)}

(* getEnvelopeStatus, for the two ends of an envelope: the status of its   *)
(* rows, read by a second query.                                           *)
MayAsk(user, e) == e \in envelopes /\ user \in {e.sender, e.recipient}
EnvelopeStatus(e) == [r \in {r \in rows : EnvelopeOf(r) = e} |-> status[r]]

-----------------------------------------------------------------------------
(* A message whose sender was told "ok" is not lost: each active device of *)
(* the recipient is given it when it reconnects, or has acknowledged it,   *)
(* or it has expired, whatever the worker, repeated acknowledgements and   *)
(* crashes have done to its row in the meantime; and the sender who asks   *)
(* for its status, with a retry's answer too, is told of each of them.     *)
NoMessageLost ==
    \A q \in Requests, d \in Devices :
        LET e == answer[q].envelope IN
        answer[q].outcome = "ok" /\ OwnerOf[d] = e.recipient /\ d \notin revoked =>
            /\ \/ e \in PendingEnvelopes(e.recipient, d)
               \/ acks[<<e, d>>] > 0
               \/ Expired(<<e, d>>)
            /\ MayAsk(q.sender, e) /\ <<e, d>> \in DOMAIN EnvelopeStatus(e)

(* The worker wakes up, and a device is given, nothing but committed       *)
(* envelopes addressed to the owner of the device.                         *)
OnlyRecipientsReached ==
    /\ \A w \in Workers : \A r \in batch[w] :
          r[1] \in envelopes /\ OwnerOf[r[2]] = r[1].recipient
    /\ \A u \in Users, d \in Devices :
          PendingEnvelopes(u, d) # {} => OwnerOf[d] = u

(* The transport seen from its two ends: a row is with its device as its   *)
(* status says, and what a sender was promised is what a call was answered *)
(* with.                                                                   *)
InStatus(statuses) == {r \in rows : status[r] \in statuses}
Told == {answer[q].envelope : q \in {q \in Requests : answer[q].outcome = "ok"}}

Mail == INSTANCE Mailbox WITH
            Messages <- Requests, MaxReminders <- MaxAttempts - 1 + Cardinality(Workers),
            accepted <- envelopes, promised <- Told,
            waiting <- InStatus(Pending), taken <- InStatus({"delivered"}),
            lapsed <- InStatus({"expired"}), reminders <- attempts

(* Whatever the calls, the workers and the recipients do to each other's   *)
(* rows: an envelope reaches all active devices of its recipient in one    *)
(* step, once; nobody is promised another one; and no device loses what    *)
(* waits for it but by an acknowledgement or by its expiry, nor is         *)
(* reminded of it beyond the limit of overlapping workers.                 *)
ImplementsMailbox == Mail!Spec
=============================================================================
