------------------------- MODULE EnvelopeSubmission -------------------------
(***************************************************************************)
(* MessageEnvelopeService.submitEnvelope, one action per query: any number *)
(* of calls run at once in one or several API processes, and each awaits   *)
(* its queries one after the other, so that other calls and the revocation *)
(* of devices run in between.  The checks, the idempotency lookup and the  *)
(* choice of the recipient devices are made on the pool, outside the       *)
(* transaction that inserts the envelope, its key and its rows.            *)
(***************************************************************************)
EXTENDS RecipientRows

CONSTANTS
    Users,
    OwnerOf,        \* user_id of each device
    Members         \* conversation_members: pairs of a conversation and a user

ASSUME OwnerAssumption == OwnerOf \in [Devices -> Users]

VARIABLES
    envelopes,      \* committed rows of message_envelopes
    keys,           \* committed rows of message_idempotency_keys
    pc,             \* the query each call awaits
    found,          \* the envelope the idempotency lookup returned
    targets,        \* the recipient devices a call has read
    answer          \* what a call returned or threw

tables == <<envelopes, keys, rows>>
callVars == <<envelopes, keys, pc, found, targets, answer>>
submissionVars == <<revoked, rows, callVars>>

Stages == {"idle", "membership", "lookup", "cached", "resolve",
           "insertEnvelope", "insertKey", "commit", "answered"}

SubmissionTypeOK ==
    /\ revoked \in SUBSET Devices
    /\ envelopes \in SUBSET Requests
    /\ keys \in [Keys -> Requests \cup {NoEnvelope}]
    /\ rows \in SUBSET Records
    /\ pc \in [Requests -> Stages]
    /\ found \in [Requests -> Requests \cup {NoEnvelope}]
    /\ targets \in [Requests -> SUBSET Devices]
    /\ answer \in [Requests -> Answers]

SubmissionInit ==
    /\ revoked = {}
    /\ envelopes = {}
    /\ keys = [k \in Keys |-> NoEnvelope]
    /\ rows = {}
    /\ pc = [q \in Requests |-> "idle"]
    /\ found = [q \in Requests |-> NoEnvelope]
    /\ targets = [q \in Requests |-> {}]
    /\ answer = [q \in Requests |-> NoAnswer]

-----------------------------------------------------------------------------
Go(q, from, to) ==
    /\ pc[q] = from
    /\ pc' = [pc EXCEPT ![q] = to]

Return(q, from, a) ==
    /\ Go(q, from, "answered")
    /\ answer' = [answer EXCEPT ![q] = a]

(* 1. The sender's device exists, is the sender's and is not revoked.      *)
SenderActive(q) ==
    /\ q.device \in Devices
    /\ OwnerOf[q.device] = q.sender
    /\ q.device \notin revoked

CheckDevice(q) ==
    /\ \/ SenderActive(q) /\ Go(q, "idle", "membership") /\ UNCHANGED answer
       \/ ~ SenderActive(q) /\ Return(q, "idle", Refusal("forbidden"))
    /\ UNCHANGED <<revoked, tables, found, targets>>

(* A faulty check, which forgets the membership.                           *)
CheckMembershipSizeOnly(q) ==
    /\ \/ q.oversize /\ Return(q, "membership", Refusal("badRequest"))
       \/ ~ q.oversize /\ Go(q, "membership", "lookup") /\ UNCHANGED answer
    /\ UNCHANGED <<revoked, tables, found, targets>>

(* 2. and 3.  The sender is a member, and the payload fits.                *)
CheckMembership(q) ==
    /\ \/ /\ <<q.conversation, q.sender>> \notin Members
          /\ Return(q, "membership", Refusal("forbidden"))
       \/ /\ <<q.conversation, q.sender>> \in Members
          /\ q.oversize
          /\ Return(q, "membership", Refusal("badRequest"))
       \/ /\ <<q.conversation, q.sender>> \in Members
          /\ ~ q.oversize
          /\ Go(q, "membership", "lookup")
          /\ UNCHANGED answer
    /\ UNCHANGED <<revoked, tables, found, targets>>

(* A faulty lookup, which trusts the key alone.                            *)
LookupKeyOnly(q) ==
    /\ \/ keys[KeyOf(q)] = NoEnvelope /\ Go(q, "lookup", "resolve")
       \/ keys[KeyOf(q)] # NoEnvelope /\ Go(q, "lookup", "cached")
    /\ found' = [found EXCEPT ![q] = keys[KeyOf(q)]]
    /\ UNCHANGED <<revoked, tables, targets, answer>>

(* 4. The idempotency lookup, which sees committed keys only.              *)
Lookup(q) ==
    LET e == keys[KeyOf(q)]
    IN  /\ \/ /\ e = NoEnvelope
              /\ Go(q, "lookup", "resolve")
              /\ UNCHANGED <<found, answer>>
           \/ /\ e # NoEnvelope
              /\ e.digest # q.digest
              /\ Return(q, "lookup", Refusal("badRequest"))
              /\ UNCHANGED found
           \/ /\ e # NoEnvelope
              /\ e.digest = q.digest
              /\ Go(q, "lookup", "cached")
              /\ found' = [found EXCEPT ![q] = e]
              /\ UNCHANGED answer
        /\ UNCHANGED <<revoked, tables, targets>>

(* The envelope the key names is read and returned as an idempotent retry. *)
ReturnCached(q) ==
    /\ Return(q, "cached", Ok(found[q]))
    /\ UNCHANGED <<revoked, tables, found, targets>>

(* A faulty choice, with the test of is_revoked inverted.                  *)
ResolveRevokedDevices(q) ==
    /\ Go(q, "resolve", "insertEnvelope")
    /\ targets' = [targets EXCEPT ![q] = {d \in Devices : OwnerOf[d] = q.recipient} \cap revoked]
    /\ UNCHANGED <<revoked, tables, found, answer>>

(* 5. The recipient's devices that are active now.                         *)
ResolveDevices(q) ==
    /\ Go(q, "resolve", "insertEnvelope")
    /\ targets' = [targets EXCEPT ![q] =
                      {d \in Devices : OwnerOf[d] = q.recipient /\ d \notin revoked}]
    /\ UNCHANGED <<revoked, tables, found, answer>>

(* BEGIN and the first INSERT.  Nothing of a transaction is seen by        *)
(* others before its commit.  An unknown recipient violates a foreign key. *)
InsertEnvelope(q) ==
    /\ \/ q.recipient \in Users /\ Go(q, "insertEnvelope", "insertKey") /\ UNCHANGED answer
       \/ q.recipient \notin Users /\ Return(q, "insertEnvelope", Refusal("failed"))
    /\ UNCHANGED <<revoked, tables, found, targets>>

(* The INSERT under unq_device_idempotency: it waits while an open         *)
(* transaction has inserted the same key, goes ahead when that one is      *)
(* rolled back, and is refused when the key is committed, upon which the   *)
(* whole transaction is rolled back and the error rethrown.                *)
HoldsKey(q) == pc[q] = "commit"

(* Faulty inserts: with no unique constraint; refused by a transaction     *)
(* that is still open; waiting for ever where the constraint would refuse. *)
InsertKeyNotUnique(q) ==
    /\ Go(q, "insertKey", "commit")
    /\ UNCHANGED <<revoked, tables, found, targets, answer>>
InsertKeyImpatient(q) ==
    LET rivals == {other \in Requests : HoldsKey(other) /\ SameKey(other, q)} IN
    /\ IF keys[KeyOf(q)] = NoEnvelope /\ rivals = {}
         THEN Go(q, "insertKey", "commit") /\ UNCHANGED answer
         ELSE Return(q, "insertKey", Refusal("conflict"))
    /\ UNCHANGED <<revoked, tables, found, targets>>
InsertKeyWaits(q) ==
    /\ \A other \in Requests : HoldsKey(other) => ~ SameKey(other, q)
    /\ keys[KeyOf(q)] = NoEnvelope
    /\ Go(q, "insertKey", "commit")
    /\ UNCHANGED <<revoked, tables, found, targets, answer>>

InsertKey(q) ==
    /\ \A other \in Requests : HoldsKey(other) => ~ SameKey(other, q)
    /\ \/ /\ keys[KeyOf(q)] = NoEnvelope
          /\ Go(q, "insertKey", "commit")
          /\ UNCHANGED answer
       \/ /\ keys[KeyOf(q)] # NoEnvelope
          /\ Return(q, "insertKey", Refusal("conflict"))
    /\ UNCHANGED <<revoked, tables, found, targets>>

(* A faulty commit, of a transaction that has left out the key.            *)
CommitWithoutKey(q) ==
    /\ Return(q, "commit", Ok(q))
    /\ envelopes' = envelopes \cup {q}
    /\ rows' = rows \cup ({q} \X targets[q])
    /\ UNCHANGED <<revoked, keys, found, targets>>

(* The rows of the devices read before the transaction, and COMMIT.  The   *)
(* commit may take effect and its answer be lost.                          *)
Commit(q) ==
    /\ \/ Return(q, "commit", Ok(q))
       \/ Return(q, "commit", Refusal("failed"))
    /\ envelopes' = envelopes \cup {q}
    /\ keys' = [keys EXCEPT ![KeyOf(q)] = q]
    /\ rows' = rows \cup ({q} \X targets[q])
    /\ UNCHANGED <<revoked, found, targets>>

(* A query throws, the pool gives no connection in time, or the process    *)
(* dies: an open transaction is rolled back.                               *)
Fail(q) ==
    /\ pc[q] \notin {"idle", "answered"}
    /\ Return(q, pc[q], Refusal("failed"))
    /\ UNCHANGED <<revoked, tables, found, targets>>

(* The steps of a call up to its transaction's end, and the rest.          *)
Advance(q) ==
    \/ CheckMembership(q) \/ Lookup(q) \/ ReturnCached(q) \/ ResolveDevices(q)
    \/ InsertEnvelope(q) \/ InsertKey(q)

SubmissionNext ==
    \/ \E q \in Requests : CheckDevice(q) \/ Advance(q) \/ Commit(q) \/ Fail(q)
    \/ \E d \in Devices : RevokeDevice(d) /\ UNCHANGED callVars

SubmissionSpec == SubmissionInit /\ [][SubmissionNext]_submissionVars

(* The database answers each query of a call that has begun.  Calls need   *)
(* not be made, and need not fail.                                         *)
SubmissionFairSpec == SubmissionSpec /\ \A q \in Requests : WF_submissionVars(Advance(q) \/ Commit(q))

-----------------------------------------------------------------------------
(* Retries and races of one client never store a message twice: the calls  *)
(* that share a key leave at most one envelope.                            *)
OneEnvelopePerKey ==
    \A e1, e2 \in envelopes : SameKey(e1, e2) => e1 = e2

(* A successful answer names an envelope that is stored, under the key of  *)
(* the call and with the payload of the call, whichever call stored it.    *)
OkAnswerStands ==
    \A q \in Requests : answer[q].outcome = "ok" =>
        /\ answer[q].envelope \in envelopes
        /\ SameKey(answer[q].envelope, q)
        /\ answer[q].envelope.digest = q.digest

(* An envelope has a row for every device of its recipient that is active, *)
(* and for no device of anyone else: a revocation between the choice of    *)
(* the devices and the commit can only leave a row too many.               *)
FanOutComplete ==
    /\ \A e \in envelopes, d \in Devices :
          OwnerOf[d] = e.recipient /\ d \notin revoked => <<e, d>> \in rows
    /\ \A r \in rows : r[1] \in envelopes /\ OwnerOf[r[2]] = r[1].recipient

(* What is stored has passed every check, though the checks are made one   *)
(* by one and outside the transaction: the sender's own device, a member's *)
(* conversation, a payload that fits, a recipient that exists.             *)
StoredArePermitted ==
    \A e \in envelopes :
        /\ e.device \in Devices /\ OwnerOf[e.device] = e.sender
        /\ <<e.conversation, e.sender>> \in Members
        /\ ~ e.oversize
        /\ e.recipient \in Users

(* A call is turned down for its key only by an envelope of the same       *)
(* device and key: keys are scoped to the sender's device (ADR-052), and   *)
(* no refusal is due to a transaction that was rolled back.                *)
RefusedForAReason ==
    \A q \in Requests :
        LET rivals == {e \in envelopes : e.device = q.device /\ e.key = q.key /\ e # q} IN
        /\ answer[q].outcome = "conflict" => rivals # {}
        /\ answer[q].outcome = "badRequest" =>
               q.oversize \/ \E e \in rivals : e.digest # q.digest

(* The binding of a key is what the committed tables say, and one open     *)
(* transaction at most is about to change it: what makes the properties    *)
(* above inductive.                                                        *)
KeyDiscipline ==
    /\ \A e \in envelopes : keys[KeyOf(e)] = e /\ pc[e] = "answered"
    /\ \A k \in Keys : keys[k] # NoEnvelope => keys[k] \in envelopes /\ KeyOf(keys[k]) = k
    /\ \A q \in Requests : HoldsKey(q) =>
          /\ keys[KeyOf(q)] = NoEnvelope
          /\ \A other \in Requests : HoldsKey(other) /\ SameKey(other, q) => other = q
    /\ \A q \in Requests : pc[q] = "cached" =>
          /\ found[q] # NoEnvelope
          /\ found[q] = keys[KeyOf(q)]
          /\ found[q].digest = q.digest

(* Each call is one step of the abstract submission, taken when it is      *)
(* answered.                                                               *)
Promise == INSTANCE IdempotentSubmission WITH bound <- keys
ImplementsPromise == Promise!Spec

-----------------------------------------------------------------------------
(* Liveness: a call that has begun is answered, also when it waits for the *)
(* transaction of another call with its key.                               *)
EveryCallAnswered == \A q \in Requests : pc[q] # "idle" ~> pc[q] = "answered"
=============================================================================
