--------------------------- MODULE TransportProofs ---------------------------
(***************************************************************************)
(* What the transport guarantees: submitEnvelope by itself, for every set  *)
(* of calls, users, devices and members, however the queries of the calls  *)
(* interleave and whichever of them fail; the delivery of its rows by      *)
(* itself, for every set of envelopes, devices and workers, every expiry   *)
(* and every value of the limits; and the two together.                    *)
(***************************************************************************)
EXTENDS Transport, FiniteSetTheorems, TLAPS

-----------------------------------------------------------------------------
(* Submission.                                                             *)

(* Keys are made of requests.                                              *)
LEMMA KeyOfRequest == \A q \in Requests : KeyOf(q) \in Keys
BY DEF Keys

(* The answers the code gives are answers.                                 *)
LEMMA AnswersTyped ==
    /\ NoAnswer \in Answers
    /\ \A outcome \in Refusals : Refusal(outcome) \in Answers
    /\ \A e \in Requests : Ok(e) \in Answers
BY DEF NoAnswer, Refusal, Ok, Answers, Refusals


-----------------------------------------------------------------------------
(* Every variable keeps its type; the envelope a retry is answered with is *)
(* one the lookup found.                                                   *)
SubmissionTypeInv ==
    /\ SubmissionTypeOK
    /\ \A q \in Requests : pc[q] = "cached" => found[q] \in Requests

(* It holds in every reachable state.                                      *)
LEMMA SubmissionTypeInvariant == SubmissionSpec => []SubmissionTypeInv
<1>1. SubmissionInit => SubmissionTypeInv
  BY AnswersTyped DEF SubmissionInit, SubmissionTypeInv, SubmissionTypeOK, Stages
<1>2. SubmissionTypeInv /\ [SubmissionNext]_submissionVars => SubmissionTypeInv'
  <2> SUFFICES ASSUME SubmissionTypeInv, [SubmissionNext]_submissionVars
               PROVE  SubmissionTypeInv'
    OBVIOUS
  <2> USE KeyOfRequest, AnswersTyped DEF SubmissionTypeInv, SubmissionTypeOK, Stages, Go, Return, tables, Refusals
  <2>1. ASSUME NEW q \in Requests, CheckDevice(q)
        PROVE  SubmissionTypeInv'
    BY <2>1 DEF CheckDevice
  <2>2. ASSUME NEW q \in Requests, CheckMembership(q)
        PROVE  SubmissionTypeInv'
    BY <2>2 DEF CheckMembership
  <2>3. ASSUME NEW q \in Requests, Lookup(q)
        PROVE  SubmissionTypeInv'
    BY <2>3 DEF Lookup
  <2>4. ASSUME NEW q \in Requests, ReturnCached(q)
        PROVE  SubmissionTypeInv'
    BY <2>4 DEF ReturnCached
  <2>5. ASSUME NEW q \in Requests, ResolveDevices(q)
        PROVE  SubmissionTypeInv'
    BY <2>5 DEF ResolveDevices
  <2>6. ASSUME NEW q \in Requests, InsertEnvelope(q)
        PROVE  SubmissionTypeInv'
    BY <2>6 DEF InsertEnvelope
  <2>7. ASSUME NEW q \in Requests, InsertKey(q)
        PROVE  SubmissionTypeInv'
    BY <2>7 DEF InsertKey
  <2>8. ASSUME NEW q \in Requests, Commit(q)
        PROVE  SubmissionTypeInv'
    BY <2>8 DEF Commit, Records
  <2>9. ASSUME NEW q \in Requests, Fail(q)
        PROVE  SubmissionTypeInv'
    BY <2>9 DEF Fail
  <2>10. ASSUME NEW d \in Devices, RevokeDevice(d), UNCHANGED callVars
         PROVE  SubmissionTypeInv'
    BY <2>10 DEF RevokeDevice, callVars
  <2>11. CASE UNCHANGED submissionVars
    BY <2>11 DEF submissionVars, callVars
  <2> QED
    BY <2>1, <2>2, <2>3, <2>4, <2>5, <2>6, <2>7, <2>8, <2>9, <2>10, <2>11 DEF SubmissionNext, Advance
<1> QED
  BY <1>1, <1>2, PTL DEF SubmissionSpec

(* Every variable keeps its type.                                          *)
THEOREM SubmissionTypeCorrect == SubmissionSpec => []SubmissionTypeOK
BY SubmissionTypeInvariant, PTL DEF SubmissionTypeInv

-----------------------------------------------------------------------------
(* The tables of envelopes and keys agree, and the unique constraint lets  *)
(* one open transaction at a time be about to bind a key.                  *)
THEOREM KeysAreDisciplined == SubmissionSpec => []KeyDiscipline
<1>1. SubmissionInit => KeyDiscipline
  BY KeyOfRequest DEF SubmissionInit, KeyDiscipline, HoldsKey
<1>2. SubmissionTypeInv /\ KeyDiscipline /\ [SubmissionNext]_submissionVars => KeyDiscipline'
  <2> SUFFICES ASSUME SubmissionTypeInv, KeyDiscipline, [SubmissionNext]_submissionVars
               PROVE  KeyDiscipline'
    OBVIOUS
  <2> USE KeyOfRequest, NoEnvelopeAssumption
      DEF SubmissionTypeInv, SubmissionTypeOK, KeyDiscipline, HoldsKey, SameKey, Go, Return, tables
  <2>1. ASSUME NEW q \in Requests, CheckDevice(q)
        PROVE  KeyDiscipline'
    BY <2>1 DEF CheckDevice
  <2>2. ASSUME NEW q \in Requests, CheckMembership(q)
        PROVE  KeyDiscipline'
    BY <2>2 DEF CheckMembership
  <2>3. ASSUME NEW q \in Requests, Lookup(q)
        PROVE  KeyDiscipline'
    BY <2>3 DEF Lookup
  <2>4. ASSUME NEW q \in Requests, ReturnCached(q)
        PROVE  KeyDiscipline'
    BY <2>4 DEF ReturnCached
  <2>5. ASSUME NEW q \in Requests, ResolveDevices(q)
        PROVE  KeyDiscipline'
    BY <2>5 DEF ResolveDevices
  <2>6. ASSUME NEW q \in Requests, InsertEnvelope(q)
        PROVE  KeyDiscipline'
    BY <2>6 DEF InsertEnvelope
  <2>7. ASSUME NEW q \in Requests, InsertKey(q)
        PROVE  KeyDiscipline'
    BY <2>7 DEF InsertKey
  <2>8. ASSUME NEW q \in Requests, Commit(q)
        PROVE  KeyDiscipline'
    BY <2>8 DEF Commit
  <2>9. ASSUME NEW q \in Requests, Fail(q)
        PROVE  KeyDiscipline'
    BY <2>9 DEF Fail
  <2>10. ASSUME NEW d \in Devices, RevokeDevice(d), UNCHANGED callVars
         PROVE  KeyDiscipline'
    BY <2>10 DEF RevokeDevice, callVars
  <2>11. CASE UNCHANGED submissionVars
    BY <2>11 DEF submissionVars, callVars
  <2> QED
    BY <2>1, <2>2, <2>3, <2>4, <2>5, <2>6, <2>7, <2>8, <2>9, <2>10, <2>11 DEF SubmissionNext, Advance
<1> QED
  BY <1>1, <1>2, SubmissionTypeInvariant, PTL DEF SubmissionSpec

(* At most one envelope is ever stored for a key.                          *)
THEOREM OneEnvelopeForEachKey == SubmissionSpec => []OneEnvelopePerKey
<1>1. KeyDiscipline => OneEnvelopePerKey
  BY DEF KeyDiscipline, OneEnvelopePerKey, SameKey
<1> QED
  BY <1>1, KeysAreDisciplined, PTL

-----------------------------------------------------------------------------
(* A call has been answered exactly when it is over.                       *)
AnsweredWhenOver ==
    \A q \in Requests : pc[q] # "answered" <=> answer[q] = NoAnswer

LEMMA AnsweredExactlyWhenOver == SubmissionSpec => []AnsweredWhenOver
<1>1. SubmissionInit => AnsweredWhenOver
  BY DEF SubmissionInit, AnsweredWhenOver
<1>2. SubmissionTypeInv /\ AnsweredWhenOver /\ [SubmissionNext]_submissionVars => AnsweredWhenOver'
  <2> SUFFICES ASSUME SubmissionTypeInv, AnsweredWhenOver, [SubmissionNext]_submissionVars
               PROVE  AnsweredWhenOver'
    OBVIOUS
  <2> USE DEF SubmissionTypeInv, SubmissionTypeOK, AnsweredWhenOver, Go, Return, NoAnswer, Refusal, Ok
  <2>1. ASSUME NEW q \in Requests,
               CheckDevice(q) \/ CheckMembership(q) \/ Lookup(q) \/ ReturnCached(q)
        PROVE  AnsweredWhenOver'
    BY <2>1 DEF CheckDevice, CheckMembership, Lookup, ReturnCached
  <2>2. ASSUME NEW q \in Requests,
               ResolveDevices(q) \/ InsertEnvelope(q) \/ InsertKey(q)
        PROVE  AnsweredWhenOver'
    BY <2>2 DEF ResolveDevices, InsertEnvelope, InsertKey
  <2>3. ASSUME NEW q \in Requests, Commit(q) \/ Fail(q)
        PROVE  AnsweredWhenOver'
    BY <2>3 DEF Commit, Fail
  <2>4. ASSUME NEW d \in Devices, RevokeDevice(d), UNCHANGED callVars
        PROVE  AnsweredWhenOver'
    BY <2>4 DEF RevokeDevice, callVars
  <2>5. CASE UNCHANGED submissionVars
    BY <2>5 DEF submissionVars, callVars
  <2> QED
    BY <2>1, <2>2, <2>3, <2>4, <2>5 DEF SubmissionNext, Advance
<1> QED
  BY <1>1, <1>2, SubmissionTypeInvariant, PTL DEF SubmissionSpec

(* What a successful answer says of the store stays true: the envelope it  *)
(* names is stored, under the call's key and with the call's payload.      *)
THEOREM OkAnswersStand == SubmissionSpec => []OkAnswerStands
<1>1. SubmissionInit => OkAnswerStands
  BY DEF SubmissionInit, OkAnswerStands, NoAnswer
<1>2. SubmissionTypeInv /\ KeyDiscipline /\ OkAnswerStands /\ [SubmissionNext]_submissionVars => OkAnswerStands'
  <2> SUFFICES ASSUME SubmissionTypeInv, KeyDiscipline, OkAnswerStands, [SubmissionNext]_submissionVars
               PROVE  OkAnswerStands'
    OBVIOUS
  <2> USE DEF SubmissionTypeInv, SubmissionTypeOK, OkAnswerStands, SameKey, Go, Return, NoAnswer, Refusal, Ok
  <2>1. ASSUME NEW q \in Requests, CheckDevice(q) \/ CheckMembership(q) \/ Lookup(q)
        PROVE  OkAnswerStands'
    BY <2>1 DEF CheckDevice, CheckMembership, Lookup, tables
  <2>2. ASSUME NEW q \in Requests, ReturnCached(q)
        PROVE  OkAnswerStands'
    <3>1. /\ found[q] \in envelopes
          /\ KeyOf(found[q]) = KeyOf(q)
          /\ found[q].digest = q.digest
      BY <2>2, KeyOfRequest DEF ReturnCached, KeyDiscipline
    <3> QED
      BY <2>2, <3>1 DEF ReturnCached, tables
  <2>3. ASSUME NEW q \in Requests,
               ResolveDevices(q) \/ InsertEnvelope(q) \/ InsertKey(q) \/ Fail(q)
        PROVE  OkAnswerStands'
    BY <2>3 DEF ResolveDevices, InsertEnvelope, InsertKey, Fail, tables
  <2>4. ASSUME NEW q \in Requests, Commit(q)
        PROVE  OkAnswerStands'
    BY <2>4 DEF Commit
  <2>5. ASSUME NEW d \in Devices, RevokeDevice(d), UNCHANGED callVars
        PROVE  OkAnswerStands'
    BY <2>5 DEF RevokeDevice, callVars, tables
  <2>6. CASE UNCHANGED submissionVars
    BY <2>6 DEF submissionVars, callVars
  <2> QED
    BY <2>1, <2>2, <2>3, <2>4, <2>5, <2>6 DEF SubmissionNext, Advance
<1> QED
  BY <1>1, <1>2, SubmissionTypeInvariant, KeysAreDisciplined, PTL DEF SubmissionSpec

-----------------------------------------------------------------------------
(* The devices a call has read include every device of the recipient that  *)
(* is active now, since devices are only ever revoked.                     *)
TargetsCover ==
    \A q \in Requests : pc[q] \in {"insertEnvelope", "insertKey", "commit"} =>
        /\ \A d \in Devices : OwnerOf[d] = q.recipient /\ d \notin revoked => d \in targets[q]
        /\ \A d \in targets[q] : OwnerOf[d] = q.recipient

(* Every active device of the recipient gets its row, and no other user's. *)
THEOREM FanOutIsComplete == SubmissionSpec => []FanOutComplete
<1>1. SubmissionInit => TargetsCover /\ FanOutComplete
  BY DEF SubmissionInit, TargetsCover, FanOutComplete
<1>2. SubmissionTypeInv /\ TargetsCover /\ FanOutComplete /\ [SubmissionNext]_submissionVars
        => TargetsCover' /\ FanOutComplete'
  <2> SUFFICES ASSUME SubmissionTypeInv, TargetsCover, FanOutComplete, [SubmissionNext]_submissionVars
               PROVE  TargetsCover' /\ FanOutComplete'
    OBVIOUS
  <2> USE DEF SubmissionTypeInv, SubmissionTypeOK, TargetsCover, FanOutComplete, Go, Return
  <2>1. ASSUME NEW q \in Requests,
               CheckDevice(q) \/ CheckMembership(q) \/ Lookup(q) \/ ReturnCached(q)
        PROVE  TargetsCover' /\ FanOutComplete'
    BY <2>1 DEF CheckDevice, CheckMembership, Lookup, ReturnCached, tables
  <2>2. ASSUME NEW q \in Requests, ResolveDevices(q)
        PROVE  TargetsCover' /\ FanOutComplete'
    BY <2>2 DEF ResolveDevices, tables
  <2>3. ASSUME NEW q \in Requests, InsertEnvelope(q) \/ InsertKey(q) \/ Fail(q)
        PROVE  TargetsCover' /\ FanOutComplete'
    BY <2>3 DEF InsertEnvelope, InsertKey, Fail, tables
  <2>4. ASSUME NEW q \in Requests, Commit(q)
        PROVE  TargetsCover' /\ FanOutComplete'
    <3>1. TargetsCover'
      BY <2>4 DEF Commit
    <3>2. ASSUME NEW e \in envelopes', NEW d \in Devices,
                 OwnerOf[d] = e.recipient, d \notin revoked'
          PROVE  <<e, d>> \in rows'
      BY <2>4, <3>2 DEF Commit
    <3>3. ASSUME NEW r \in rows'
          PROVE  r[1] \in envelopes' /\ OwnerOf[r[2]] = r[1].recipient
      BY <2>4, <3>3 DEF Commit
    <3> QED
      BY <3>1, <3>2, <3>3
  <2>5. ASSUME NEW d \in Devices, RevokeDevice(d), UNCHANGED callVars
        PROVE  TargetsCover' /\ FanOutComplete'
    BY <2>5 DEF RevokeDevice, callVars, tables
  <2>6. CASE UNCHANGED submissionVars
    BY <2>6 DEF submissionVars, callVars
  <2> QED
    BY <2>1, <2>2, <2>3, <2>4, <2>5, <2>6 DEF SubmissionNext, Advance
<1> QED
  BY <1>1, <1>2, SubmissionTypeInvariant, PTL DEF SubmissionSpec

-----------------------------------------------------------------------------
(* What a call has been asked before it comes to a query stays so, since   *)
(* no check looks at anything but the call and what never changes.         *)
ChecksPassed ==
    \A q \in Requests :
        /\ pc[q] \notin {"idle", "answered"} =>
               q.device \in Devices /\ OwnerOf[q.device] = q.sender
        /\ pc[q] \notin {"idle", "membership", "answered"} =>
               <<q.conversation, q.sender>> \in Members /\ ~ q.oversize
        /\ pc[q] \in {"insertKey", "commit"} => q.recipient \in Users
        /\ answer[q].outcome = "ok" => OwnerOf[q.device] = q.sender

(* The checks that a call has passed still hold, and of what is stored.    *)
LEMMA ChecksArePassed == SubmissionSpec => [](ChecksPassed /\ StoredArePermitted)
<1>1. SubmissionInit => ChecksPassed /\ StoredArePermitted
  BY DEF SubmissionInit, ChecksPassed, StoredArePermitted, NoAnswer
<1>2. SubmissionTypeInv /\ ChecksPassed /\ StoredArePermitted /\ [SubmissionNext]_submissionVars
        => ChecksPassed' /\ StoredArePermitted'
  <2> SUFFICES ASSUME SubmissionTypeInv, ChecksPassed, StoredArePermitted, [SubmissionNext]_submissionVars
               PROVE  ChecksPassed' /\ StoredArePermitted'
    OBVIOUS
  <2> USE DEF SubmissionTypeInv, SubmissionTypeOK, ChecksPassed, StoredArePermitted, Go, Return, Refusal, Ok
  <2>1. ASSUME NEW q \in Requests, CheckDevice(q)
        PROVE  ChecksPassed' /\ StoredArePermitted'
    BY <2>1 DEF CheckDevice, SenderActive, tables
  <2>2. ASSUME NEW q \in Requests, CheckMembership(q)
        PROVE  ChecksPassed' /\ StoredArePermitted'
    BY <2>2 DEF CheckMembership, tables
  <2>3. ASSUME NEW q \in Requests, Lookup(q) \/ ReturnCached(q) \/ ResolveDevices(q)
        PROVE  ChecksPassed' /\ StoredArePermitted'
    BY <2>3 DEF Lookup, ReturnCached, ResolveDevices, tables
  <2>4. ASSUME NEW q \in Requests, InsertEnvelope(q) \/ InsertKey(q) \/ Fail(q)
        PROVE  ChecksPassed' /\ StoredArePermitted'
    BY <2>4 DEF InsertEnvelope, InsertKey, Fail, tables
  <2>5. ASSUME NEW q \in Requests, Commit(q)
        PROVE  ChecksPassed' /\ StoredArePermitted'
    BY <2>5 DEF Commit
  <2>6. ASSUME NEW d \in Devices, RevokeDevice(d), UNCHANGED callVars
        PROVE  ChecksPassed' /\ StoredArePermitted'
    BY <2>6 DEF RevokeDevice, callVars, tables
  <2>7. CASE UNCHANGED submissionVars
    BY <2>7 DEF submissionVars, callVars
  <2> QED
    BY <2>1, <2>2, <2>3, <2>4, <2>5, <2>6, <2>7 DEF SubmissionNext, Advance
<1> QED
  BY <1>1, <1>2, SubmissionTypeInvariant, PTL DEF SubmissionSpec

(* Nothing is stored that a check should have refused.                     *)
THEOREM StoredWerePermitted == SubmissionSpec => []StoredArePermitted
BY ChecksArePassed, PTL

(* A call refused for its key has met a stored envelope of that key.       *)
THEOREM RefusalsHaveReasons == SubmissionSpec => []RefusedForAReason
<1>1. SubmissionInit => RefusedForAReason
  <2>1. ASSUME SubmissionInit, NEW q \in Requests
        PROVE  answer[q].outcome = "none"
    <3>1. answer[q] = NoAnswer
      BY <2>1 DEF SubmissionInit
    <3> QED
      BY <3>1 DEF NoAnswer
  <2> QED
    BY <2>1 DEF RefusedForAReason
<1>2. SubmissionTypeInv /\ KeyDiscipline /\ RefusedForAReason /\ [SubmissionNext]_submissionVars => RefusedForAReason'
  <2> SUFFICES ASSUME SubmissionTypeInv, KeyDiscipline, RefusedForAReason, [SubmissionNext]_submissionVars
               PROVE  RefusedForAReason'
    OBVIOUS
  <2>0. ASSUME NEW q \in Requests, pc[q] # "answered", keys[KeyOf(q)] # NoEnvelope
        PROVE  /\ keys[KeyOf(q)] \in envelopes /\ keys[KeyOf(q)] # q
               /\ keys[KeyOf(q)].device = q.device /\ keys[KeyOf(q)].key = q.key
    BY <2>0, KeyOfRequest DEF KeyDiscipline, KeyOf
  <2> USE DEF SubmissionTypeInv, SubmissionTypeOK, RefusedForAReason, Go, Return, Refusal, Ok
  <2>1. ASSUME NEW q \in Requests,
               CheckDevice(q) \/ CheckMembership(q) \/ ReturnCached(q) \/ ResolveDevices(q)
        PROVE  RefusedForAReason'
    BY <2>1 DEF CheckDevice, CheckMembership, ReturnCached, ResolveDevices, tables
  <2>2. ASSUME NEW q \in Requests, Lookup(q)
        PROVE  RefusedForAReason'
    BY <2>2, <2>0 DEF Lookup, tables
  <2>3. ASSUME NEW q \in Requests, InsertKey(q)
        PROVE  RefusedForAReason'
    BY <2>3, <2>0 DEF InsertKey, tables
  <2>4. ASSUME NEW q \in Requests, InsertEnvelope(q) \/ Fail(q)
        PROVE  RefusedForAReason'
    BY <2>4 DEF InsertEnvelope, Fail, tables
  <2>5. ASSUME NEW q \in Requests, Commit(q)
        PROVE  RefusedForAReason'
    BY <2>5 DEF Commit
  <2>6. ASSUME NEW d \in Devices, RevokeDevice(d), UNCHANGED callVars
        PROVE  RefusedForAReason'
    BY <2>6 DEF RevokeDevice, callVars, tables
  <2>7. CASE UNCHANGED submissionVars
    BY <2>7 DEF submissionVars, callVars
  <2> QED
    BY <2>1, <2>2, <2>3, <2>4, <2>5, <2>6, <2>7 DEF SubmissionNext, Advance
<1> QED
  BY <1>1, <1>2, SubmissionTypeInvariant, KeysAreDisciplined, PTL DEF SubmissionSpec

-----------------------------------------------------------------------------
(* submitEnvelope keeps the promise of ADR-052: each of its steps leaves   *)
(* the keys and answers alone or is a step of IdempotentSubmission.        *)
THEOREM SubmissionImplementsPromise == SubmissionSpec => ImplementsPromise
<1> USE DEF Promise!KeyOf, Promise!Keys, Promise!NoAnswer, Promise!Refusal, Promise!Ok,
            KeyOf, Keys, NoAnswer, Refusal, Ok
<1>1. SubmissionInit => Promise!Init
  BY DEF SubmissionInit, Promise!Init
<1>2. SubmissionTypeInv /\ KeyDiscipline /\ AnsweredWhenOver /\ [SubmissionNext]_submissionVars => [Promise!Next]_(Promise!vars)
  <2> SUFFICES ASSUME SubmissionTypeInv, KeyDiscipline, AnsweredWhenOver, [SubmissionNext]_submissionVars
               PROVE  [Promise!Next]_(Promise!vars)
    OBVIOUS
  <2> USE DEF SubmissionTypeInv, SubmissionTypeOK, KeyDiscipline, AnsweredWhenOver, Go, Return, tables,
              Promise!Next, Promise!vars, Promise!Reply
  <2>1. ASSUME NEW q \in Requests, CheckDevice(q)
        PROVE  Promise!Refuse(q) \/ UNCHANGED <<keys, answer>>
    BY <2>1 DEF CheckDevice, Promise!Refuse
  <2>2. ASSUME NEW q \in Requests, CheckMembership(q)
        PROVE  Promise!Refuse(q) \/ UNCHANGED <<keys, answer>>
    BY <2>2 DEF CheckMembership, Promise!Refuse
  <2>3. ASSUME NEW q \in Requests, Lookup(q)
        PROVE  Promise!Refuse(q) \/ UNCHANGED <<keys, answer>>
    BY <2>3 DEF Lookup, Promise!Refuse
  <2>4. ASSUME NEW q \in Requests, ReturnCached(q)
        PROVE  Promise!Replay(q)
    <3>1. pc[q] = "cached" /\ answer[q] = NoAnswer
      BY <2>4 DEF ReturnCached
    <3>2. /\ keys[KeyOf(q)] # NoEnvelope
          /\ keys[KeyOf(q)].digest = q.digest
          /\ found[q] = keys[KeyOf(q)]
      BY <3>1
    <3>3. /\ answer' = [answer EXCEPT ![q] = Ok(keys[KeyOf(q)])]
          /\ UNCHANGED keys
      BY <2>4, <3>2 DEF ReturnCached
    <3> QED
      BY <3>1, <3>2, <3>3 DEF Promise!Replay
  <2>5. ASSUME NEW q \in Requests, ResolveDevices(q)
        PROVE  UNCHANGED <<keys, answer>>
    BY <2>5 DEF ResolveDevices
  <2>6. ASSUME NEW q \in Requests, InsertEnvelope(q)
        PROVE  Promise!Refuse(q) \/ UNCHANGED <<keys, answer>>
    BY <2>6 DEF InsertEnvelope, Promise!Refuse
  <2>7. ASSUME NEW q \in Requests, InsertKey(q)
        PROVE  Promise!Refuse(q) \/ UNCHANGED <<keys, answer>>
    BY <2>7 DEF InsertKey, Promise!Refuse
  <2>8. ASSUME NEW q \in Requests, Commit(q)
        PROVE  Promise!Bind(q)
    BY <2>8 DEF Commit, HoldsKey, Promise!Bind
  <2>9. ASSUME NEW q \in Requests, Fail(q)
        PROVE  Promise!Refuse(q)
    BY <2>9 DEF Fail, Promise!Refuse
  <2>10. ASSUME NEW d \in Devices, RevokeDevice(d), UNCHANGED callVars
         PROVE  UNCHANGED <<keys, answer>>
    BY <2>10 DEF RevokeDevice, callVars
  <2>11. CASE UNCHANGED submissionVars
    BY <2>11 DEF submissionVars, callVars
  <2> QED
    BY <2>1, <2>2, <2>3, <2>4, <2>5, <2>6, <2>7, <2>8, <2>9, <2>10, <2>11 DEF SubmissionNext, Advance
<1> QED
  BY <1>1, <1>2, SubmissionTypeInvariant, KeysAreDisciplined, AnsweredExactlyWhenOver, PTL
     DEF SubmissionSpec, ImplementsPromise, Promise!Spec

-----------------------------------------------------------------------------
(* Delivery.                                                               *)

(* The assumptions of Delivery, gathered for the proofs.                   *)
LEMMA ConstantsTyped ==
    /\ MaxAttempts \in Nat /\ MaxAttempts >= 1
    /\ BatchLimit \in Nat
    /\ MaxTime \in Nat
    /\ MaxAcks \in Nat
    /\ Cardinality(Workers) \in Nat
BY BoundsAssumption, WorkersAssumption, FS_CardinalityType

-----------------------------------------------------------------------------
(* Every variable keeps its type.                                          *)
THEOREM DeliveryTypeCorrect == DeliverySpec => []DeliveryTypeOK
<1>1. DeliveryInit => DeliveryTypeOK
  BY ConstantsTyped DEF DeliveryInit, DeliveryTypeOK, Statuses
<1>2. DeliveryTypeOK /\ [DeliveryNext]_deliveryVars => DeliveryTypeOK'
  <2> SUFFICES ASSUME DeliveryTypeOK, [DeliveryNext]_deliveryVars
               PROVE  DeliveryTypeOK'
    OBVIOUS
  <2> USE ConstantsTyped DEF DeliveryTypeOK, Statuses, Pending, Settled
  <2>1. ASSUME NEW e \in Requests, NEW devices \in SUBSET Devices, Accept(e, devices)
        PROVE  DeliveryTypeOK'
    BY <2>1 DEF Accept, ackVars, Records
  <2>2. ASSUME NEW d \in Devices, RevokeDevice(d), UNCHANGED processVars
        PROVE  DeliveryTypeOK'
    BY <2>2 DEF RevokeDevice, processVars, rowVars, ackVars
  <2>3. ASSUME NEW w \in Workers, RetrySelect(w)
        PROVE  DeliveryTypeOK'
    BY <2>3 DEF RetrySelect, Eligible, rowVars, ackVars
  <2>4. ASSUME NEW w \in Workers, NEW r \in Records, RetryUpdate(w, r)
        PROVE  DeliveryTypeOK'
    BY <2>4 DEF RetryUpdate, ackVars
  <2>5. ASSUME NEW w \in Workers, RetryAbandon(w)
        PROVE  DeliveryTypeOK'
    BY <2>5 DEF RetryAbandon, rowVars, ackVars
  <2>6. CASE ExpireCleanup
    BY <2>6 DEF ExpireCleanup, ackVars
  <2>7. ASSUME NEW r \in Records, AckSelect(r)
        PROVE  DeliveryTypeOK'
    BY <2>7 DEF AckSelect, rowVars
  <2>8. ASSUME NEW r \in Records, AckCommit(r)
        PROVE  DeliveryTypeOK'
    BY <2>8 DEF AckCommit
  <2>9. ASSUME NEW r \in Records, AckAbort(r)
        PROVE  DeliveryTypeOK'
    BY <2>9 DEF AckAbort, rowVars
  <2>10. CASE Tick
    BY <2>10 DEF Tick, rowVars, ackVars
  <2>11. CASE UNCHANGED deliveryVars
    BY <2>11 DEF deliveryVars, processVars, rowVars, ackVars
  <2> QED
    BY <2>1, <2>2, <2>3, <2>4, <2>5, <2>6, <2>7, <2>8, <2>9, <2>10, <2>11
       DEF DeliveryNext, Process
<1> QED
  BY <1>1, <1>2, PTL DEF DeliverySpec

-----------------------------------------------------------------------------
(* The workers that hold a row are finitely many, at most all of them.     *)
LEMMA HoldersFinite ==
    ASSUME NEW r
    PROVE  /\ IsFiniteSet(Holders(r))
           /\ Cardinality(Holders(r)) \in Nat
           /\ Cardinality(Holders(r)) <= Cardinality(Workers)
<1>1. Holders(r) \in SUBSET Workers
  BY DEF Holders
<1> QED
  BY <1>1, WorkersAssumption, FS_Subset, FS_CardinalityType

(* Fewer holders, no larger number of them.                                *)
LEMMA FewerHolders ==
    ASSUME NEW r, Holders(r)' \subseteq Holders(r)
    PROVE  /\ Cardinality(Holders(r)') \in Nat
           /\ Cardinality(Holders(r)') <= Cardinality(Holders(r))
BY HoldersFinite, FS_Subset, FS_CardinalityType

(* The invariant: attempts made and attempts charged for stay together     *)
(* within the bound.                                                       *)
AttemptsInv == DeliveryTypeOK /\ ChargedAttemptsBounded

(* A step that leaves the attempts alone, and hands no row to a worker,    *)
(* keeps the bound.                                                        *)
LEMMA NoNewHolder ==
    ASSUME AttemptsInv, UNCHANGED attempts,
           \A w \in Workers : batch'[w] \subseteq batch[w]
    PROVE  ChargedAttemptsBounded'
<1> SUFFICES ASSUME NEW r \in Records
             PROVE  attempts'[r] + Cardinality(Holders(r)')
                        <= MaxAttempts - 1 + Cardinality(Workers)
  BY DEF ChargedAttemptsBounded
<1>1. Holders(r)' \subseteq Holders(r)
  BY DEF Holders
<1>2. /\ Cardinality(Holders(r)') \in Nat
      /\ Cardinality(Holders(r)') <= Cardinality(Holders(r))
  BY <1>1, FewerHolders
<1>3. /\ attempts[r] + Cardinality(Holders(r)) <= MaxAttempts - 1 + Cardinality(Workers)
      /\ attempts'[r] = attempts[r] /\ attempts[r] \in Nat
  BY DEF AttemptsInv, ChargedAttemptsBounded, DeliveryTypeOK
<1> QED
  BY <1>2, <1>3, HoldersFinite, ConstantsTyped

(* The attempts of a row, and those charged for in the batches that hold   *)
(* it, stay below the limit plus one for each further worker.              *)
THEOREM ChargedAttemptsAreBounded == DeliverySpec => []ChargedAttemptsBounded
<1>1. DeliveryInit => ChargedAttemptsBounded
  <2> SUFFICES ASSUME DeliveryInit, NEW r \in Records
               PROVE  attempts[r] + Cardinality(Holders(r))
                          <= MaxAttempts - 1 + Cardinality(Workers)
    BY DEF ChargedAttemptsBounded
  <2>1. Holders(r) = {}
    BY DEF DeliveryInit, Holders
  <2>2. Cardinality(Holders(r)) = 0 /\ attempts[r] = 0
    BY <2>1, FS_EmptySet DEF DeliveryInit
  <2> QED
    BY <2>2, ConstantsTyped
<1>2. AttemptsInv /\ [DeliveryNext]_deliveryVars => ChargedAttemptsBounded'
  <2> SUFFICES ASSUME AttemptsInv, [DeliveryNext]_deliveryVars
               PROVE  ChargedAttemptsBounded'
    OBVIOUS
  <2>1. ASSUME NEW e \in Requests, NEW devices \in SUBSET Devices, Accept(e, devices)
        PROVE  ChargedAttemptsBounded'
    BY <2>1, NoNewHolder DEF Accept
  <2>2. ASSUME NEW d \in Devices, RevokeDevice(d), UNCHANGED processVars
        PROVE  ChargedAttemptsBounded'
    BY <2>2, NoNewHolder DEF RevokeDevice, processVars, rowVars
  <2>3. ASSUME NEW w \in Workers, RetrySelect(w)
        PROVE  ChargedAttemptsBounded'
    <3> SUFFICES ASSUME NEW r \in Records
                 PROVE  attempts'[r] + Cardinality(Holders(r)')
                            <= MaxAttempts - 1 + Cardinality(Workers)
      BY DEF ChargedAttemptsBounded
    <3>1. attempts'[r] = attempts[r] /\ attempts[r] \in Nat
      BY <2>3 DEF RetrySelect, rowVars, AttemptsInv, DeliveryTypeOK
    <3>2. CASE r \in batch'[w]
      <4>1. attempts[r] <= MaxAttempts - 1
        BY <2>3, <3>2, ConstantsTyped, <3>1 DEF RetrySelect, Eligible, AttemptsInv, DeliveryTypeOK
      <4>2. Holders(r)' \in SUBSET Workers
        BY DEF Holders
      <4>3. /\ Cardinality(Holders(r)') \in Nat
            /\ Cardinality(Holders(r)') <= Cardinality(Workers)
        BY <4>2, WorkersAssumption, FS_Subset, FS_CardinalityType
      <4> QED
        BY <3>1, <4>1, <4>3, ConstantsTyped
    <3>3. CASE r \notin batch'[w]
      <4>1. Holders(r)' \subseteq Holders(r)
        BY <2>3, <3>3 DEF RetrySelect, Holders, AttemptsInv, DeliveryTypeOK
      <4>2. /\ Cardinality(Holders(r)') \in Nat
            /\ Cardinality(Holders(r)') <= Cardinality(Holders(r))
        BY <4>1, FewerHolders
      <4>3. attempts[r] + Cardinality(Holders(r)) <= MaxAttempts - 1 + Cardinality(Workers)
        BY DEF AttemptsInv, ChargedAttemptsBounded
      <4> QED
        BY <3>1, <4>2, <4>3, HoldersFinite, ConstantsTyped
    <3> QED
      BY <3>2, <3>3
  <2>4. ASSUME NEW w \in Workers, NEW u \in Records, RetryUpdate(w, u)
        PROVE  ChargedAttemptsBounded'
    <3> SUFFICES ASSUME NEW r \in Records
                 PROVE  attempts'[r] + Cardinality(Holders(r)')
                            <= MaxAttempts - 1 + Cardinality(Workers)
      BY DEF ChargedAttemptsBounded
    <3>1. attempts[r] + Cardinality(Holders(r)) <= MaxAttempts - 1 + Cardinality(Workers)
      BY DEF AttemptsInv, ChargedAttemptsBounded
    <3>2. attempts[r] \in Nat
      BY DEF AttemptsInv, DeliveryTypeOK
    <3>3. CASE r = u
      <4>1. attempts'[r] = attempts[r] + 1
        BY <2>4, <3>3 DEF RetryUpdate, AttemptsInv, DeliveryTypeOK
      <4>2. Holders(r)' = Holders(r) \ {w} /\ w \in Holders(r)
        BY <2>4, <3>3 DEF RetryUpdate, Holders, AttemptsInv, DeliveryTypeOK
      <4>3. Cardinality(Holders(r) \ {w}) = Cardinality(Holders(r)) - 1
        BY <4>2, HoldersFinite, FS_RemoveElement
      <4>4. Cardinality(Holders(r)') = Cardinality(Holders(r)) - 1
        BY <4>2, <4>3
      <4> QED
        BY <3>1, <3>2, <4>1, <4>4, HoldersFinite, ConstantsTyped
    <3>4. CASE r # u
      <4>1. attempts'[r] = attempts[r]
        BY <2>4, <3>4 DEF RetryUpdate, AttemptsInv, DeliveryTypeOK
      <4>2. Holders(r)' = Holders(r)
        BY <2>4, <3>4 DEF RetryUpdate, Holders, AttemptsInv, DeliveryTypeOK
      <4> QED
        BY <3>1, <4>1, <4>2
    <3> QED
      BY <3>3, <3>4
  <2>5. ASSUME NEW w \in Workers, RetryAbandon(w)
        PROVE  ChargedAttemptsBounded'
    BY <2>5, NoNewHolder DEF RetryAbandon, rowVars, AttemptsInv, DeliveryTypeOK
  <2>6. CASE ExpireCleanup
    BY <2>6, NoNewHolder DEF ExpireCleanup
  <2>7. ASSUME NEW r \in Records, AckSelect(r) \/ AckCommit(r) \/ AckAbort(r)
        PROVE  ChargedAttemptsBounded'
    BY <2>7, NoNewHolder DEF AckSelect, AckCommit, AckAbort, rowVars
  <2>8. CASE Tick
    BY <2>8, NoNewHolder DEF Tick, rowVars
  <2>9. CASE UNCHANGED deliveryVars
    BY <2>9, NoNewHolder DEF deliveryVars, processVars, rowVars, ackVars
  <2> QED
    BY <2>1, <2>2, <2>3, <2>4, <2>5, <2>6, <2>7, <2>8, <2>9 DEF DeliveryNext, Process
<1> QED
  BY <1>1, <1>2, DeliveryTypeCorrect, PTL DEF DeliverySpec, AttemptsInv

(* However many invocations of the retry processor overlap, a row is       *)
(* attempted at most once more for each invocation beyond the first.       *)
THEOREM AttemptsAreBounded == DeliverySpec => []AttemptsBounded
<1>1. DeliveryTypeOK /\ ChargedAttemptsBounded => AttemptsBounded
  <2> SUFFICES ASSUME DeliveryTypeOK, ChargedAttemptsBounded, NEW r \in Records
               PROVE  attempts[r] <= MaxAttempts - 1 + Cardinality(Workers)
    BY DEF AttemptsBounded
  <2>1. attempts[r] + Cardinality(Holders(r)) <= MaxAttempts - 1 + Cardinality(Workers)
    BY DEF ChargedAttemptsBounded
  <2> QED
    BY <2>1, HoldersFinite, ConstantsTyped DEF DeliveryTypeOK
<1> QED
  BY <1>1, DeliveryTypeCorrect, ChargedAttemptsAreBounded, PTL

(* With a single invocation at a time, the limit the documents promise.    *)
THEOREM OneWorkerKeepsTheLimit ==
    ASSUME Cardinality(Workers) = 1
    PROVE  DeliverySpec => []AttemptsWithinMax
<1>1. AttemptsBounded /\ DeliveryTypeOK => AttemptsWithinMax
  BY ConstantsTyped DEF AttemptsBounded, AttemptsWithinMax, DeliveryTypeOK
<1> QED
  BY <1>1, DeliveryTypeCorrect, AttemptsAreBounded, PTL

-----------------------------------------------------------------------------
(* A row of an envelope is addressed by the envelope and a device.         *)
LEMMA RecordIsPair ==
    ASSUME NEW r \in Records
    PROVE  r = <<EnvelopeOf(r), DeviceOf(r)>> /\ DeviceOf(r) \in Devices
BY DEF Records, EnvelopeOf, DeviceOf

(* "delivered" comes with an acknowledgement, "expired" with an expiry     *)
(* that is past, and a row that is not inserted has not been touched.      *)
THEOREM StatusIsJustified == DeliverySpec => []StatusJustified
<1>1. DeliveryInit => StatusJustified
  BY DEF DeliveryInit, StatusJustified, Holders
<1>2. DeliveryTypeOK /\ StatusJustified /\ [DeliveryNext]_deliveryVars => StatusJustified'
  <2> SUFFICES ASSUME DeliveryTypeOK, StatusJustified, [DeliveryNext]_deliveryVars
               PROVE  StatusJustified'
    OBVIOUS
  <2> USE DEF StatusJustified, DeliveryTypeOK, Holders, Expired
  <2>1. ASSUME NEW e \in Requests, NEW devices \in SUBSET Devices, Accept(e, devices)
        PROVE  StatusJustified'
    <3>1. \A r \in Records : r \in rows' <=> r \in rows \/ (EnvelopeOf(r) = e /\ DeviceOf(r) \in devices)
      BY <2>1, RecordIsPair DEF Accept, Records, EnvelopeOf, DeviceOf
    <3> QED
      BY <2>1, <3>1 DEF Accept, ackVars
  <2>2. ASSUME NEW d \in Devices, RevokeDevice(d), UNCHANGED processVars
        PROVE  StatusJustified'
    BY <2>2 DEF RevokeDevice, processVars, rowVars, ackVars
  <2>3. ASSUME NEW w \in Workers, RetrySelect(w)
        PROVE  StatusJustified'
    BY <2>3 DEF RetrySelect, Eligible, Pending, rowVars, ackVars
  <2>4. ASSUME NEW w \in Workers, NEW r \in Records, RetryUpdate(w, r)
        PROVE  StatusJustified'
    BY <2>4 DEF RetryUpdate, ackVars
  <2>5. ASSUME NEW w \in Workers, RetryAbandon(w)
        PROVE  StatusJustified'
    BY <2>5 DEF RetryAbandon, rowVars, ackVars
  <2>6. CASE ExpireCleanup
    BY <2>6 DEF ExpireCleanup, ackVars
  <2>7. ASSUME NEW r \in Records, AckSelect(r) \/ AckAbort(r)
        PROVE  StatusJustified'
    BY <2>7 DEF AckSelect, AckAbort, rowVars
  <2>8. ASSUME NEW r \in Records, AckCommit(r)
        PROVE  StatusJustified'
    BY <2>8 DEF AckCommit
  <2>9. CASE Tick
    <3>1. \A r \in Records : EnvelopeOf(r).expiresAt \in Int
      BY ExpiryAssumption DEF Records, EnvelopeOf
    <3> QED
      BY <2>9, <3>1 DEF Tick, rowVars, ackVars
  <2>10. CASE UNCHANGED deliveryVars
    BY <2>10 DEF deliveryVars, processVars, rowVars, ackVars
  <2> QED
    BY <2>1, <2>2, <2>3, <2>4, <2>5, <2>6, <2>7, <2>8, <2>9, <2>10 DEF DeliveryNext, Process
<1> QED
  BY <1>1, <1>2, DeliveryTypeCorrect, PTL DEF DeliverySpec

(* A settled row that no batch holds is never touched by a worker again.   *)
THEOREM SettledRowsStayOutOfReach == DeliverySpec => SettledStayOutOfReach
<1>1. ASSUME DeliveryTypeOK, StatusJustified, [DeliveryNext]_deliveryVars,
             NEW r \in Records, OutOfReach(r)
      PROVE  OutOfReach(r)'
  <2> USE <1>1 DEF OutOfReach, DeliveryTypeOK, Settled, Holders
  <2>1. ASSUME NEW e \in Requests, NEW devices \in SUBSET Devices, Accept(e, devices)
        PROVE  OutOfReach(r)'
    <3>1. r \in rows
      BY DEF StatusJustified
    <3> QED
      BY <2>1, <3>1, RecordIsPair DEF Accept
  <2>2. ASSUME NEW d \in Devices, RevokeDevice(d), UNCHANGED processVars
        PROVE  OutOfReach(r)'
    BY <2>2 DEF RevokeDevice, processVars, rowVars
  <2>3. ASSUME NEW w \in Workers, RetrySelect(w)
        PROVE  OutOfReach(r)'
    BY <2>3 DEF RetrySelect, Eligible, Pending, rowVars
  <2>4. ASSUME NEW w \in Workers, NEW u \in Records, RetryUpdate(w, u)
        PROVE  OutOfReach(r)'
    BY <2>4 DEF RetryUpdate
  <2>5. ASSUME NEW w \in Workers, RetryAbandon(w)
        PROVE  OutOfReach(r)'
    BY <2>5 DEF RetryAbandon, rowVars
  <2>6. CASE ExpireCleanup
    BY <2>6 DEF ExpireCleanup, Pending
  <2>7. ASSUME NEW u \in Records, AckSelect(u) \/ AckCommit(u) \/ AckAbort(u)
        PROVE  OutOfReach(r)'
    BY <2>7 DEF AckSelect, AckCommit, AckAbort, rowVars
  <2>8. CASE Tick
    BY <2>8 DEF Tick, rowVars
  <2>9. CASE UNCHANGED deliveryVars
    BY <2>9 DEF deliveryVars, processVars, rowVars, ackVars
  <2> QED
    BY <1>1, <2>1, <2>2, <2>3, <2>4, <2>5, <2>6, <2>7, <2>8, <2>9 DEF DeliveryNext, Process
<1>2. DeliveryTypeOK /\ StatusJustified /\ [DeliveryNext]_deliveryVars
        => [\A r \in Records : OutOfReach(r) => OutOfReach(r)']_deliveryVars
  BY <1>1
<1> QED
  BY <1>2, DeliveryTypeCorrect, StatusIsJustified, PTL DEF DeliverySpec, SettledStayOutOfReach

(* Only a worker that had selected a settled row makes it pending again,   *)
(* and it pays with one of the row's attempts.                             *)
THEOREM ReturnsAreCharged == DeliverySpec => ReturnsCostAnAttempt
<1>1. ASSUME DeliveryTypeOK, StatusJustified, DeliveryNext, NEW r \in Records,
             status[r] \in Settled, status'[r] \in Pending
      PROVE  Holders(r) # {} /\ attempts'[r] = attempts[r] + 1
  <2> USE <1>1 DEF DeliveryTypeOK, Settled, Pending
  <2>1. ASSUME NEW e \in Requests, NEW devices \in SUBSET Devices, Accept(e, devices)
        PROVE  FALSE
    <3>1. r \in rows
      BY DEF StatusJustified
    <3> QED
      BY <2>1, <3>1, RecordIsPair DEF Accept
  <2>2. ASSUME NEW w \in Workers, NEW u \in Records, RetryUpdate(w, u)
        PROVE  Holders(r) # {} /\ attempts'[r] = attempts[r] + 1
    <3>1. u = r
      BY <2>2 DEF RetryUpdate
    <3> QED
      BY <2>2, <3>1 DEF RetryUpdate, Holders
  <2>3. ASSUME UNCHANGED status
        PROVE  FALSE
    BY <2>3
  <2>4. CASE ExpireCleanup
    BY <2>4 DEF ExpireCleanup
  <2>5. ASSUME NEW u \in Records, AckCommit(u)
        PROVE  FALSE
    BY <2>5 DEF AckCommit
  <2> QED
    BY <1>1, <2>1, <2>2, <2>3, <2>4, <2>5
       DEF DeliveryNext, Process, RevokeDevice, RetrySelect, RetryAbandon, AckSelect, AckAbort,
           Tick, rowVars, processVars
<1>2. DeliveryTypeOK /\ StatusJustified /\ [DeliveryNext]_deliveryVars =>
        [\A r \in Records : status[r] \in Settled /\ status'[r] \in Pending
             => Holders(r) # {} /\ attempts'[r] = attempts[r] + 1]_deliveryVars
  BY <1>1
<1> QED
  BY <1>2, DeliveryTypeCorrect, StatusIsJustified, PTL DEF DeliverySpec, ReturnsCostAnAttempt

-----------------------------------------------------------------------------
(* The whole.                                                              *)

(* Whatever runs after the insert touches neither which rows there are nor *)
(* the devices.                                                            *)
LEMMA ProcessKeepsRows == Process => UNCHANGED <<revoked, rows>>
BY DEF Process, RetrySelect, RetryUpdate, RetryAbandon, ExpireCleanup, AckSelect, AckCommit,
       AckAbort, Tick

(* What is proved of a component by itself is proved of the whole, by the  *)
(* next four lemmas: they carry over the invariants, and say nothing else. *)
LEMMA WholeIsSubmission == Spec => SubmissionSpec
<1>1. Init => SubmissionInit
  BY DEF Init
<1>2. [Next]_vars => [SubmissionNext]_submissionVars
  <2> SUFFICES ASSUME [Next]_vars
               PROVE  [SubmissionNext]_submissionVars
    OBVIOUS
  <2>1. ASSUME NEW q \in Requests, Submit(q) \/ Call(q)
        PROVE  SubmissionNext
    BY <2>1 DEF Submit, Call, SubmissionNext
  <2>2. ASSUME NEW d \in Devices, Revoke(d)
        PROVE  SubmissionNext
    BY <2>2 DEF Revoke, SubmissionNext, callVars
  <2>3. CASE Deliver
    BY <2>3, ProcessKeepsRows DEF Deliver, submissionVars
  <2>4. CASE UNCHANGED vars
    BY <2>4 DEF vars, submissionVars
  <2> QED
    BY <2>1, <2>2, <2>3, <2>4 DEF Next
<1> QED
  BY <1>1, <1>2, PTL DEF Spec, SubmissionSpec

(* The invariants of the submissions that the whole needs.                 *)
SubmissionInv ==
    /\ SubmissionTypeOK /\ KeyDiscipline /\ OkAnswerStands /\ FanOutComplete
    /\ ChecksPassed /\ StoredArePermitted /\ AnsweredWhenOver

LEMMA WholeKeepsSubmissionInv == Spec => []SubmissionInv
BY WholeIsSubmission, SubmissionTypeCorrect, KeysAreDisciplined, OkAnswersStand,
   FanOutIsComplete, ChecksArePassed, AnsweredExactlyWhenOver, PTL DEF SubmissionInv

(* What the transport accepts was sent by a member, from a device of his   *)
(* own, and fits.                                                          *)
THEOREM OnlyPermittedAreUnderWay == Spec => []StoredArePermitted
BY WholeKeepsSubmissionInv, PTL DEF SubmissionInv

(* A step of a submission inserts the rows of an envelope that had none,   *)
(* for devices there are, or does not touch what the deliveries work on.   *)
LEMMA WholeIsDelivery == Spec => DeliverySpec
<1>1. Init => DeliveryInit
  BY DEF Init
<1>2. SubmissionInv /\ [Next]_vars => [DeliveryNext]_deliveryVars
  <2> SUFFICES ASSUME SubmissionInv, [Next]_vars
               PROVE  [DeliveryNext]_deliveryVars
    OBVIOUS
  <2>1. ASSUME NEW q \in Requests, Submit(q)
        PROVE  DeliveryNext
    <3>1. targets[q] \in SUBSET Devices
      BY DEF SubmissionInv, SubmissionTypeOK
    <3> QED
      BY <2>1, <3>1 DEF Submit, DeliveryNext
  <2>2. ASSUME NEW q \in Requests, Call(q)
        PROVE  UNCHANGED deliveryVars
    BY <2>2 DEF Call, deliveryVars, CheckDevice, Advance, CheckMembership, Lookup,
                ReturnCached, ResolveDevices, InsertEnvelope, InsertKey, Fail, tables
  <2>3. ASSUME NEW d \in Devices, Revoke(d)
        PROVE  DeliveryNext
    BY <2>3 DEF Revoke, DeliveryNext
  <2>4. CASE Deliver
    BY <2>4 DEF Deliver, DeliveryNext
  <2>5. CASE UNCHANGED vars
    BY <2>5 DEF vars, deliveryVars
  <2> QED
    BY <2>1, <2>2, <2>3, <2>4, <2>5 DEF Next
<1> QED
  BY <1>1, <1>2, WholeKeepsSubmissionInv, PTL DEF Spec, DeliverySpec

(* And those of the deliveries.                                            *)
DeliveryInv == DeliveryTypeOK /\ StatusJustified /\ ChargedAttemptsBounded

LEMMA WholeKeepsDeliveryInv == Spec => []DeliveryInv
BY WholeIsDelivery, DeliveryTypeCorrect, StatusIsJustified, ChargedAttemptsAreBounded, PTL
   DEF DeliveryInv

(* What either promises by itself it promises in the whole: the retries    *)
(* stay bounded while envelopes arrive, and a submission means the same    *)
(* while its rows are carried on.                                          *)
THEOREM WholeKeepsItsParts ==
    Spec =>
        /\ [](OneEnvelopePerKey /\ OkAnswerStands /\ FanOutComplete /\ RefusedForAReason)
        /\ ImplementsPromise
        /\ [](AttemptsBounded /\ StatusJustified)
        /\ SettledStayOutOfReach /\ ReturnsCostAnAttempt
<1>1. Spec => SubmissionSpec /\ DeliverySpec
  BY WholeIsSubmission, WholeIsDelivery
<1>2. SubmissionSpec =>
          /\ [](OneEnvelopePerKey /\ OkAnswerStands /\ FanOutComplete /\ RefusedForAReason)
          /\ ImplementsPromise
  BY OneEnvelopeForEachKey, OkAnswersStand, FanOutIsComplete, RefusalsHaveReasons,
     SubmissionImplementsPromise, PTL
<1>3. DeliverySpec =>
          /\ [](AttemptsBounded /\ StatusJustified)
          /\ SettledStayOutOfReach /\ ReturnsCostAnAttempt
  BY AttemptsAreBounded, StatusIsJustified, SettledRowsStayOutOfReach, ReturnsAreCharged, PTL
<1> QED
  BY <1>1, <1>2, <1>3

(* Composing them takes nothing from the submissions: the rows of a call   *)
(* that is about to commit are not there, so that Accept never stops it.   *)
CommitsAreFree ==
    \A q \in Requests : HoldsKey(q) => \A d \in Devices : <<q, d>> \notin rows

(* It holds of the composition.                                            *)
THEOREM NoCommitIsBlocked == Spec => []CommitsAreFree
<1>1. SubmissionInv => CommitsAreFree
  <2> SUFFICES ASSUME SubmissionInv, NEW q \in Requests, pc[q] = "commit",
                      NEW d \in Devices, <<q, d>> \in rows
               PROVE  FALSE
    BY DEF CommitsAreFree, HoldsKey
  <2>1. q \in envelopes
    BY DEF SubmissionInv, FanOutComplete
  <2> QED
    BY <2>1 DEF SubmissionInv, KeyDiscipline
<1> QED
  BY <1>1, WholeKeepsSubmissionInv, PTL

(* An accepted message is with each active device of its recipient, or     *)
(* acknowledged, or expired; its sender can follow it.                     *)
THEOREM MessagesAreNotLost == Spec => []NoMessageLost
<1>1. SubmissionInv /\ DeliveryInv => NoMessageLost
  <2> SUFFICES ASSUME SubmissionInv, DeliveryInv,
                      NEW q \in Requests, NEW d \in Devices, NEW e, e = answer[q].envelope,
                      answer[q].outcome = "ok", OwnerOf[d] = e.recipient, d \notin revoked
               PROVE  /\ \/ e \in PendingEnvelopes(e.recipient, d)
                         \/ acks[<<e, d>>] > 0
                         \/ Expired(<<e, d>>)
                      /\ MayAsk(q.sender, e) /\ <<e, d>> \in DOMAIN EnvelopeStatus(e)
    BY DEF NoMessageLost
  <2>1. e \in envelopes /\ e.device = q.device
    BY DEF SubmissionInv, OkAnswerStands, SameKey, KeyOf
  <2>2. <<e, d>> \in rows /\ <<e, d>> \in Records
    BY <2>1 DEF SubmissionInv, FanOutComplete, SubmissionTypeOK, Records
  <2>3. \/ status[<<e, d>>] \in Pending
        \/ acks[<<e, d>>] > 0
        \/ Expired(<<e, d>>)
    <3>1. status[<<e, d>>] \in Statuses /\ status[<<e, d>>] # "absent"
      BY <2>2 DEF DeliveryInv, DeliveryTypeOK, StatusJustified
    <3> QED
      BY <2>2, <3>1 DEF Statuses, Settled, DeliveryInv, StatusJustified
  <2>4. e.sender = q.sender
    BY <2>1 DEF SubmissionInv, ChecksPassed, StoredArePermitted
  <2>5. <<e, d>> \in DOMAIN EnvelopeStatus(e)
    BY <2>2 DEF EnvelopeStatus, EnvelopeOf
  <2> QED
    BY <2>1, <2>2, <2>3, <2>4, <2>5 DEF PendingEnvelopes, MayAsk
<1> QED
  BY <1>1, WholeKeepsSubmissionInv, WholeKeepsDeliveryInv, PTL

(* Nobody but the owners of the recipient's devices is given an envelope.  *)
THEOREM RecipientsOnly == Spec => []OnlyRecipientsReached
<1>1. SubmissionInv /\ DeliveryInv => OnlyRecipientsReached
  <2> SUFFICES ASSUME SubmissionInv, DeliveryInv
               PROVE  OnlyRecipientsReached
    OBVIOUS
  <2>1. ASSUME NEW w \in Workers, NEW r \in batch[w]
        PROVE  r[1] \in envelopes /\ OwnerOf[r[2]] = r[1].recipient
    <3>1. r \in Records /\ w \in Holders(r)
      BY <2>1 DEF DeliveryInv, DeliveryTypeOK, Holders
    <3>2. r \in rows
      BY <3>1 DEF DeliveryInv, StatusJustified
    <3> QED
      BY <3>2 DEF SubmissionInv, FanOutComplete
  <2>2. ASSUME NEW u \in Users, NEW d \in Devices, NEW e \in PendingEnvelopes(u, d)
        PROVE  OwnerOf[d] = u
    BY <2>2 DEF PendingEnvelopes, SubmissionInv, FanOutComplete
  <2> QED
    BY <2>1, <2>2 DEF OnlyRecipientsReached
<1> QED
  BY <1>1, WholeKeepsSubmissionInv, WholeKeepsDeliveryInv, PTL

-----------------------------------------------------------------------------
(* From end to end.                                                        *)

(* What the answer to a call adds to what was promised.                    *)
LEMMA ToldAfterOk ==
    ASSUME SubmissionTypeOK, NEW q \in Requests, NEW e \in Requests,
           answer[q] = NoAnswer, answer' = [answer EXCEPT ![q] = Ok(e)]
    PROVE  Told' = Told \cup {e}
<1>1. /\ answer'[q].outcome = "ok" /\ answer'[q].envelope = e
      /\ answer[q].outcome # "ok"
  BY DEF SubmissionTypeOK, NoAnswer, Ok
<1>2. \A p \in Requests \ {q} : answer'[p] = answer[p]
  BY DEF SubmissionTypeOK
<1> QED
  BY <1>1, <1>2 DEF Told

(* A refusal promises nothing.                                             *)
LEMMA ToldAfterRefusal ==
    ASSUME SubmissionTypeOK, NEW q \in Requests, NEW o \in Refusals,
           answer[q] = NoAnswer, answer' = [answer EXCEPT ![q] = Refusal(o)]
    PROVE  Told' = Told
<1>1. answer'[q].outcome # "ok" /\ answer[q].outcome # "ok"
  BY DEF SubmissionTypeOK, NoAnswer, Refusal, Refusals
<1>2. \A p \in Requests \ {q} : answer'[p] = answer[p]
  BY DEF SubmissionTypeOK
<1> QED
  BY <1>1, <1>2 DEF Told

(* What was posted to the devices are the rows.                            *)
LEMMA RowsArePosted == SubmissionInv /\ DeliveryInv => Mail!Posted = rows
<1> SUFFICES ASSUME SubmissionInv, DeliveryInv, NEW r \in rows
             PROVE  status[r] \in Pending \cup {"delivered"} \cup {"expired"}
  BY DEF Mail!Posted, InStatus
<1>1. r \in Records
  BY DEF SubmissionInv, SubmissionTypeOK
<1> QED
  BY <1>1 DEF DeliveryInv, DeliveryTypeOK, StatusJustified, Statuses, Settled

(* A commit is the posting of its envelope.  That the devices read before  *)
(* the transaction are enough is what the fan-out says once it is there.   *)
LEMMA SubmitPosts ==
    ASSUME SubmissionInv, SubmissionInv', DeliveryInv, NEW q \in Requests, Submit(q)
    PROVE  Mail!Post(q)
<1>1. /\ pc[q] = "commit" /\ answer[q] = NoAnswer /\ q \notin envelopes
      /\ envelopes' = envelopes \cup {q}
      /\ UNCHANGED <<now, revoked, attempts>>
  BY DEF Submit, Commit, Return, Go, Accept, SubmissionInv, AnsweredWhenOver, KeyDiscipline
<1>2. Told' \in {Told, Told \cup {q}}
  <2>1. CASE answer' = [answer EXCEPT ![q] = Ok(q)]
    BY <2>1, <1>1, ToldAfterOk DEF SubmissionInv
  <2>2. CASE answer' = [answer EXCEPT ![q] = Refusal("failed")]
    BY <2>2, <1>1, ToldAfterRefusal DEF SubmissionInv, Refusals
  <2> QED
    BY <2>1, <2>2 DEF Submit, Commit, Return
<1>3. /\ rows' = rows \cup ({q} \X targets[q])
      /\ \A d \in Devices : <<q, d>> \notin rows
      /\ \A r \in Records : status'[r] = IF EnvelopeOf(r) = q /\ DeviceOf(r) \in targets[q]
                                          THEN "accepted" ELSE status[r]
  BY DEF Submit, Accept
<1>4. targets[q] \subseteq Devices /\ rows \subseteq Records /\ rows' \subseteq Records
  BY DEF SubmissionInv, SubmissionTypeOK
<1>5. /\ \A d \in targets[q] : OwnerOf[d] = q.recipient
      /\ \A d \in Devices : OwnerOf[d] = q.recipient /\ d \notin revoked => d \in targets[q]
  <2>1. ASSUME NEW d \in targets[q]
        PROVE  OwnerOf[d] = q.recipient
    <3>1. <<q, d>> \in rows'
      BY <1>3
    <3> QED
      BY <3>1 DEF SubmissionInv, FanOutComplete
  <2>2. ASSUME NEW d \in Devices, OwnerOf[d] = q.recipient, d \notin revoked
        PROVE  d \in targets[q]
    <3>1. <<q, d>> \in rows'
      BY <2>2, <1>1 DEF SubmissionInv, FanOutComplete
    <3> QED
      BY <3>1, <1>3
  <2> QED
    BY <2>1, <2>2
<1>6. \A r \in rows : status'[r] = status[r]
  BY <1>3, <1>4 DEF Records, EnvelopeOf, DeviceOf
<1>7. \A r \in {q} \X targets[q] : status'[r] = "accepted"
  BY <1>3, <1>4 DEF Records, EnvelopeOf, DeviceOf
<1>8. /\ InStatus(Pending)' = InStatus(Pending) \cup ({q} \X targets[q])
      /\ InStatus({"delivered"})' = InStatus({"delivered"})
      /\ InStatus({"expired"})' = InStatus({"expired"})
  BY <1>3, <1>6, <1>7 DEF InStatus, Pending
<1> QED
  BY <1>1, <1>2, <1>4, <1>5, <1>8 DEF Mail!Post

(* Of the other steps of a call, a retry that is told of the envelope is a *)
(* promise, and the rest is not seen from outside.                         *)
LEMMA CallsPromise ==
    ASSUME SubmissionInv, NEW q \in Requests, Call(q)
    PROVE  Mail!Promise(found[q]) \/ UNCHANGED Mail!vars
<1>1. /\ UNCHANGED <<now, revoked, envelopes, rows, status, attempts>>
      /\ UNCHANGED <<InStatus(Pending), InStatus({"delivered"}), InStatus({"expired"})>>
  <2>1. UNCHANGED <<now, revoked, envelopes, rows, status, attempts>>
    BY DEF Call, processVars, rowVars, CheckDevice, Advance, CheckMembership, Lookup,
           ReturnCached, ResolveDevices, InsertEnvelope, InsertKey, Fail, tables
  <2> QED
    BY <2>1 DEF InStatus
<1>2. CASE ReturnCached(q)
  <2>1. /\ answer[q] = NoAnswer /\ found[q] \in envelopes
        /\ answer' = [answer EXCEPT ![q] = Ok(found[q])]
    BY <1>2, KeyOfRequest DEF ReturnCached, Return, Go, SubmissionInv, AnsweredWhenOver, KeyDiscipline
  <2>2. Told' = Told \cup {found[q]}
    BY <2>1, ToldAfterOk DEF SubmissionInv, SubmissionTypeOK
  <2> QED
    BY <1>1, <2>1, <2>2 DEF Mail!Promise, Mail!boxes
<1>3. CASE UNCHANGED answer
  BY <1>1, <1>3 DEF Told, Mail!vars, Mail!boxes
<1>4. ASSUME NEW o \in Refusals, answer[q] = NoAnswer,
             answer' = [answer EXCEPT ![q] = Refusal(o)]
      PROVE  UNCHANGED Mail!vars
  <2>1. Told' = Told
    BY <1>4, ToldAfterRefusal DEF SubmissionInv
  <2> QED
    BY <1>1, <2>1 DEF Mail!vars, Mail!boxes
<1>5. \/ ReturnCached(q) \/ UNCHANGED answer
      \/ pc[q] # "answered" /\ \E o \in Refusals : answer' = [answer EXCEPT ![q] = Refusal(o)]
  BY DEF Call, CheckDevice, Advance, CheckMembership, Lookup, ResolveDevices, InsertEnvelope,
         InsertKey, Fail, Return, Go, Refusals
<1> QED
  BY <1>2, <1>3, <1>4, <1>5 DEF SubmissionInv, AnsweredWhenOver

(* What runs after the insert takes, reminds or lets lapse, one row or, at *)
(* their expiry, several; a reminder comes from a batch, and the charge of *)
(* the row for it is below the limit.                                      *)
LEMMA ProcessServes ==
    ASSUME SubmissionInv, DeliveryInv, Process, UNCHANGED callVars
    PROVE  Mail!Next \/ UNCHANGED Mail!vars
<1>1. /\ UNCHANGED <<revoked, rows, envelopes, Told>>
      /\ rows \subseteq Records
  BY ProcessKeepsRows DEF callVars, Told, SubmissionInv, SubmissionTypeOK
<1>2. ASSUME UNCHANGED <<status, attempts, now>>
      PROVE  UNCHANGED Mail!vars
  BY <1>1, <1>2 DEF InStatus, Mail!vars, Mail!boxes
<1>3. ASSUME NEW w \in Workers, NEW r \in Records, RetryUpdate(w, r)
      PROVE  Mail!Next
  <2>1. w \in Holders(r) /\ r \in rows
    BY <1>3 DEF RetryUpdate, Holders, DeliveryInv, StatusJustified
  <2>2. attempts[r] < MaxAttempts - 1 + Cardinality(Workers)
    <3>1. Cardinality(Holders(r)) # 0
      BY <2>1, HoldersFinite, FS_EmptySet
    <3>2. attempts[r] + Cardinality(Holders(r)) <= MaxAttempts - 1 + Cardinality(Workers)
      BY DEF DeliveryInv, ChargedAttemptsBounded
    <3> QED
      BY <3>1, <3>2, HoldersFinite, ConstantsTyped DEF DeliveryInv, DeliveryTypeOK
  <2>3. /\ status'[r] = "queued" /\ \A u \in Records \ {r} : status'[u] = status[u]
        /\ attempts' = [attempts EXCEPT ![r] = @ + 1]
        /\ UNCHANGED now
    BY <1>3 DEF RetryUpdate, DeliveryInv, DeliveryTypeOK
  <2>4. /\ InStatus(Pending)' = InStatus(Pending) \cup {r}
        /\ InStatus({"delivered"})' = InStatus({"delivered"}) \ {r}
        /\ InStatus({"expired"})' = InStatus({"expired"}) \ {r}
    BY <1>1, <2>1, <2>3 DEF InStatus, Pending
  <2>5. Mail!Remind(r)
    BY <1>1, <2>2, <2>3, <2>4 DEF Mail!Remind
  <2> QED
    BY <2>1, <2>5, RowsArePosted DEF Mail!Next
<1>4. ASSUME NEW r \in Records, AckCommit(r)
      PROVE  Mail!Next
  <2>1. r \in rows
    BY <1>4 DEF AckCommit, DeliveryInv, StatusJustified
  <2>2. /\ status'[r] = "delivered" /\ \A u \in Records \ {r} : status'[u] = status[u]
        /\ UNCHANGED <<now, attempts>>
    BY <1>4 DEF AckCommit, DeliveryInv, DeliveryTypeOK
  <2>3. /\ InStatus(Pending)' = InStatus(Pending) \ {r}
        /\ InStatus({"delivered"})' = InStatus({"delivered"}) \cup {r}
        /\ InStatus({"expired"})' = InStatus({"expired"}) \ {r}
    BY <1>1, <2>1, <2>2 DEF InStatus, Pending
  <2>4. Mail!Take(r)
    BY <1>1, <2>2, <2>3 DEF Mail!Take
  <2> QED
    BY <2>1, <2>4, RowsArePosted DEF Mail!Next
<1>5. CASE ExpireCleanup
  <2> DEFINE due == {r \in rows : status[r] \in Pending /\ Expired(r)}
  <2>1. /\ \A r \in Records : status'[r] = IF r \in due THEN "expired" ELSE status[r]
        /\ UNCHANGED <<now, attempts>>
    BY <1>5 DEF ExpireCleanup
  <2>2. due \in SUBSET {b \in InStatus(Pending) : b[1].expiresAt <= now}
    BY DEF InStatus, Expired, EnvelopeOf
  <2>3. /\ InStatus(Pending)' = InStatus(Pending) \ due
        /\ InStatus({"delivered"})' = InStatus({"delivered"})
        /\ InStatus({"expired"})' = InStatus({"expired"}) \cup due
    BY <1>1, <2>1 DEF InStatus, Pending
  <2>4. Mail!Lapse
    BY <1>1, <2>1, <2>2, <2>3 DEF Mail!Lapse
  <2> QED
    BY <2>4 DEF Mail!Next
<1>6. CASE Tick
  <2>1. now' = now + 1 /\ UNCHANGED <<status, attempts>>
    BY <1>6 DEF Tick, rowVars
  <2>2. Mail!Pass
    BY <1>1, <2>1 DEF Mail!Pass, InStatus, Mail!boxes
  <2> QED
    BY <2>2 DEF Mail!Next
<1>7. ASSUME NEW w \in Workers, RetrySelect(w) \/ RetryAbandon(w)
      PROVE  UNCHANGED Mail!vars
  BY <1>7, <1>2 DEF RetrySelect, RetryAbandon, rowVars
<1>8. ASSUME NEW r \in Records, AckSelect(r) \/ AckAbort(r)
      PROVE  UNCHANGED Mail!vars
  BY <1>8, <1>2 DEF AckSelect, AckAbort, rowVars
<1> QED
  BY <1>3, <1>4, <1>5, <1>6, <1>7, <1>8 DEF Process

(* The transport keeps, with its queries, locks, batches and retries, what *)
(* Mailbox promises without them.                                          *)
THEOREM WholeImplementsMailbox == Spec => ImplementsMailbox
<1>1. Init => Mail!Init
  <2> SUFFICES ASSUME Init PROVE Mail!Init
    OBVIOUS
  <2>1. \A q \in Requests : answer[q].outcome # "ok"
    BY DEF Init, SubmissionInit, NoAnswer
  <2>2. Told = {}
    BY <2>1 DEF Told
  <2>3. InStatus(Pending) = {} /\ InStatus({"delivered"}) = {} /\ InStatus({"expired"}) = {}
    BY DEF Init, DeliveryInit, InStatus
  <2> QED
    BY <2>2, <2>3 DEF Init, SubmissionInit, DeliveryInit, Records, Mail!Init
<1>2. SubmissionInv /\ SubmissionInv' /\ DeliveryInv /\ [Next]_vars => [Mail!Next]_(Mail!vars)
  <2> SUFFICES ASSUME SubmissionInv, SubmissionInv', DeliveryInv, [Next]_vars
               PROVE  Mail!Next \/ UNCHANGED Mail!vars
    OBVIOUS
  <2>1. ASSUME NEW q \in Requests, Submit(q)
        PROVE  Mail!Next
    BY <2>1, SubmitPosts DEF Mail!Next
  <2>2. ASSUME NEW q \in Requests, Call(q)
        PROVE  Mail!Next \/ UNCHANGED Mail!vars
    <3>1. Mail!Promise(found[q]) => found[q] \in Requests
      BY DEF Mail!Promise, SubmissionInv, SubmissionTypeOK
    <3> QED
      BY <2>2, <3>1, CallsPromise DEF Mail!Next
  <2>3. ASSUME NEW d \in Devices, Revoke(d)
        PROVE  Mail!Next
    <3>1. /\ revoked' = revoked \cup {d}
          /\ UNCHANGED <<now, envelopes, answer, rows, status, attempts>>
      BY <2>3 DEF Revoke, RevokeDevice, callVars, processVars, rowVars
    <3>2. Mail!Revoke(d)
      BY <3>1 DEF Mail!Revoke, Mail!boxes, InStatus, Told
    <3> QED
      BY <3>2 DEF Mail!Next
  <2>4. CASE Deliver
    BY <2>4, ProcessServes DEF Deliver
  <2>5. CASE UNCHANGED vars
    BY <2>5 DEF vars, callVars, processVars, rowVars, Mail!vars, Mail!boxes, InStatus, Told
  <2> QED
    BY <2>1, <2>2, <2>3, <2>4, <2>5 DEF Next
<1> QED
  BY <1>1, <1>2, WholeKeepsSubmissionInv, WholeKeepsDeliveryInv, PTL
     DEF Spec, ImplementsMailbox, Mail!Spec
=============================================================================
