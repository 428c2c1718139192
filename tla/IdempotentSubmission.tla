------------------------ MODULE IdempotentSubmission ------------------------
(***************************************************************************)
(* What submitEnvelope promises of idempotency keys (ADR-052), with no     *)
(* queries, transactions or locks: a key is bound to one envelope, once    *)
(* and for good, and every call is answered in one step from that binding. *)
(***************************************************************************)
EXTENDS SubmissionRequests

VARIABLES
    bound,      \* the envelope each (device, idempotency key) stands for
    answer      \* the answer of each call

vars == <<bound, answer>>

Init ==
    /\ bound = [k \in Keys |-> NoEnvelope]
    /\ answer = [q \in Requests |-> NoAnswer]

Reply(q, a) ==
    /\ answer[q] = NoAnswer
    /\ answer' = [answer EXCEPT ![q] = a]

(* A free key is bound to the call's envelope.  The caller may never hear  *)
(* of it.                                                                  *)
Bind(q) ==
    /\ bound[KeyOf(q)] = NoEnvelope
    /\ bound' = [bound EXCEPT ![KeyOf(q)] = q]
    /\ \/ Reply(q, Ok(q))
       \/ Reply(q, Refusal("failed"))

(* A bound key answers with its envelope, for the same payload.            *)
Replay(q) ==
    /\ bound[KeyOf(q)] # NoEnvelope
    /\ bound[KeyOf(q)].digest = q.digest
    /\ Reply(q, Ok(bound[KeyOf(q)]))
    /\ UNCHANGED bound

(* A refusal binds nothing.  A well-formed call is a bad request only      *)
(* because its key stands for another payload, and a conflict only because *)
(* its key is bound.                                                       *)
Refuse(q) ==
    /\ \/ Reply(q, Refusal("forbidden"))
       \/ Reply(q, Refusal("failed"))
       \/ /\ \/ q.oversize
             \/ /\ bound[KeyOf(q)] # NoEnvelope
                /\ bound[KeyOf(q)].digest # q.digest
          /\ Reply(q, Refusal("badRequest"))
       \/ /\ bound[KeyOf(q)] # NoEnvelope
          /\ Reply(q, Refusal("conflict"))
    /\ UNCHANGED bound

Next == \E q \in Requests : Bind(q) \/ Replay(q) \/ Refuse(q)

Spec == Init /\ [][Next]_vars
=============================================================================
