-------------------------- MODULE SubmissionRequests --------------------------
(***************************************************************************)
(* The calls of submitEnvelope and their answers, shared by the abstract   *)
(* IdempotentSubmission, the detailed EnvelopeSubmission and, whose rows   *)
(* are of the envelopes the calls make, Delivery.                          *)
(*                                                                         *)
(* A request is one call, with the arguments the code looks at:            *)
(*   id              tells apart two calls with the same arguments (a      *)
(*                   client's retry is a call of its own)                  *)
(*   sender, device  the principal: senderUserId, senderDeviceId           *)
(*   key             dto.idempotencyKey                                    *)
(*   digest          the SHA-256 of the decoded payload, by which two      *)
(*                   payloads are told apart                               *)
(*   oversize        the decoded payload is longer than 65536 bytes        *)
(*   conversation, recipient, expiresAt   the dto's                        *)
(* Each call generates a fresh UUIDv7 for the envelope it would insert, so *)
(* the request also stands for that envelope and its id.                   *)
(***************************************************************************)
CONSTANTS Requests, NoEnvelope

ASSUME NoEnvelopeAssumption == NoEnvelope \notin Requests

(* The columns of unq_device_idempotency.                                  *)
KeyOf(q) == <<q.device, q.key>>
Keys == {KeyOf(q) : q \in Requests}

SameKey(q1, q2) == KeyOf(q1) = KeyOf(q2)

(* What a call returns or throws.  "conflict" is the database's unique     *)
(* violation, rethrown as it is; "failed" is any other error, a lost       *)
(* connection or the death of the process.                                 *)
Refusals == {"forbidden", "badRequest", "conflict", "failed"}
Answers == [outcome : {"none"} \cup Refusals, envelope : {NoEnvelope}]
              \cup [outcome : {"ok"}, envelope : Requests]

NoAnswer == [outcome |-> "none", envelope |-> NoEnvelope]
Refusal(outcome) == [outcome |-> outcome, envelope |-> NoEnvelope]
Ok(e) == [outcome |-> "ok", envelope |-> e]
=============================================================================
