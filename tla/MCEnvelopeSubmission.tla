------------------------ MODULE MCEnvelopeSubmission ------------------------
(* Values for TLC.  A request, a retry of it, and a reuse of its key for   *)
(* another payload.                                                        *)
EXTENDS EnvelopeSubmission, TLC

CONSTANTS alice, bob, phone, bobPhone, bobTablet, chat

Call(id, digest) ==
    [id |-> id, sender |-> alice, device |-> phone, key |-> "k", digest |-> digest,
     oversize |-> FALSE, conversation |-> chat, recipient |-> bob]

First  == Call(1, "m")
Retry  == Call(2, "m")
Reused == Call(3, "n")

MCRequests == {First, Retry, Reused}
MCUsers == {alice, bob}
MCOwnerOf == [d \in Devices |-> IF d = phone THEN alice ELSE bob]
MCMembers == {<<chat, alice>>, <<chat, bob>>}
=============================================================================
