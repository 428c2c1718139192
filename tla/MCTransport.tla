---------------------------- MODULE MCTransport ----------------------------
(* Values for TLC.  A message, a retry of it, and one for a conversation   *)
(* that the sender is no member of; the message expires while it is under  *)
(* way to the two devices of its recipient, which are like each other.     *)
EXTENDS Transport, TLC

CONSTANTS alice, bob, phone, bobPhone, bobTablet, chat, other

Dto(id, conversation) ==
    [id |-> id, sender |-> alice, device |-> phone, key |-> "k", digest |-> "m",
     oversize |-> FALSE, conversation |-> conversation, recipient |-> bob, expiresAt |-> 1]

MCRequests == {Dto(1, chat), Dto(2, chat), Dto(3, other)}
MCUsers == {alice, bob}
MCOwnerOf == [d \in Devices |-> IF d = phone THEN alice ELSE bob]
MCMembers == {<<chat, alice>>, <<chat, bob>>}

Symmetry == Permutations({bobPhone, bobTablet})
=============================================================================
