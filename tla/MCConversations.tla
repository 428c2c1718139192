-------------------------- MODULE MCConversations --------------------------
(* Values for TLC.  Both of a pair create their conversation while others  *)
(* ask for one that is there and for one with nobody; a member             *)
(* acknowledges reading twice, and a stranger once.                        *)
EXTENDS Conversations, TLC

CONSTANTS alice, bob, carol, nobody

Create(user, recipient) == [user |-> user, recipient |-> recipient]
Ack(id, user, envelope) ==
    [id |-> id, user |-> user, conversation |-> {alice, carol}, envelope |-> envelope]

MCUsers == {alice, bob, carol}
MCSeeded == {{alice, carol}}
MCCreations == {Create(alice, bob), Create(bob, alice), Create(carol, alice),
                Create(alice, nobody)}
MCAcks == {Ack(1, alice, "e1"), Ack(2, alice, "e2"), Ack(3, bob, "e1")}
=============================================================================
