-------------------------- MODULE MCOtpChallenges --------------------------
(* Values for TLC: the first requester asks twice, the second once.        *)
EXTENDS OtpChallenges, TLC

CONSTANTS c1, c2, c3, r1, r2, phone

MCPhoneOf == [c \in Challenges |-> phone]
MCRequesterOf == [c \in Challenges |-> IF c = c2 THEN r2 ELSE r1]
=============================================================================
