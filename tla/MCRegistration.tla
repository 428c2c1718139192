--------------------------- MODULE MCRegistration ---------------------------
(* Values for TLC: a call and its retry, a call with another challenge for *)
(* the same number, and one that wants the same name for another number.   *)
EXTENDS Registration

CONSTANTS first, retry, again, rival

MCChallengeOf ==
    [c \in Calls |-> CASE c = first -> "h1" [] c = retry -> "h1"
                       [] c = again -> "h2" [] c = rival -> "h3"]
MCPhoneOf == [h \in Challenges |-> IF h = "h3" THEN "q" ELSE "p"]
MCChallenges == {"h1", "h2", "h3"}
MCPhones == {"p", "q"}
MCNames == {"m", "n"}
MCNameOf == [c \in Calls |-> IF c = again THEN "m" ELSE "n"]
=============================================================================
