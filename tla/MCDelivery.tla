----------------------------- MODULE MCDelivery -----------------------------
(* Values for TLC.  Of an envelope its expiry alone matters: the first     *)
(* expires while the batches are under way, the second is still alive when *)
(* the clock stops, the third has expired when it is submitted.            *)
EXTENDS Delivery, TLC

MCRequests == {[id |-> 1, expiresAt |-> 1], [id |-> 2, expiresAt |-> 3],
               [id |-> 3, expiresAt |-> 0]}
=============================================================================
