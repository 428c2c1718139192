-------------------------- MODULE MCNativeBoundary --------------------------
(* The registry limit and the buffer are small enough to be reached.       *)
EXTENDS NativeBoundary
=============================================================================
