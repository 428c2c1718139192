------------------------- MODULE MCRegistrationLock -------------------------
(* Values for TLC: as many names for failed attempts as two callers can    *)
(* put into a window, and one to spare.                                    *)
EXTENDS RegistrationLock, TLC
=============================================================================
