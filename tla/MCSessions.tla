----------------------------- MODULE MCSessions -----------------------------
(* Values for TLC: a refresh, two revocations of the device, a logout and  *)
(* a logout from everywhere.                                               *)
EXTENDS Sessions, TLC

CONSTANTS refresh, revoke, again, logout, everywhere

MCKind ==
    refresh :> "refresh" @@ revoke :> "revoke" @@ again :> "revoke"
        @@ logout :> "logout" @@ everywhere :> "logout all"
=============================================================================
