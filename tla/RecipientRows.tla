--------------------------- MODULE RecipientRows ---------------------------
(***************************************************************************)
(* What the submission of envelopes and their delivery share in the        *)
(* database: the rows of message_recipient_devices, which the one inserts  *)
(* and the other works on, and the devices.                                *)
(***************************************************************************)
EXTENDS SubmissionRequests

CONSTANT Devices

VARIABLES
    revoked,        \* devices.is_revoked
    rows            \* committed rows of message_recipient_devices

(* A row is identified by the pair unq_envelope_recipient_device makes     *)
(* unique.                                                                 *)
Records == Requests \X Devices
EnvelopeOf(r) == r[1]
DeviceOf(r) == r[2]

(* The commit of DeviceService.revokeDevice, as far as messages are        *)
(* concerned: the rows of the device stay.                                 *)
RevokeDevice(d) ==
    /\ d \notin revoked
    /\ revoked' = revoked \cup {d}
    /\ UNCHANGED rows
=============================================================================
