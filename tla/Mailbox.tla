------------------------------- MODULE Mailbox -------------------------------
(***************************************************************************)
(* What the message transport promises from end to end, with no calls,     *)
(* keys, batches or transactions: a message that is accepted waits at once *)
(* for every active device of its recipient, a sender is promised nothing  *)
(* but accepted messages, and what waits for a device goes only because    *)
(* the device took it or its time is over.  Reminders may put back what    *)
(* was settled, a limited number of times.                                 *)
(***************************************************************************)
EXTENDS Integers

CONSTANTS
    Messages,
    Devices,
    OwnerOf,
    MaxReminders    \* reminders of one message at one device

VARIABLES
    now,
    revoked,
    accepted,       \* the messages that were accepted
    promised,       \* those of them that some sender was told of
    waiting, taken, lapsed,     \* pairs of a message and a device
    reminders       \* of each pair

boxes == <<waiting, taken, lapsed>>
vars == <<now, revoked, accepted, promised, boxes, reminders>>

Init ==
    /\ now = 0
    /\ revoked = {} /\ accepted = {} /\ promised = {}
    /\ waiting = {} /\ taken = {} /\ lapsed = {}
    /\ reminders = [b \in Messages \X Devices |-> 0]

(* Devices that were revoked since may be among the recipient's.           *)
Post(m) ==
    LET owned == {d \in Devices : OwnerOf[d] = m.recipient} IN
    /\ m \notin accepted
    /\ accepted' = accepted \cup {m}
    /\ promised' \in {promised, promised \cup {m}}
    /\ \E reached \in SUBSET owned :
          /\ owned \ revoked \subseteq reached
          /\ waiting' = waiting \cup ({m} \X reached)
    /\ UNCHANGED <<now, revoked, taken, lapsed, reminders>>

(* A retry is told of what was accepted before.                            *)
Promise(m) ==
    /\ m \in accepted
    /\ promised' = promised \cup {m}
    /\ UNCHANGED <<now, revoked, accepted, boxes, reminders>>

(* What was posted to a device.                                            *)
Posted == waiting \cup taken \cup lapsed

Take(b) ==
    /\ taken' = taken \cup {b}
    /\ waiting' = waiting \ {b}
    /\ lapsed' = lapsed \ {b}
    /\ UNCHANGED <<now, revoked, accepted, promised, reminders>>

Remind(b) ==
    /\ reminders[b] < MaxReminders
    /\ reminders' = [reminders EXCEPT ![b] = @ + 1]
    /\ waiting' = waiting \cup {b}
    /\ taken' = taken \ {b}
    /\ lapsed' = lapsed \ {b}
    /\ UNCHANGED <<now, revoked, accepted, promised>>

Lapse ==
    /\ \E due \in SUBSET {b \in waiting : b[1].expiresAt <= now} :
          /\ waiting' = waiting \ due
          /\ lapsed' = lapsed \cup due
    /\ UNCHANGED <<now, revoked, accepted, promised, taken, reminders>>

Revoke(d) ==
    /\ revoked' = revoked \cup {d}
    /\ UNCHANGED <<now, accepted, promised, boxes, reminders>>

Pass ==
    /\ now' = now + 1
    /\ UNCHANGED <<revoked, accepted, promised, boxes, reminders>>

Next ==
    \/ \E m \in Messages : Post(m) \/ Promise(m)
    \/ \E b \in Posted : Take(b) \/ Remind(b)
    \/ Lapse
    \/ \E d \in Devices : Revoke(d)
    \/ Pass

Spec == Init /\ [][Next]_vars
=============================================================================
