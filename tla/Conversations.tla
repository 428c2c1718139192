--------------------------- MODULE Conversations ---------------------------
(***************************************************************************)
(* Direct conversations (conversation.service.ts): calls of                *)
(* getOrCreateDirectConversation at once, each with checks outside its     *)
(* transaction, and the read state of a conversation (acknowledgeRead of   *)
(* message-envelope.service.ts).  One action is one query; a call's stage  *)
(* is the query it is about to make.  A conversation is named by its pair. *)
(***************************************************************************)
EXTENDS Integers, FiniteSets

CONSTANTS
    Users,          \* rows of users whose account_state is not "deleted"
    Seeded,         \* the pairs that have a conversation, and members, already
    Creations,      \* calls of getOrCreateDirectConversation
    PoolSize,       \* connections of the ConversationService's pool
    Acks,           \* calls of acknowledgeRead
    Envelopes,      \* rows of message_envelopes
    Unread          \* no row in message_read_states

Pair(c) == {c.user, c.recipient}

ASSUME SeededAssumption ==
    \A p \in Seeded : p \subseteq Users /\ Cardinality(p) = 2
ASSUME PoolAssumption == PoolSize \in Nat \ {0}
ASSUME CallsAssumption ==
    /\ IsFiniteSet(Creations)
    /\ Creations \cap Acks = {} /\ Unread \notin Acks

VARIABLES
    conversations,  \* the pairs in direct_conversations that are committed
    members,        \* conversation_members, as <<conversation, user>>
    readStates,     \* message_read_states: the call a row is from
    free,           \* idle connections
    stage,
    outcome,        \* what a call was answered
    before          \* the calls of acknowledgeRead answered when one began

tables == <<conversations, members, readStates>>
vars == <<tables, free, stage, outcome, before>>

Calls == Creations \cup Acks
Stages == {"new", "recipient", "lookup", "connect", "insert", "members", "rollback",
           "member", "upsert", "answered"}
Outcomes == {"none", "ok", "badRequest", "notFound", "forbidden", "failed"}
Members == (Seeded \cup {Pair(c) : c \in Creations}) \X Users

(* A creation's transaction is open, and its connection taken.             *)
Holding == {"members", "rollback"}
Connected == {"insert"} \cup Holding

TypeOK ==
    /\ conversations \subseteq Seeded \cup {Pair(c) : c \in Creations}
    /\ members \subseteq Members
    /\ readStates \in [Members -> Acks \cup {Unread}]
    /\ free \in 0 .. PoolSize
    /\ free + Cardinality({c \in Creations : stage[c] \in Connected}) = PoolSize
    /\ stage \in [Calls -> Stages]
    /\ outcome \in [Calls -> Outcomes]
    /\ before \in [Acks -> SUBSET Acks]

Init ==
    /\ conversations = Seeded
    /\ members = {m \in Members : m[1] \in Seeded /\ m[2] \in m[1]}
    /\ readStates = [m \in Members |-> Unread]
    /\ free = PoolSize
    /\ stage = [c \in Calls |-> "new"]
    /\ outcome = [c \in Calls |-> "none"]
    /\ before = [a \in Acks |-> {}]

-----------------------------------------------------------------------------
Go(c, s) == stage' = [stage EXCEPT ![c] = s] /\ UNCHANGED outcome

Answer(c, o) ==
    /\ stage' = [stage EXCEPT ![c] = "answered"]
    /\ outcome' = [outcome EXCEPT ![c] = o]

(* Nobody converses with himself.                                          *)
RefuseSelf(c) ==
    /\ stage[c] = "new"
    /\ \/ c.user = c.recipient /\ Answer(c, "badRequest")
       \/ c.user # c.recipient /\ Go(c, "recipient")
    /\ UNCHANGED <<tables, free, before>>

(* A query of the pool itself needs a connection while it runs.            *)
CheckRecipient(c) ==
    /\ stage[c] = "recipient"
    /\ free > 0
    /\ \/ c.recipient \in Users /\ Go(c, "lookup")
       \/ c.recipient \notin Users /\ Answer(c, "notFound")
    /\ UNCHANGED <<tables, free, before>>

(* The conversation the pair has, whoever of the two asks.                 *)
LookUp(c) ==
    /\ stage[c] = "lookup"
    /\ free > 0
    /\ \/ Pair(c) \in conversations /\ Answer(c, "ok")
       \/ Pair(c) \notin conversations /\ Go(c, "connect")
    /\ UNCHANGED <<tables, free, before>>

Connect(c) ==
    /\ stage[c] = "connect"
    /\ free > 0
    /\ free' = free - 1
    /\ Go(c, "insert")
    /\ UNCHANGED <<tables, before>>

(* The unique index on the pair: an insert waits for an open transaction   *)
(* with the same pair, and fails once it is committed.                     *)
InsertConversation(c) ==
    /\ stage[c] = "insert"
    /\ \A d \in Creations : Pair(d) = Pair(c) => stage[d] \notin Holding
    /\ \/ Pair(c) \in conversations /\ Go(c, "rollback")
       \/ Pair(c) \notin conversations /\ Go(c, "members")
    /\ UNCHANGED <<tables, free, before>>

(* The statement has five placeholders and is given six values: the        *)
(* database refuses it, whoever the members are, and COMMIT is not reached.*)
InsertMembers(c) ==
    /\ stage[c] = "members"
    /\ Go(c, "rollback")
    /\ UNCHANGED <<tables, free, before>>

(* A faulty end, which keeps the connection.                               *)
RollbackLeaking(c) ==
    /\ stage[c] = "rollback"
    /\ Answer(c, "failed")
    /\ UNCHANGED <<tables, free, before>>

(* ROLLBACK, whether or not it succeeds, then release.                     *)
Rollback(c) ==
    /\ stage[c] = "rollback"
    /\ free' = free + 1
    /\ Answer(c, "failed")
    /\ UNCHANGED <<tables, before>>

(* A query fails, or none of the pool's connections comes free in time.    *)
Fail(c) ==
    /\ \/ stage[c] \in {"recipient", "lookup", "connect"} /\ Answer(c, "failed")
       \/ stage[c] = "insert" /\ Go(c, "rollback")
    /\ UNCHANGED <<tables, free, before>>

-----------------------------------------------------------------------------
BeginAck(a) ==
    /\ stage[a] = "new"
    /\ before' = [before EXCEPT ![a] = {b \in Acks : outcome[b] = "ok"}]
    /\ Go(a, "member")
    /\ UNCHANGED <<tables, free>>

CheckMember(a) ==
    /\ stage[a] = "member"
    /\ \/ <<a.conversation, a.user>> \in members /\ Go(a, "upsert")
       \/ <<a.conversation, a.user>> \notin members /\ Answer(a, "forbidden")
    /\ UNCHANGED <<tables, free, before>>

(* A faulty upsert, ON CONFLICT DO NOTHING.                                *)
UpsertOnce(a) ==
    /\ stage[a] = "upsert"
    /\ Answer(a, "ok")
    /\ readStates' = [readStates EXCEPT ![<<a.conversation, a.user>>] =
                          IF @ = Unread THEN a ELSE @]
    /\ UNCHANGED <<conversations, members, free, before>>

(* The row's envelope is replaced, whichever is the later one, if it is an *)
(* envelope at all; that it is one of this conversation nothing asks.  The *)
(* answer may be lost after the row was written.                           *)
Upsert(a) ==
    /\ stage[a] = "upsert"
    /\ \/ /\ a.envelope \in Envelopes
          /\ readStates' = [readStates EXCEPT ![<<a.conversation, a.user>>] = a]
          /\ Answer(a, "ok") \/ Answer(a, "failed")
       \/ /\ a.envelope \notin Envelopes
          /\ Answer(a, "failed")
          /\ UNCHANGED readStates
    /\ UNCHANGED <<conversations, members, free, before>>

FailAck(a) ==
    /\ stage[a] \in {"member", "upsert"}
    /\ Answer(a, "failed")
    /\ UNCHANGED <<tables, free, before>>

-----------------------------------------------------------------------------
Advance ==
    \/ \E c \in Creations :
           \/ CheckRecipient(c) \/ LookUp(c) \/ Connect(c)
           \/ InsertConversation(c) \/ InsertMembers(c) \/ Rollback(c)
    \/ \E a \in Acks : CheckMember(a) \/ Upsert(a)

Next ==
    \/ Advance
    \/ \E c \in Creations : RefuseSelf(c) \/ Fail(c)
    \/ \E a \in Acks : BeginAck(a) \/ FailAck(a)

Spec == Init /\ [][Next]_vars

(* Queries and the pool make progress; calls need not come nor fail.       *)
FairSpec == Spec /\ WF_vars(Advance)

-----------------------------------------------------------------------------
(* The latest acknowledgement of reading stands: the state is never that   *)
(* of a call that had been answered when one answered since for the same   *)
(* member began.  Only calls under way at once, such as a repetition and   *)
(* the call it repeats, may leave it at the earlier envelope.              *)
LatestReadStands ==
    \A a \in Acks :
        LET last == readStates[<<a.conversation, a.user>>] IN
        outcome[a] = "ok" =>
            /\ <<a.conversation, a.user>> \in members
            /\ last # Unread /\ last \notin before[a]

(* Every call that began is answered: the connections are given back, and  *)
(* no creation waits for good for another one's transaction or connection, *)
(* without a timeout to help.                                              *)
EveryCallAnswered ==
    <>[](\A c \in Calls : stage[c] \in {"new", "answered"})
=============================================================================
