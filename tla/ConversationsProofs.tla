------------------------ MODULE ConversationsProofs ------------------------
(***************************************************************************)
(* What the conversations guarantee, for every set of users, conversations *)
(* and calls and every size of the pool, however the queries of the calls  *)
(* interleave and whichever of them fail: the pool's connections are all   *)
(* accounted for, no call stops for good, and the latest acknowledgement   *)
(* of reading stands.                                                      *)
(***************************************************************************)
EXTENDS Conversations, FiniteSetTheorems, TLAPS

-----------------------------------------------------------------------------
(* The creations that have one of the pool's connections.                  *)
Connections == {c \in Creations : stage[c] \in Connected}

(* They are a finite set.                                                  *)
LEMMA ConnectionsCounted ==
    /\ IsFiniteSet(Connections) /\ Cardinality(Connections) \in Nat
    /\ IsFiniteSet(Connections') /\ Cardinality(Connections') \in Nat
<1>1. Connections \in SUBSET Creations /\ Connections' \in SUBSET Creations
  BY DEF Connections
<1> QED
  BY <1>1, CallsAssumption, FS_Subset, FS_CardinalityType

(* A call is one or the other.                                             *)
LEMMA CallsApart == \A c \in Creations : c \in Calls /\ c \notin Acks
BY CallsAssumption DEF Calls

(* Every variable has its type.                                            *)
TypeInv ==
    /\ conversations \subseteq Seeded \cup {Pair(c) : c \in Creations}
    /\ members \subseteq Members
    /\ readStates \in [Members -> Acks \cup {Unread}]
    /\ stage \in [Calls -> Stages]
    /\ outcome \in [Calls -> Outcomes]
    /\ before \in [Acks -> SUBSET Acks]

(* The idle connections and those that the open transactions hold are the  *)
(* pool, whichever query failed.                                           *)
PoolInv ==
    /\ free \in Nat
    /\ free + Cardinality(Connections) = PoolSize

(* The connections, when one creation goes to another stage.               *)
LEMMA ConnectionsAfter ==
    ASSUME NEW c \in Creations, NEW s, TypeInv,
           stage' = [stage EXCEPT ![c] = s]
    PROVE  /\ s \in Connected => Connections' = Connections \cup {c}
           /\ s \notin Connected => Connections' = Connections \ {c}
<1>1. stage'[c] = s /\ \A d \in Creations \ {c} : stage'[d] = stage[d]
  BY CallsApart DEF TypeInv
<1> QED
  BY <1>1 DEF Connections

(* A creation that goes on without or with its connection keeps the count. *)
LEMMA SameConnections ==
    ASSUME NEW c \in Creations, NEW s, TypeInv,
           stage' = [stage EXCEPT ![c] = s],
           (stage[c] \in Connected) <=> (s \in Connected)
    PROVE  Connections' = Connections
<1>1. c \in Connections <=> stage[c] \in Connected
  BY DEF Connections
<1> QED
  BY <1>1, ConnectionsAfter

(* A call of acknowledgeRead takes no connection of the pool.              *)
LEMMA AcksApart ==
    ASSUME NEW a \in Acks, NEW s, TypeInv, stage' = [stage EXCEPT ![a] = s]
    PROVE  Connections' = Connections
<1>1. \A d \in Creations : stage'[d] = stage[d]
  BY CallsApart DEF TypeInv
<1> QED
  BY <1>1 DEF Connections

(* Both hold in every reachable state.                                     *)
LEMMA TypeInvariant == Spec => [](TypeInv /\ PoolInv)
<1>1. Init => TypeInv /\ PoolInv
  <2> SUFFICES ASSUME Init PROVE TypeInv /\ PoolInv
    OBVIOUS
  <2>1. TypeInv
    BY DEF Init, TypeInv, Stages, Outcomes
  <2>2. Connections = {}
    BY CallsApart DEF Init, Connections, Connected, Holding
  <2> QED
    BY <2>1, <2>2, PoolAssumption, FS_EmptySet DEF Init, PoolInv
<1>2. TypeInv /\ PoolInv /\ [Next]_vars => (TypeInv /\ PoolInv)'
  <2> SUFFICES ASSUME TypeInv, PoolInv, [Next]_vars
               PROVE  TypeInv' /\ PoolInv'
    OBVIOUS
  <2>a. TypeInv'
    <3> USE DEF TypeInv, Stages, Outcomes, Calls, tables, Go, Answer
    <3>1. ASSUME NEW c \in Creations, RefuseSelf(c)
          PROVE  TypeInv'
      BY <3>1 DEF RefuseSelf
    <3>2. ASSUME NEW c \in Creations, CheckRecipient(c)
          PROVE  TypeInv'
      BY <3>2 DEF CheckRecipient
    <3>3. ASSUME NEW c \in Creations, LookUp(c)
          PROVE  TypeInv'
      BY <3>3 DEF LookUp
    <3>4. ASSUME NEW c \in Creations, Connect(c)
          PROVE  TypeInv'
      BY <3>4 DEF Connect
    <3>5. ASSUME NEW c \in Creations, InsertConversation(c)
          PROVE  TypeInv'
      BY <3>5 DEF InsertConversation
    <3>6. ASSUME NEW c \in Creations, InsertMembers(c)
          PROVE  TypeInv'
      BY <3>6 DEF InsertMembers
    <3>7. ASSUME NEW c \in Creations, Rollback(c)
          PROVE  TypeInv'
      BY <3>7 DEF Rollback
    <3>8. ASSUME NEW c \in Creations, Fail(c)
          PROVE  TypeInv'
      BY <3>8 DEF Fail
    <3>9. ASSUME NEW a \in Acks, BeginAck(a)
          PROVE  TypeInv'
      BY <3>9 DEF BeginAck
    <3>10. ASSUME NEW a \in Acks, CheckMember(a)
           PROVE  TypeInv'
      BY <3>10 DEF CheckMember
    <3>11. ASSUME NEW a \in Acks, Upsert(a)
           PROVE  TypeInv'
      BY <3>11 DEF Upsert
    <3>12. ASSUME NEW a \in Acks, FailAck(a)
           PROVE  TypeInv'
      BY <3>12 DEF FailAck
    <3>13. CASE UNCHANGED vars
      BY <3>13 DEF vars
    <3> QED
      BY <3>1, <3>2, <3>3, <3>4, <3>5, <3>6, <3>7, <3>8, <3>9, <3>10, <3>11,
         <3>12, <3>13 DEF Next, Advance
  <2>b. ASSUME Connections' = Connections, free' = free
        PROVE  PoolInv'
    BY <2>b DEF PoolInv
  <2>c. PoolInv'
    <3> USE DEF Connected, Holding, Go, Answer
    <3>1. ASSUME NEW c \in Creations, RefuseSelf(c) \/ CheckRecipient(c) \/ LookUp(c)
          PROVE  PoolInv'
      <4>1. PICK s \in {"recipient", "lookup", "connect", "answered"} :
                stage' = [stage EXCEPT ![c] = s]
        BY <3>1 DEF RefuseSelf, CheckRecipient, LookUp
      <4>2. stage[c] \notin Connected /\ free' = free
        BY <3>1 DEF RefuseSelf, CheckRecipient, LookUp
      <4> QED
        BY <4>1, <4>2, SameConnections, <2>b
    <3>2. ASSUME NEW c \in Creations, Connect(c)
          PROVE  PoolInv'
      <4>1. c \notin Connections /\ Connections' = Connections \cup {c}
        BY <3>2, ConnectionsAfter DEF Connect, Connections
      <4>2. Cardinality(Connections') = Cardinality(Connections) + 1
        BY <4>1, ConnectionsCounted, FS_AddElement
      <4> QED
        BY <3>2, <4>2, ConnectionsCounted DEF Connect, PoolInv
    <3>3. ASSUME NEW c \in Creations, InsertConversation(c) \/ InsertMembers(c)
          PROVE  PoolInv'
      <4>1. PICK s \in {"members", "rollback"} : stage' = [stage EXCEPT ![c] = s]
        BY <3>3 DEF InsertConversation, InsertMembers
      <4>2. stage[c] \in Connected /\ free' = free
        BY <3>3 DEF InsertConversation, InsertMembers
      <4> QED
        BY <4>1, <4>2, SameConnections, <2>b
    <3>4. ASSUME NEW c \in Creations, Rollback(c)
          PROVE  PoolInv'
      <4>0. c \in Connections
        BY <3>4 DEF Rollback, Connections
      <4>1. Connections' = Connections \ {c}
        <5>1. stage' = [stage EXCEPT ![c] = "answered"] /\ "answered" \notin Connected
          BY <3>4 DEF Rollback
        <5> HIDE DEF Connected
        <5> QED
          BY <5>1, ConnectionsAfter
      <4>2. Cardinality(Connections') = Cardinality(Connections) - 1
        BY <4>0, <4>1, ConnectionsCounted, FS_RemoveElement
      <4> QED
        BY <3>4, <4>2, ConnectionsCounted DEF Rollback, PoolInv
    <3>5. ASSUME NEW c \in Creations, Fail(c)
          PROVE  PoolInv'
      <4>1. free' = free
        BY <3>5 DEF Fail
      <4>2. CASE stage[c] = "insert" /\ Go(c, "rollback")
        BY <4>1, <4>2, SameConnections, <2>b
      <4>3. CASE stage[c] \in {"recipient", "lookup", "connect"} /\ Answer(c, "failed")
        BY <4>1, <4>3, SameConnections, <2>b
      <4> QED
        BY <3>5, <4>2, <4>3 DEF Fail
    <3>6. ASSUME NEW a \in Acks,
                 BeginAck(a) \/ CheckMember(a) \/ Upsert(a) \/ FailAck(a)
          PROVE  PoolInv'
      <4>1. \E s \in Stages : stage' = [stage EXCEPT ![a] = s]
        BY <3>6 DEF BeginAck, CheckMember, Upsert, FailAck, Stages
      <4>2. free' = free
        BY <3>6 DEF BeginAck, CheckMember, Upsert, FailAck, tables
      <4> QED
        BY <4>1, <4>2, AcksApart, <2>b
    <3>7. CASE UNCHANGED vars
      BY <3>7, <2>b DEF vars, Connections
    <3> QED
      BY <3>1, <3>2, <3>3, <3>4, <3>5, <3>6, <3>7 DEF Next, Advance
  <2> QED
    BY <2>a, <2>c
<1> QED
  BY <1>1, <1>2, PTL DEF Spec

(* The types, and the account of the pool: no connection is lost when a    *)
(* query fails in a transaction, and none is given back twice.             *)
THEOREM TypeCorrect == Spec => []TypeOK
<1>1. TypeInv /\ PoolInv => TypeOK
  BY ConnectionsCounted, PoolAssumption DEF TypeInv, PoolInv, TypeOK, Connections
<1> QED
  BY <1>1, TypeInvariant, PTL

-----------------------------------------------------------------------------
(* A creation leaves the tables and the other calls alone.                 *)
LEMMA CreationsLeaveAlone ==
    ASSUME NEW c \in Creations, TypeInv,
           \/ RefuseSelf(c) \/ CheckRecipient(c) \/ LookUp(c) \/ Connect(c)
           \/ InsertConversation(c) \/ InsertMembers(c) \/ Rollback(c) \/ Fail(c)
    PROVE  /\ UNCHANGED tables /\ UNCHANGED before
           /\ \A d \in Calls \ {c} : outcome'[d] = outcome[d] /\ stage'[d] = stage[d]
<1> USE CallsApart DEF TypeInv, Go, Answer
<1>1. CASE RefuseSelf(c)
  BY <1>1 DEF RefuseSelf
<1>2. CASE CheckRecipient(c)
  BY <1>2 DEF CheckRecipient
<1>3. CASE LookUp(c)
  BY <1>3 DEF LookUp
<1>4. CASE Connect(c)
  BY <1>4 DEF Connect
<1>5. CASE InsertConversation(c)
  BY <1>5 DEF InsertConversation
<1>6. CASE InsertMembers(c)
  BY <1>6 DEF InsertMembers
<1>7. CASE Rollback(c)
  BY <1>7 DEF Rollback
<1>8. CASE Fail(c)
  BY <1>8 DEF Fail
<1> QED
  BY <1>1, <1>2, <1>3, <1>4, <1>5, <1>6, <1>7, <1>8

(* A call of acknowledgeRead leaves the other calls, the conversations and *)
(* their members alone.                                                    *)
LEMMA AcksLeaveAlone ==
    ASSUME NEW a \in Acks, TypeInv,
           BeginAck(a) \/ CheckMember(a) \/ Upsert(a) \/ FailAck(a)
    PROVE  /\ UNCHANGED <<conversations, members>>
           /\ \A d \in Calls \ {a} : outcome'[d] = outcome[d] /\ stage'[d] = stage[d]
<1> USE DEF TypeInv, Go, Answer, tables
<1>1. CASE BeginAck(a)
  BY <1>1 DEF BeginAck
<1>2. CASE CheckMember(a)
  BY <1>2 DEF CheckMember
<1>3. CASE Upsert(a)
  BY <1>3 DEF Upsert
<1>4. CASE FailAck(a)
  BY <1>4 DEF FailAck
<1> QED
  BY <1>1, <1>2, <1>3, <1>4

-----------------------------------------------------------------------------
(* The row of message_read_states that a call is about.                    *)
Row(a) == <<a.conversation, a.user>>

(* A call writes its member's row before it is answered, so that no call   *)
(* that was answered before another began writes after it.                 *)
ReadInv ==
    /\ \A a \in Acks : stage[a] = "upsert" => Row(a) \in members
    /\ \A a \in Acks : outcome[a] = "ok" =>
           /\ stage[a] = "answered" /\ Row(a) \in members
           /\ readStates[Row(a)] # Unread /\ readStates[Row(a)] \notin before[a]
    /\ \A a \in Acks : \A b \in before[a] : outcome[b] = "ok"

(* It holds in every reachable state.                                      *)
LEMMA ReadInvariant == Spec => []ReadInv
<1>1. Init => ReadInv
  BY DEF Init, ReadInv, Calls
<1>2. TypeInv /\ ReadInv /\ [Next]_vars => ReadInv'
  <2> SUFFICES ASSUME TypeInv, ReadInv, [Next]_vars
               PROVE  ReadInv'
    OBVIOUS
  <2>1. ASSUME NEW c \in Creations,
               \/ RefuseSelf(c) \/ CheckRecipient(c) \/ LookUp(c) \/ Connect(c)
               \/ InsertConversation(c) \/ InsertMembers(c) \/ Rollback(c) \/ Fail(c)
        PROVE  ReadInv'
    <3>1. \A a \in Acks : outcome'[a] = outcome[a] /\ stage'[a] = stage[a]
      BY <2>1, CreationsLeaveAlone, CallsApart DEF Calls
    <3>2. UNCHANGED tables /\ UNCHANGED before
      BY <2>1, CreationsLeaveAlone
    <3> QED
      BY <3>1, <3>2 DEF ReadInv, Row, tables, TypeInv
  <2>2. ASSUME NEW a \in Acks, BeginAck(a)
        PROVE  ReadInv'
    <3>1. outcome[a] # "ok" /\ stage'[a] = "member"
      BY <2>2 DEF BeginAck, ReadInv, Go, TypeInv, Calls
    <3>2. before'[a] = {b \in Acks : outcome[b] = "ok"}
      BY <2>2 DEF BeginAck, TypeInv
    <3>3. /\ \A b \in Acks \ {a} : before'[b] = before[b] /\ stage'[b] = stage[b]
          /\ UNCHANGED tables /\ UNCHANGED outcome
      BY <2>2 DEF BeginAck, TypeInv, Go, Calls
    <3> QED
      BY <3>1, <3>2, <3>3 DEF ReadInv, Row, tables, TypeInv
  <2>3. ASSUME NEW a \in Acks, CheckMember(a)
        PROVE  ReadInv'
    BY <2>3 DEF CheckMember, ReadInv, Row, Go, Answer, TypeInv, Calls, tables
  <2>4. ASSUME NEW a \in Acks, Upsert(a)
        PROVE  ReadInv'
    <3>1. /\ stage[a] = "upsert" /\ stage'[a] = "answered"
          /\ outcome[a] # "ok" /\ Row(a) \in members
      BY <2>4 DEF Upsert, Answer, ReadInv, TypeInv, Calls
    <3>2. /\ \A b \in Acks \ {a} : outcome'[b] = outcome[b] /\ stage'[b] = stage[b]
          /\ UNCHANGED <<members, before>>
      BY <2>4, AcksLeaveAlone DEF Upsert, Calls
    <3>3. \A b \in Acks : a \notin before[b]
      BY <3>1 DEF ReadInv
    <3>4. a # Unread
      BY CallsAssumption
    <3>5. CASE readStates' = readStates /\ outcome'[a] # "ok"
      BY <3>1, <3>2, <3>3, <3>5 DEF ReadInv, Row, TypeInv
    <3>6. CASE readStates' = [readStates EXCEPT ![Row(a)] = a]
      <4>1. \A b \in Acks : Row(b) \in members =>
                readStates'[Row(b)] = IF Row(b) = Row(a) THEN a ELSE readStates[Row(b)]
        BY <3>6 DEF TypeInv
      <4> HIDE DEF Row
      <4> QED
        BY <3>1, <3>2, <3>3, <3>4, <4>1 DEF ReadInv, TypeInv
    <3> QED
      BY <2>4, <3>5, <3>6 DEF Upsert, Row, Answer, TypeInv, Calls
  <2>5. ASSUME NEW a \in Acks, FailAck(a)
        PROVE  ReadInv'
    BY <2>5 DEF FailAck, ReadInv, Row, Answer, TypeInv, Calls, tables
  <2>6. CASE UNCHANGED vars
    BY <2>6 DEF vars, tables, ReadInv, Row
  <2> QED
    BY <2>1, <2>2, <2>3, <2>4, <2>5, <2>6 DEF Next, Advance
<1> QED
  BY <1>1, <1>2, TypeInvariant, PTL DEF Spec

(* The read state of a member is never that of a call that was answered    *)
(* before one that has been answered since began.                          *)
THEOREM LatestReadPrevails == Spec => []LatestReadStands
<1>1. ReadInv => LatestReadStands
  BY DEF ReadInv, LatestReadStands, Row
<1> QED
  BY <1>1, ReadInvariant, PTL

-----------------------------------------------------------------------------
(* The two kinds of call wait for different things.                        *)
StagesApart ==
    /\ \A c \in Creations : stage[c] \notin {"member", "upsert"}
    /\ \A a \in Acks : stage[a] \in {"new", "member", "upsert", "answered"}

(* It holds in every reachable state.                                      *)
LEMMA StagesStayApart == Spec => []StagesApart
<1>1. Init => StagesApart
  BY CallsApart DEF Init, StagesApart, Calls
<1>2. TypeInv /\ StagesApart /\ [Next]_vars => StagesApart'
  <2> SUFFICES ASSUME TypeInv, StagesApart, [Next]_vars
               PROVE  StagesApart'
    OBVIOUS
  <2>1. ASSUME NEW c \in Creations,
               \/ RefuseSelf(c) \/ CheckRecipient(c) \/ LookUp(c) \/ Connect(c)
               \/ InsertConversation(c) \/ InsertMembers(c) \/ Rollback(c) \/ Fail(c)
        PROVE  StagesApart'
    <3>1. \E s \in Stages \ {"member", "upsert"} : stage' = [stage EXCEPT ![c] = s]
      BY <2>1 DEF RefuseSelf, CheckRecipient, LookUp, Connect, InsertConversation,
                  InsertMembers, Rollback, Fail, Go, Answer, Stages
    <3> QED
      BY <3>1, CallsApart DEF StagesApart, TypeInv, Calls
  <2>2. ASSUME NEW a \in Acks,
               BeginAck(a) \/ CheckMember(a) \/ Upsert(a) \/ FailAck(a)
        PROVE  StagesApart'
    <3>1. \E s \in {"member", "upsert", "answered"} : stage' = [stage EXCEPT ![a] = s]
      BY <2>2 DEF BeginAck, CheckMember, Upsert, FailAck, Go, Answer
    <3> QED
      BY <3>1, CallsApart DEF StagesApart, TypeInv, Calls
  <2>3. CASE UNCHANGED vars
    BY <2>3 DEF vars, StagesApart
  <2> QED
    BY <2>1, <2>2, <2>3 DEF Next, Advance
<1> QED
  BY <1>1, <1>2, TypeInvariant, PTL DEF Spec

(* The guard of the steps of c that Advance is made of.                    *)
CanAdvance(c) ==
    \/ stage[c] \in {"recipient", "lookup", "connect"} /\ free > 0
    \/ /\ stage[c] = "insert"
       /\ \A d \in Creations : Pair(d) = Pair(c) => stage[d] \notin Holding
    \/ stage[c] \in Holding \cup {"member", "upsert"}

(* As long as a call is under way there is a step of some call to take.    *)
SomebodyGoesOn ==
    (\E c \in Calls : stage[c] \notin {"new", "answered"}) => \E c \in Calls : CanAdvance(c)

(* Whatever waits for a connection or for another transaction with the     *)
(* same pair, somebody can go on: with one connection, too, and without a  *)
(* timeout, since nobody who holds a connection waits for another one.     *)
THEOREM NoStandstill == Spec => []SomebodyGoesOn
<1>1. TypeInv /\ PoolInv /\ StagesApart => SomebodyGoesOn
  <2> SUFFICES ASSUME TypeInv, PoolInv, StagesApart,
                      NEW c \in Calls, stage[c] \notin {"new", "answered"},
                      \A d \in Calls : ~ CanAdvance(d)
               PROVE  FALSE
    BY DEF SomebodyGoesOn
  <2>1. \A d \in Creations : d \in Calls /\ stage[d] \notin Holding /\ stage[d] # "insert"
    BY CallsApart DEF CanAdvance
  <2>2. Connections = {}
    BY <2>1 DEF Connections, Connected
  <2>3. free > 0
    BY <2>2, FS_EmptySet, PoolAssumption DEF PoolInv
  <2>4. stage[c] \in {"recipient", "lookup", "connect"} \/ CanAdvance(c)
    BY <2>1 DEF StagesApart, TypeInv, Stages, Calls, CanAdvance, Holding
  <2> QED
    BY <2>3, <2>4 DEF CanAdvance
<1> QED
  BY <1>1, TypeInvariant, StagesStayApart, PTL

(* Each step of a call takes it nearer to its answer: with NoStandstill,   *)
(* this is what EveryCallAnswered rests on.                                *)
Rank(s) ==
    CASE s = "new" -> 0      [] s = "recipient" -> 1  [] s = "lookup" -> 2
      [] s = "connect" -> 3  [] s = "insert" -> 4     [] s = "members" -> 5
      [] s = "rollback" -> 6 [] s = "member" -> 1     [] s = "upsert" -> 2
      [] s = "answered" -> 7

CallsGoForward ==
    [][\A c \in Calls : stage'[c] # stage[c] => Rank(stage[c]) < Rank(stage'[c])]_vars

(* No query of a creation or of acknowledgeRead is ever made again.        *)
THEOREM NoCallGoesBack == Spec => CallsGoForward
<1>1. TypeInv /\ [Next]_vars =>
          \A c \in Calls : stage'[c] # stage[c] => Rank(stage[c]) < Rank(stage'[c])
  <2> SUFFICES ASSUME TypeInv, [Next]_vars, NEW d \in Calls, stage'[d] # stage[d]
               PROVE  Rank(stage[d]) < Rank(stage'[d])
    OBVIOUS
  <2>1. ASSUME NEW c \in Calls, NEW s \in Stages, stage' = [stage EXCEPT ![c] = s]
        PROVE  stage'[d] = s /\ d = c
    BY <2>1 DEF TypeInv
  <2>2. ASSUME NEW c \in Creations, RefuseSelf(c) \/ CheckRecipient(c) \/ LookUp(c)
        PROVE  Rank(stage[d]) < Rank(stage'[d])
    BY <2>2, <2>1, CallsApart DEF RefuseSelf, CheckRecipient, LookUp, Go, Answer, Rank, Stages
  <2>3. ASSUME NEW c \in Creations, Connect(c) \/ InsertConversation(c)
        PROVE  Rank(stage[d]) < Rank(stage'[d])
    BY <2>3, <2>1, CallsApart DEF Connect, InsertConversation, Go, Rank, Stages
  <2>4. ASSUME NEW c \in Creations, InsertMembers(c) \/ Rollback(c) \/ Fail(c)
        PROVE  Rank(stage[d]) < Rank(stage'[d])
    BY <2>4, <2>1, CallsApart DEF InsertMembers, Rollback, Fail, Go, Answer, Rank, Stages
  <2>5. ASSUME NEW a \in Acks, BeginAck(a) \/ CheckMember(a) \/ Upsert(a) \/ FailAck(a)
        PROVE  Rank(stage[d]) < Rank(stage'[d])
    <3>1. a \in Calls
      BY DEF Calls
    <3> QED
      BY <2>5, <2>1, <3>1 DEF BeginAck, CheckMember, Upsert, FailAck, Go, Answer, Rank, Stages
  <2>6. CASE UNCHANGED vars
    BY <2>6 DEF vars
  <2> QED
    BY <2>2, <2>3, <2>4, <2>5, <2>6 DEF Next, Advance
<1> QED
  BY <1>1, TypeInvariant, PTL DEF Spec, CallsGoForward

=============================================================================
