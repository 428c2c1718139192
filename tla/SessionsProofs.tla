--------------------------- MODULE SessionsProofs ---------------------------
(***************************************************************************)
(* What Sessions guarantees for any calls, however many and of whatever    *)
(* kind.                                                                   *)
(***************************************************************************)
EXTENDS Sessions, TLAPS

(* The steps of Next, one by one.                                          *)
LEMMA Steps ==
    ASSUME [Next]_vars
    PROVE  \/ \E c \in Calls :
                 \/ Begin(c) \/ Admit(c) \/ Reject(c) \/ Lock(c) \/ NotFound(c)
                 \/ Commit(c) \/ Write(c) \/ Done(c) \/ Rotate(c) \/ Deadlock(c) \/ Fail(c)
           \/ Expire
           \/ UNCHANGED vars
BY DEF Next, Advance

(* A row, or nothing, follows a row.                                       *)
LEMMA AfterTyped ==
    ASSUME NEW c, NEW r \in Rows
    PROVE  After(c, r) \in Rows \cup {"end"}
BY DEF After, Rows

(* The end of a call.                                                      *)
LEMMA ReturnTyped ==
    ASSUME TypeOK, NEW c \in Calls, NEW a \in Answers, Return(c, a)
    PROVE  /\ holder' \in [Rows -> SUBSET Calls]
           /\ stage' \in [Calls -> Stages]
           /\ answer' \in [Calls -> Answers]
BY DEF Return, Go, TypeOK, Stages

(* Every variable keeps its type; in particular a transaction that is over *)
(* holds rows of no other, and every stage is one the code has.            *)
THEOREM TypeCorrect == Spec => []TypeOK
<1>1. Init => TypeOK
  BY DEF Init, TypeOK, Stages, Answers
<1>2. TypeOK /\ [Next]_vars => TypeOK'
  <2> SUFFICES ASSUME TypeOK, [Next]_vars
               PROVE  TypeOK'
    OBVIOUS
  <2>1. ASSUME NEW c \in Calls, Begin(c)
        PROVE  TypeOK'
    <3>1. FirstRow(c) \in Stages
      BY DEF FirstRow, Stages, Rows
    <3>2. late' \in [Calls -> BOOLEAN]
      BY <2>1 DEF Begin, TypeOK, Ended
    <3>3. CASE Guarded(c) /\ age > 0
      BY <2>1, <3>2, <3>3, ReturnTyped DEF Begin, TypeOK, Answers
    <3>4. CASE ~ (Guarded(c) /\ age > 0)
      <4>1. stage' \in [Calls -> Stages]
        BY <2>1, <3>1, <3>4 DEF Begin, Go, TypeOK, Stages
      <4> QED
        BY <2>1, <3>2, <3>4, <4>1 DEF Begin, TypeOK
    <3> QED
      BY <3>3, <3>4
  <2>2. ASSUME NEW c \in Calls, Admit(c)
        PROVE  TypeOK'
    <3>1. FirstRow(c) \in Stages
      BY DEF FirstRow, Stages, Rows
    <3> QED
      BY <2>2, <3>1 DEF Admit, Go, TypeOK
  <2>3. ASSUME NEW c \in Calls, Reject(c) \/ NotFound(c) \/ Done(c) \/ Fail(c) \/ Deadlock(c)
        PROVE  TypeOK'
    BY <2>3, ReturnTyped DEF Reject, NotFound, Done, Fail, Deadlock, TypeOK, Answers
  <2>4. ASSUME NEW c \in Calls, Rotate(c)
        PROVE  TypeOK'
    BY <2>4, ReturnTyped DEF Rotate, TypeOK, Answers
  <2>5. ASSUME NEW c \in Calls, Commit(c)
        PROVE  TypeOK'
    <3>1. dead' \subseteq Rows
      BY <2>5 DEF Commit, TypeOK
    <3> QED
      BY <2>5, <3>1, ReturnTyped DEF Commit, TypeOK, Answers
  <2>6. ASSUME NEW c \in Calls, Lock(c)
        PROVE  TypeOK'
    <3>1. stage' \in [Calls -> Stages]
      BY <2>6, AfterTyped DEF Lock, Go, TypeOK, Stages
    <3>2. holder' \in [Rows -> SUBSET Calls]
      BY <2>6 DEF Lock, TypeOK
    <3> QED
      BY <2>6, <3>1, <3>2 DEF Lock, TypeOK
  <2>7. ASSUME NEW c \in Calls, Write(c)
        PROVE  TypeOK'
    <3>1. stage' \in [Calls -> Stages]
      BY <2>7, AfterTyped DEF Write, Go, TypeOK, Stages
    <3> QED
      BY <2>7, <3>1 DEF Write, TypeOK
  <2>8. CASE Expire
    BY <2>8 DEF Expire, calls, TypeOK
  <2>9. CASE UNCHANGED vars
    BY <2>9 DEF vars, calls, TypeOK
  <2> QED
    BY <2>1, <2>2, <2>3, <2>4, <2>5, <2>6, <2>7, <2>8, <2>9, Steps
<1> QED
  BY <1>1, <1>2, PTL DEF Spec

-----------------------------------------------------------------------------
(* Once the session is revoked and nobody is past the guard, nothing of    *)
(* the account changes any more.                                           *)
THEOREM HalfDoneIsFinal == Spec => HalfDoneStays
<1>1. TypeOK /\ [Next]_vars => [Stuck => Stuck' /\ dead' = dead]_vars
  <2> SUFFICES ASSUME TypeOK, [Next]_vars, Stuck
               PROVE  Stuck' /\ dead' = dead
    OBVIOUS
  <2> USE DEF Stuck
  <2>1. ASSUME NEW c \in Calls, Begin(c)
        PROVE  Stuck' /\ dead' = dead
    <3>1. stage' = [stage EXCEPT ![c] = stage'[c]]
      BY <2>1 DEF Begin, Return, Go, TypeOK
    <3>2. Guarded(c) => stage'[c] \in {"guard", "answered"}
      BY <2>1 DEF Begin, Return, Go, TypeOK
    <3> QED
      BY <2>1, <3>1, <3>2 DEF Begin, Admitted, Rows, TypeOK
  <2>2. ASSUME NEW c \in Calls, Lock(c)
        PROVE  Stuck' /\ dead' = dead
    <3>1. ~ Guarded(c)
      BY <2>2 DEF Lock, Admitted
    <3> QED
      BY <2>2, <3>1 DEF Lock, Go, Admitted, Guarded, TypeOK
  <2>3. ASSUME NEW c \in Calls,
               Reject(c) \/ NotFound(c) \/ Fail(c) \/ Deadlock(c) \/ Rotate(c) \/ Done(c)
        PROVE  Stuck' /\ dead' = dead
    <3>1. dead' = dead /\ stage' = [stage EXCEPT ![c] = "answered"]
      BY <2>3 DEF Reject, NotFound, Fail, Deadlock, Rotate, Done, Return, Go
    <3> QED
      BY <3>1 DEF Admitted, Guarded, Rows, TypeOK
  <2>4. ASSUME NEW c \in Calls, Admit(c)
        PROVE  FALSE
    BY <2>4 DEF Admit
  <2>5. ASSUME NEW c \in Calls, Commit(c) \/ Write(c)
        PROVE  FALSE
    BY <2>5 DEF Commit, Write, Admitted, Guarded, Transactional
  <2>6. CASE Expire
    BY <2>6 DEF Expire, calls, Admitted, Guarded
  <2>7. CASE UNCHANGED vars
    BY <2>7 DEF vars, calls, Admitted, Guarded
  <2> QED
    BY <2>1, <2>2, <2>3, <2>4, <2>5, <2>6, <2>7, Steps
<1> QED
  BY <1>1, TypeCorrect, PTL DEF Spec, HalfDoneStays

-----------------------------------------------------------------------------
(* How far a call has come says what it holds or has written.              *)
RevocationHolds ==
    \A c \in Calls : Kind[c] = "revoke" =>
        /\ stage[c] \in {"session", "family", "token", "end"} => c \in holder["device"]
        /\ stage[c] \in {"family", "token", "end"} => c \in holder["session"]
        /\ stage[c] \in {"token", "end"} => c \in holder["family"]
        /\ stage[c] = "end" => c \in holder["token"]

LogoutWrote ==
    \A c \in Calls : Kind[c] \in {"logout", "logout all"} =>
        /\ stage[c] # "device"
        /\ stage[c] \in {"family", "token", "end"} => "session" \in dead
        /\ Kind[c] = "logout all" =>
              /\ stage[c] \in {"token", "end"} => "family" \in dead
              /\ stage[c] = "end" => "token" \in dead

(* Only calls that are over have an answer, and no refresh is answered ok. *)
AnswersLast ==
    \A c \in Calls :
        /\ answer[c] # "none" => stage[c] = "answered"
        /\ answer[c] = "ok" => Guarded(c)

Progress == RevocationHolds /\ LogoutWrote /\ AnswersLast /\ AnswersStand

(* What a call has written stays, and what it holds nobody takes from it.  *)
(* A step moves one call; this is what it leaves of the others.            *)
LEMMA OthersKeep ==
    ASSUME TypeOK, Progress, NEW c \in Calls,
           \A d \in Calls \ {c} : stage'[d] = stage[d] /\ answer'[d] = answer[d],
           \A d \in Calls \ {c} : \A r \in Rows : d \in holder[r] => d \in holder'[r],
           dead \subseteq dead'
    PROVE  \A d \in Calls \ {c} :
              /\ Kind[d] = "revoke" =>
                    /\ stage'[d] \in {"session", "family", "token", "end"} => d \in holder'["device"]
                    /\ stage'[d] \in {"family", "token", "end"} => d \in holder'["session"]
                    /\ stage'[d] \in {"token", "end"} => d \in holder'["family"]
                    /\ stage'[d] = "end" => d \in holder'["token"]
              /\ Kind[d] \in {"logout", "logout all"} =>
                    /\ stage'[d] # "device"
                    /\ stage'[d] \in {"family", "token", "end"} => "session" \in dead'
                    /\ Kind[d] = "logout all" =>
                          /\ stage'[d] \in {"token", "end"} => "family" \in dead'
                          /\ stage'[d] = "end" => "token" \in dead'
              /\ answer'[d] # "none" => stage'[d] = "answered"
              /\ answer'[d] = "ok" => Guarded(d)
BY DEF Progress, RevocationHolds, LogoutWrote, AnswersLast, Rows

(* A call that is answered, with nothing written in the step.              *)
LEMMA ReturnProgresses ==
    ASSUME TypeOK, Progress, NEW c \in Calls, NEW a, Return(c, a), a # "ok", dead' = dead
    PROVE  Progress'
<1>1. /\ stage' = [stage EXCEPT ![c] = "answered"]
      /\ answer' = [answer EXCEPT ![c] = a]
      /\ holder' = [r \in Rows |-> holder[r] \ {c}]
  BY DEF Return, Go
<1>2. \A d \in Calls \ {c} :
          /\ stage'[d] = stage[d] /\ answer'[d] = answer[d]
          /\ \A r \in Rows : d \in holder[r] => d \in holder'[r]
  BY <1>1 DEF TypeOK
<1>3. stage'[c] = "answered" /\ answer'[c] = a
  BY <1>1 DEF TypeOK
<1>4. RevocationHolds' /\ LogoutWrote' /\ AnswersLast'
  BY <1>2, <1>3, OthersKeep DEF RevocationHolds, LogoutWrote, AnswersLast, Guarded
<1>5. AnswersStand'
  BY <1>2, <1>3 DEF Progress, AnswersStand
<1> QED
  BY <1>4, <1>5 DEF Progress

(* The inductive invariant.                                                *)
LEMMA ProgressKept == Spec => []Progress
<1>1. Init => Progress
  BY DEF Init, Progress, RevocationHolds, LogoutWrote, AnswersLast, AnswersStand, Rows
<1>2. TypeOK /\ Progress /\ [Next]_vars => Progress'
  <2> SUFFICES ASSUME TypeOK, Progress, [Next]_vars
               PROVE  Progress'
    OBVIOUS
  <2>1. ASSUME NEW c \in Calls, Begin(c) \/ Admit(c)
        PROVE  Progress'
    <3>1. CASE Return(c, "unauthorized")
      BY <2>1, <3>1, ReturnProgresses DEF Begin, Admit
    <3>2. CASE ~ Return(c, "unauthorized")
      <4>1. /\ holder' = holder /\ answer' = answer /\ dead' = dead
            /\ stage[c] \in {"idle", "guard"}
            /\ \/ stage' = [stage EXCEPT ![c] = "guard"]
               \/ stage' = [stage EXCEPT ![c] = FirstRow(c)]
        BY <2>1, <3>2 DEF Begin, Admit, Go
      <4>2. /\ Kind[c] = "revoke" => stage'[c] \in {"guard", "device"}
            /\ Kind[c] \in {"logout", "logout all"} => stage'[c] \in {"guard", "session"}
            /\ answer[c] = "none"
        BY <4>1, CallsAssumption DEF FirstRow, TypeOK, Progress, AnswersLast
      <4>3. \A d \in Calls \ {c} : stage'[d] = stage[d]
        BY <4>1 DEF TypeOK
      <4>4. RevocationHolds' /\ LogoutWrote' /\ AnswersLast'
        BY <4>1, <4>2, <4>3, OthersKeep DEF RevocationHolds, LogoutWrote, AnswersLast, Guarded
      <4> QED
        BY <4>1, <4>4 DEF Progress, AnswersStand
    <3> QED
      BY <3>1, <3>2
  <2>2. ASSUME NEW c \in Calls, Reject(c) \/ NotFound(c) \/ Fail(c) \/ Deadlock(c) \/ Rotate(c)
        PROVE  Progress'
    BY <2>2, ReturnProgresses DEF Reject, NotFound, Fail, Deadlock, Rotate
  <2>3. ASSUME NEW c \in Calls, Lock(c)
        PROVE  Progress'
    <3>1. /\ stage' = [stage EXCEPT ![c] = After(c, stage[c])]
          /\ holder' = [holder EXCEPT ![stage[c]] = {c}]
          /\ holder[stage[c]] = {} /\ stage[c] \in Rows
          /\ answer' = answer /\ dead' = dead
          /\ Kind[c] \in {"refresh", "revoke"}
      BY <2>3 DEF Lock, Go, Free, Transactional
    <3>2. \A d \in Calls \ {c} :
              /\ stage'[d] = stage[d] /\ answer'[d] = answer[d]
              /\ \A r \in Rows : d \in holder[r] => d \in holder'[r]
      BY <3>1 DEF TypeOK
    <3>3. stage'[c] = After(c, stage[c]) /\ answer[c] = "none"
      BY <3>1 DEF TypeOK, Progress, AnswersLast, Rows
    <3>4. c \in holder'[stage[c]] /\ \A r \in Rows : c \in holder[r] => c \in holder'[r]
      BY <3>1 DEF TypeOK
    <3>5. Kind[c] = "revoke" =>
              /\ stage'[c] \in {"session", "family", "token", "end"} => c \in holder'["device"]
              /\ stage'[c] \in {"family", "token", "end"} => c \in holder'["session"]
              /\ stage'[c] \in {"token", "end"} => c \in holder'["family"]
              /\ stage'[c] = "end" => c \in holder'["token"]
      BY <3>1, <3>3, <3>4 DEF After, Rows, Progress, RevocationHolds
    <3>6. RevocationHolds' /\ LogoutWrote' /\ AnswersLast'
      BY <3>1, <3>2, <3>3, <3>5, OthersKeep DEF RevocationHolds, LogoutWrote, AnswersLast, Guarded
    <3> QED
      BY <3>1, <3>6 DEF Progress, AnswersStand
  <2>4. ASSUME NEW c \in Calls, Write(c)
        PROVE  Progress'
    <3>1. /\ stage' = [stage EXCEPT ![c] = After(c, stage[c])]
          /\ dead' = dead \cup {stage[c]} /\ stage[c] \in Rows
          /\ answer' = answer /\ holder' = holder
          /\ Kind[c] \in {"logout", "logout all"}
      BY <2>4, CallsAssumption DEF Write, Go, Transactional, Kinds
    <3>2. \A d \in Calls \ {c} : stage'[d] = stage[d]
      BY <3>1 DEF TypeOK
    <3>3. stage'[c] = After(c, stage[c]) /\ answer[c] = "none" /\ stage[c] # "device"
      BY <3>1 DEF TypeOK, Progress, AnswersLast, LogoutWrote, Rows
    <3>4. /\ stage'[c] # "device"
          /\ stage'[c] \in {"family", "token", "end"} => "session" \in dead'
          /\ Kind[c] = "logout all" =>
                /\ stage'[c] \in {"token", "end"} => "family" \in dead'
                /\ stage'[c] = "end" => "token" \in dead'
      <4>1. CASE stage[c] = "session"
        <5>1. stage'[c] = IF Kind[c] = "logout" THEN "end" ELSE "family"
          BY <3>3, <4>1 DEF After
        <5>2. "session" \in dead'
          BY <3>1, <4>1
        <5> QED
          BY <5>1, <5>2
      <4>2. CASE stage[c] = "family"
        <5>1. stage'[c] = "token"
          BY <3>1, <3>3, <4>2 DEF After
        <5>2. "session" \in dead' /\ "family" \in dead'
          BY <3>1, <4>2 DEF Progress, LogoutWrote
        <5> QED
          BY <5>1, <5>2
      <4>3. CASE stage[c] = "token"
        <5>1. stage'[c] = "end"
          BY <3>1, <3>3, <4>3 DEF After
        <5>2. /\ "session" \in dead'
              /\ Kind[c] = "logout all" => "family" \in dead' /\ "token" \in dead'
          BY <3>1, <4>3 DEF Progress, LogoutWrote
        <5> QED
          BY <5>1, <5>2
      <4> QED
        BY <3>1, <3>3, <4>1, <4>2, <4>3 DEF Rows
    <3>5. RevocationHolds' /\ LogoutWrote' /\ AnswersLast'
      BY <3>1, <3>2, <3>3, <3>4, OthersKeep DEF RevocationHolds, LogoutWrote, AnswersLast, Guarded
    <3>6. "device" \in dead' => dead' = Rows
      BY <3>1, <3>3 DEF Progress, AnswersStand, Rows
    <3>7. dead = Rows => dead' = Rows
      BY <3>1
    <3> QED
      BY <3>1, <3>5, <3>6, <3>7 DEF Progress, AnswersStand
  <2>5. ASSUME NEW c \in Calls, Commit(c)
        PROVE  Progress'
    <3>1. dead' = Rows /\ Kind[c] = "revoke"
      BY <2>5 DEF Commit, Progress, RevocationHolds, Rows, TypeOK
    <3>2. PICK a \in {"ok", "error"} : Return(c, a)
      BY <2>5 DEF Commit
    <3>3. /\ stage' = [stage EXCEPT ![c] = "answered"]
          /\ answer' = [answer EXCEPT ![c] = a]
          /\ holder' = [r \in Rows |-> holder[r] \ {c}]
      BY <3>2 DEF Return, Go
    <3>4. \A d \in Calls \ {c} :
              /\ stage'[d] = stage[d] /\ answer'[d] = answer[d]
              /\ \A r \in Rows : d \in holder[r] => d \in holder'[r]
      BY <3>3 DEF TypeOK
    <3>5. stage'[c] = "answered" /\ dead \subseteq dead'
      BY <3>1, <3>3 DEF TypeOK
    <3>6. RevocationHolds' /\ LogoutWrote' /\ AnswersLast'
      BY <3>1, <3>4, <3>5, OthersKeep DEF RevocationHolds, LogoutWrote, AnswersLast, Guarded
    <3>7. AnswersStand'
      BY <3>1 DEF AnswersStand, Rows
    <3> QED
      BY <3>6, <3>7 DEF Progress
  <2>6. ASSUME NEW c \in Calls, Done(c)
        PROVE  Progress'
    <3>1. /\ Kind[c] \in {"logout", "logout all"} /\ stage[c] = "end"
          /\ dead' = dead
          /\ stage' = [stage EXCEPT ![c] = "answered"]
          /\ answer' = [answer EXCEPT ![c] = "ok"]
          /\ holder' = [r \in Rows |-> holder[r] \ {c}]
      BY <2>6, CallsAssumption DEF Done, Return, Go, Transactional, Kinds
    <3>2. \A d \in Calls \ {c} :
              /\ stage'[d] = stage[d] /\ answer'[d] = answer[d]
              /\ \A r \in Rows : d \in holder[r] => d \in holder'[r]
      BY <3>1 DEF TypeOK
    <3>3. stage'[c] = "answered"
      BY <3>1 DEF TypeOK
    <3>4. RevocationHolds' /\ LogoutWrote' /\ AnswersLast'
      BY <3>1, <3>2, <3>3, OthersKeep DEF RevocationHolds, LogoutWrote, AnswersLast, Guarded
    <3>5. "session" \in dead /\ (Kind[c] = "logout all" => {"family", "token"} \subseteq dead)
      BY <3>1 DEF Progress, LogoutWrote
    <3>6. AnswersStand'
      BY <3>1, <3>2, <3>5 DEF Progress, AnswersStand
    <3> QED
      BY <3>4, <3>6 DEF Progress
  <2>7. CASE Expire \/ UNCHANGED vars
    BY <2>7 DEF Expire, vars, calls, Progress, RevocationHolds, LogoutWrote, AnswersLast,
                AnswersStand, Guarded
  <2> QED
    BY <2>1, <2>2, <2>3, <2>4, <2>5, <2>6, <2>7, Steps
<1> QED
  BY <1>1, <1>2, TypeCorrect, PTL DEF Spec

(* An ok answer says what was done, and a device is revoked with its       *)
(* session and its tokens or not at all.                                   *)
THEOREM AnswersAreTrue == Spec => []AnswersStand
<1>1. Progress => AnswersStand
  BY DEF Progress
<1> QED
  BY <1>1, ProgressKept, PTL

-----------------------------------------------------------------------------
(* A call that began after the end of the session was answered never       *)
(* passes the guard: a session that was ever revoked stays revoked.        *)
THEOREM NothingComesAfter == Spec => []NothingAfterTheEnd
<1> DEFINE IInv == NothingAfterTheEnd /\ \A c \in Calls : late[c] => Ended
<1>1. Init => IInv
  BY DEF Init, NothingAfterTheEnd, Ended
<1>2. TypeOK /\ Progress /\ IInv /\ [Next]_vars => IInv'
  <2> SUFFICES ASSUME TypeOK, Progress, IInv, [Next]_vars
               PROVE  IInv'
    OBVIOUS
  <2>0. Ended => "session" \in dead
    BY DEF Ended, Progress, AnswersStand
  <2>1. ASSUME NEW c \in Calls, NEW a \in Answers, Return(c, a), late' = late,
               a = "ok" => Admitted(c), stage[c] # "answered"
        PROVE  IInv'
    <3>1. /\ stage' = [stage EXCEPT ![c] = "answered"]
          /\ answer' = [answer EXCEPT ![c] = a]
      BY <2>1 DEF Return, Go
    <3>2. answer[c] # "ok"
      BY <2>1 DEF Progress, AnswersLast
    <3>3. Ended => Ended'
      BY <3>1, <3>2 DEF Ended, Guarded, TypeOK
    <3> QED
      BY <2>1, <3>1, <3>3 DEF NothingAfterTheEnd, Admitted, Guarded, Rows, TypeOK
  <2>2. ASSUME NEW c \in Calls, Begin(c)
        PROVE  IInv'
    <3>1. /\ late' = [late EXCEPT ![c] = Ended]
          /\ stage'[c] \in {"guard", "answered"} \/ ~ Guarded(c)
          /\ answer'[c] # "ok"
          /\ stage[c] = "idle"
      BY <2>2 DEF Begin, Return, Go, TypeOK, Progress, AnswersLast
    <3>2. \A d \in Calls \ {c} : stage'[d] = stage[d] /\ answer'[d] = answer[d]
      BY <2>2 DEF Begin, Return, Go, TypeOK
    <3>3. answer[c] # "ok"
      BY <3>1 DEF Progress, AnswersLast
    <3>4. Ended => Ended'
      BY <3>2, <3>3 DEF Ended, Guarded
    <3>5. \A d \in Calls : late'[d] => Ended'
      BY <3>1, <3>4 DEF TypeOK
    <3>6. NothingAfterTheEnd'
      BY <3>1, <3>2 DEF NothingAfterTheEnd, Admitted, Guarded, Rows, TypeOK
    <3> QED
      BY <3>5, <3>6
  <2>3. ASSUME NEW c \in Calls, Admit(c)
        PROVE  IInv'
    <3>1. ~ Ended
      BY <2>0, <2>3 DEF Admit
    <3>2. ~ late[c] /\ late' = late /\ answer' = answer
          /\ \A d \in Calls \ {c} : stage'[d] = stage[d]
      BY <2>3, <3>1 DEF Admit, Go, TypeOK
    <3> QED
      BY <3>1, <3>2 DEF NothingAfterTheEnd, Admitted, Guarded, Ended
  <2>4. ASSUME NEW c \in Calls,
               Reject(c) \/ NotFound(c) \/ Rotate(c) \/ Deadlock(c) \/ Fail(c) \/ Done(c) \/ Commit(c)
        PROVE  IInv'
    <3>1. stage[c] \notin {"idle", "answered"} /\ late' = late
      BY <2>4 DEF Reject, NotFound, Rotate, Deadlock, Deadlocked, Fail, Done, Commit, Rows
    <3>2. \/ \E a \in Answers \ {"ok"} : Return(c, a)
          \/ Return(c, "ok") /\ Admitted(c)
      BY <2>4 DEF Reject, NotFound, Rotate, Deadlock, Fail, Done, Commit, Answers, Admitted,
                  Guarded, Transactional
    <3> QED
      BY <2>1, <3>1, <3>2 DEF Answers
  <2>5. ASSUME NEW c \in Calls, Lock(c) \/ Write(c)
        PROVE  IInv'
    <3>1. /\ late' = late /\ answer' = answer
          /\ stage' = [stage EXCEPT ![c] = After(c, stage[c])]
          /\ stage[c] \in Rows
      BY <2>5 DEF Lock, Write, Go
    <3> QED
      BY <3>1 DEF NothingAfterTheEnd, Admitted, Guarded, Ended, TypeOK
  <2>6. CASE Expire \/ UNCHANGED vars
    BY <2>6 DEF Expire, vars, calls, NothingAfterTheEnd, Admitted, Guarded, Ended
  <2> QED
    BY <2>2, <2>3, <2>4, <2>5, <2>6, Steps
<1>3. IInv => NothingAfterTheEnd
  OBVIOUS
<1> QED
  BY <1>1, <1>2, <1>3, TypeCorrect, ProgressKept, PTL DEF Spec

-----------------------------------------------------------------------------
(* Which rows a call may hold, by how far it has come: a revocation those  *)
(* before the one it waits for, a rotation the token and then the family.  *)
Behind(c, r) ==
    CASE Kind[c] = "revoke" /\ r = "device" -> {"session", "family", "token", "end"}
      [] Kind[c] = "revoke" /\ r = "session" -> {"family", "token", "end"}
      [] Kind[c] = "revoke" /\ r = "family" -> {"token", "end"}
      [] Kind[c] = "revoke" /\ r = "token" -> {"end"}
      [] Kind[c] = "refresh" /\ r = "token" -> {"family", "end"}
      [] Kind[c] = "refresh" /\ r = "family" -> {"end"}
      [] OTHER -> {}

(* Whoever holds a row is behind it.                                       *)
LocksInOrder ==
    /\ \A r \in Rows : \A c \in holder[r] : stage[c] \in Behind(c, r)
    /\ \A c \in Calls : Kind[c] = "refresh" =>
           stage[c] \in {"idle", "token", "family", "end", "answered"}

(* A call gives up what it holds when it is answered.                      *)
LEMMA ReturnKeepsOrder ==
    ASSUME TypeOK, LocksInOrder, NEW c \in Calls, NEW a, Return(c, a)
    PROVE  LocksInOrder'
<1>1. stage'[c] = "answered" /\ \A d \in Calls \ {c} : stage'[d] = stage[d]
  BY DEF Return, Go, TypeOK
<1>2. \A r \in Rows : holder'[r] = holder[r] \ {c}
  BY DEF Return
<1>3. \A r \in Rows : holder[r] \subseteq Calls
  BY DEF TypeOK
<1>4. ASSUME NEW r \in Rows, NEW d \in holder'[r]
      PROVE  stage'[d] \in Behind(d, r)
  BY <1>1, <1>2, <1>3, <1>4 DEF LocksInOrder
<1>5. ASSUME NEW d \in Calls, Kind[d] = "refresh"
      PROVE  stage'[d] \in {"idle", "token", "family", "end", "answered"}
  BY <1>1, <1>5 DEF LocksInOrder
<1> QED
  BY <1>4, <1>5 DEF LocksInOrder

(* It holds in every reachable state.                                      *)
LEMMA LocksKeepOrder == Spec => []LocksInOrder
<1>1. Init => LocksInOrder
  BY DEF Init, LocksInOrder
<1>2. TypeOK /\ LocksInOrder /\ [Next]_vars => LocksInOrder'
  <2> SUFFICES ASSUME TypeOK, LocksInOrder, [Next]_vars
               PROVE  LocksInOrder'
    OBVIOUS
  <2>0. \A r \in Rows : holder[r] \subseteq Calls
    BY DEF TypeOK
  <2>a. ASSUME NEW c \in Calls, NEW s, stage' = [stage EXCEPT ![c] = s], holder' = holder,
               \A r \in Rows : c \in holder[r] => s \in Behind(c, r),
               Kind[c] = "refresh" => s \in {"token", "family", "end"}
        PROVE  LocksInOrder'
    <3>1. stage'[c] = s /\ \A d \in Calls \ {c} : stage'[d] = stage[d]
      BY <2>a DEF TypeOK
    <3> QED
      BY <2>0, <2>a, <3>1 DEF LocksInOrder
  <2>b. ASSUME NEW c \in Calls, stage[c] \in {"idle", "guard"}
        PROVE  \A r \in Rows : c \notin holder[r]
    <3>1. \A r \in Rows : stage[c] \notin Behind(c, r)
      BY <2>b DEF Behind
    <3> QED
      BY <3>1 DEF LocksInOrder
  <2>1. ASSUME NEW c \in Calls, Begin(c) \/ Admit(c)
        PROVE  LocksInOrder'
    <3>1. CASE Return(c, "unauthorized")
      BY <3>1, ReturnKeepsOrder
    <3>2. CASE ~ Return(c, "unauthorized")
      <4>1. /\ stage[c] \in {"idle", "guard"} /\ holder' = holder
            /\ \/ stage' = [stage EXCEPT ![c] = "guard"] /\ Kind[c] # "refresh"
               \/ stage' = [stage EXCEPT ![c] = FirstRow(c)]
        BY <2>1, <3>2 DEF Begin, Admit, Go, Guarded
      <4>2. Kind[c] = "refresh" => FirstRow(c) = "token"
        BY DEF FirstRow
      <4> QED
        BY <4>1, <4>2, <2>a, <2>b
    <3> QED
      BY <3>1, <3>2
  <2>2. ASSUME NEW c \in Calls,
               \/ Reject(c) \/ NotFound(c) \/ Commit(c) \/ Done(c) \/ Rotate(c)
               \/ Deadlock(c) \/ Fail(c)
        PROVE  LocksInOrder'
    <3>1. \E a : Return(c, a)
      BY <2>2 DEF Reject, NotFound, Commit, Done, Rotate, Deadlock, Fail
    <3> QED
      BY <3>1, ReturnKeepsOrder
  <2>3. ASSUME NEW c \in Calls, Lock(c)
        PROVE  LocksInOrder'
    <3> DEFINE r == stage[c]
               s == After(c, r)
    <3>1. r \in Rows /\ holder[r] = {} /\ Kind[c] \in {"refresh", "revoke"}
      BY <2>3 DEF Lock, Free, Transactional
    <3>2. /\ stage'[c] = s /\ \A d \in Calls \ {c} : stage'[d] = stage[d]
          /\ holder'[r] = {c} /\ \A t \in Rows \ {r} : holder'[t] = holder[t]
      BY <2>3, <3>1 DEF Lock, Go, TypeOK
    <3>3. CASE Kind[c] = "revoke"
      <4>1. s \in Behind(c, r)
        BY <3>1, <3>3 DEF After, Behind, Rows
      <4>2. \A t \in Rows : r \in Behind(c, t) => s \in Behind(c, t)
        BY <3>1, <3>3 DEF After, Behind, Rows
      <4> HIDE DEF r, s
      <4> QED
        BY <2>0, <3>2, <3>3, <4>1, <4>2 DEF LocksInOrder, r
    <3>4. CASE Kind[c] = "refresh"
      <4>0. r \in {"token", "family"}
        BY <3>1, <3>4 DEF LocksInOrder, Rows
      <4>1. s \in Behind(c, r) /\ s \in {"family", "end"}
        BY <4>0, <3>4 DEF After, Behind
      <4>2. \A t \in Rows : r \in Behind(c, t) => s \in Behind(c, t)
        BY <4>0, <3>4 DEF After, Behind
      <4> HIDE DEF r, s
      <4> QED
        BY <2>0, <3>2, <3>4, <4>1, <4>2 DEF LocksInOrder, r
    <3> QED
      BY <3>1, <3>3, <3>4
  <2>4. ASSUME NEW c \in Calls, Write(c)
        PROVE  LocksInOrder'
    <3>1. Kind[c] \notin {"refresh", "revoke"} /\ holder' = holder
      BY <2>4 DEF Write, Transactional
    <3>2. \A r \in Rows : c \notin holder[r]
      BY <3>1 DEF LocksInOrder, Behind
    <3>3. stage' = [stage EXCEPT ![c] = After(c, stage[c])]
      BY <2>4 DEF Write, Go
    <3> QED
      BY <3>1, <3>2, <3>3, <2>a
  <2>5. CASE Expire \/ UNCHANGED vars
    BY <2>5 DEF Expire, vars, calls, LocksInOrder
  <2> QED
    BY <2>1, <2>2, <2>3, <2>4, <2>5, Steps
<1> QED
  BY <1>1, <1>2, TypeCorrect, PTL DEF Spec

(* The guard of the steps that Advance(c) is made of.                      *)
CanAdvance(c) ==
    \/ stage[c] \in {"guard", "end"}
    \/ stage[c] \in Rows /\ Free(stage[c])
    \/ \E d \in Calls : Deadlocked(c, d)

(* As long as a call is under way there is a step of some call to take.    *)
SomebodyGoesOn ==
    (\E c \in Calls : stage[c] \notin {"idle", "answered"}) => \E c \in Calls : CanAdvance(c)

(* However many calls wait for each other's rows, there is one that the    *)
(* database can serve or two that wait for one another, which its deadlock *)
(* detection ends: no cycle of three or more is ever left.                 *)
THEOREM NoStandstill == Spec => []SomebodyGoesOn
<1>1. TypeOK /\ LocksInOrder => SomebodyGoesOn
  <2> SUFFICES ASSUME TypeOK, LocksInOrder,
                      NEW c \in Calls, stage[c] \notin {"idle", "answered"},
                      \A d \in Calls : ~ CanAdvance(d)
               PROVE  FALSE
    BY DEF SomebodyGoesOn
  <2>1. \A d \in Calls : /\ stage[d] \notin {"guard", "end"}
                         /\ stage[d] \in Rows => holder[stage[d]] # {}
    BY DEF CanAdvance, Free
  <2>2. \A r \in Rows : \A d \in holder[r] : d \in Calls /\ stage[d] \in Behind(d, r)
    BY DEF TypeOK, LocksInOrder
  <2>3. holder["family"] = {}
    <3> SUFFICES ASSUME NEW h \in holder["family"]
                 PROVE  FALSE
      OBVIOUS
    <3>1. h \in Calls /\ stage[h] = "token"
      BY <2>1, <2>2 DEF Behind, Rows
    <3>2. PICK k : k \in holder["token"]
      BY <2>1, <3>1 DEF Rows
    <3>3. k \in Calls /\ stage[k] = "family"
      BY <2>1, <2>2, <3>2 DEF Behind, Rows
    <3>4. Deadlocked(h, k)
      BY <3>1, <3>2, <3>3 DEF Deadlocked, Rows
    <3> QED
      BY <3>1, <3>3, <3>4 DEF CanAdvance
  <2>4. \A d \in Calls : stage[d] # "family"
    BY <2>1, <2>3 DEF Rows
  <2>5. holder["token"] = {}
    BY <2>1, <2>2, <2>4 DEF Behind, Rows
  <2>6. \A d \in Calls : stage[d] # "token"
    BY <2>1, <2>5 DEF Rows
  <2>7. holder["session"] = {}
    BY <2>1, <2>2, <2>4, <2>6 DEF Behind, Rows
  <2>8. \A d \in Calls : stage[d] # "session"
    BY <2>1, <2>7 DEF Rows
  <2>9. holder["device"] = {}
    BY <2>1, <2>2, <2>4, <2>6, <2>8 DEF Behind, Rows
  <2> QED
    BY <2>1, <2>4, <2>6, <2>8, <2>9 DEF TypeOK, Stages, Rows
<1> QED
  BY <1>1, TypeCorrect, LocksKeepOrder, PTL

(* Each step of a call takes it nearer to its answer: with NoStandstill,   *)
(* this is what EveryCallAnswered rests on.  A rotation asks for the token *)
(* before the family.                                                      *)
Rank(c, s) ==
    CASE s = "idle" -> 0     [] s = "guard" -> 1
      [] s = "device" -> 2   [] s = "session" -> 3   [] s = "family" -> 4
      [] s = "token" -> IF Kind[c] = "refresh" THEN 3 ELSE 5
      [] s = "end" -> 6      [] s = "answered" -> 7

CallsGoForward ==
    [][\A c \in Calls : stage'[c] # stage[c] => Rank(c, stage[c]) < Rank(c, stage'[c])]_vars

(* No call asks the guard again, or for a row it has had.                  *)
THEOREM NoCallGoesBack == Spec => CallsGoForward
<1>1. TypeOK /\ LocksInOrder /\ [Next]_vars =>
          \A c \in Calls : stage'[c] # stage[c] => Rank(c, stage[c]) < Rank(c, stage'[c])
  <2> SUFFICES ASSUME TypeOK, LocksInOrder, [Next]_vars, NEW d \in Calls, stage'[d] # stage[d]
               PROVE  Rank(d, stage[d]) < Rank(d, stage'[d])
    OBVIOUS
  <2>1. ASSUME NEW c \in Calls, NEW s, Go(c, s)
        PROVE  stage'[d] = s /\ d = c
    BY <2>1 DEF TypeOK, Go
  <2>2. ASSUME NEW c \in Calls, NEW a, Return(c, a)
        PROVE  Rank(d, stage[d]) < Rank(d, stage'[d])
    <3>1. stage'[d] = "answered" /\ stage[d] # "answered" /\ stage[d] \in Stages
      BY <2>1, <2>2 DEF Return, TypeOK
    <3> QED
      BY <3>1 DEF Rank, Stages, Rows
  <2>3. ASSUME NEW c \in Calls, Begin(c) \/ Admit(c), ~ Return(c, "unauthorized")
        PROVE  Rank(d, stage[d]) < Rank(d, stage'[d])
    <3>1. \/ stage[c] = "idle" /\ Go(c, "guard")
          \/ stage[c] \in {"idle", "guard"} /\ Go(c, FirstRow(c))
      BY <2>3 DEF Begin, Admit
    <3> QED
      BY <3>1, <2>1 DEF FirstRow, Rank
  <2>4. ASSUME NEW c \in Calls, Lock(c) \/ Write(c)
        PROVE  Rank(d, stage[d]) < Rank(d, stage'[d])
    <3>1. stage[c] \in Rows /\ Go(c, After(c, stage[c]))
      BY <2>4 DEF Lock, Write
    <3>2. d = c /\ stage'[d] = After(d, stage[d])
      BY <3>1, <2>1
    <3>3. Kind[d] = "refresh" => stage[d] \in {"token", "family"}
      BY <3>1, <3>2 DEF LocksInOrder, Rows
    <3>4. CASE Kind[d] = "refresh"
      <4>1. CASE stage[d] = "token"
        BY <3>2, <3>4, <4>1 DEF After, Rank
      <4>2. CASE stage[d] = "family"
        BY <3>2, <3>4, <4>2 DEF After, Rank
      <4> QED
        BY <3>3, <3>4, <4>1, <4>2
    <3>5. CASE Kind[d] # "refresh"
      BY <3>1, <3>2, <3>5 DEF After, Rank, Rows
    <3> QED
      BY <3>4, <3>5
  <2>5. ASSUME NEW c \in Calls,
               \/ Reject(c) \/ NotFound(c) \/ Commit(c) \/ Done(c) \/ Rotate(c)
               \/ Deadlock(c) \/ Fail(c)
        PROVE  \E a : Return(c, a)
    BY <2>5 DEF Reject, NotFound, Commit, Done, Rotate, Deadlock, Fail
  <2>6. CASE Expire \/ UNCHANGED vars
    BY <2>6 DEF Expire, vars, calls
  <2> QED
    BY <2>2, <2>3, <2>4, <2>5, <2>6, Steps
<1> QED
  BY <1>1, TypeCorrect, LocksKeepOrder, PTL DEF Spec, CallsGoForward

=============================================================================
