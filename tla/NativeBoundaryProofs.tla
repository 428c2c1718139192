------------------------ MODULE NativeBoundaryProofs ------------------------
(***************************************************************************)
(* What NativeBoundary guarantees for every limit of the registry and of   *)
(* the buffer, and however often the process is started.                   *)
(***************************************************************************)
EXTENDS NativeBoundary, FiniteSetTheorems, TLAPS

(* The assumptions of NativeBoundary, gathered for the proofs.             *)
LEMMA ConstantsTyped ==
    /\ FirstHandle \in Nat \ {0}
    /\ MaxHandles \in Nat
    /\ ExportRoom \in Nat
    /\ ExportRoom <= MaxHandles
BY HandlesAssumption, ExportAssumption

(* A registry with one entry more.                                         *)
Added(t) ==
    [i \in DOMAIN registry \cup {counter} |->
        IF i = counter THEN [type |-> t, active |-> TRUE, made |-> created] ELSE registry[i]]

(* Creation, disposal and a partial import keep a registry a registry.     *)
LEMMA AddedTyped ==
    ASSUME TypeOK, NEW t \in HandleType
    PROVE  Entries(Added(t)) /\ DOMAIN Added(t) = DOMAIN registry \cup {counter}
<1>1. DOMAIN Added(t) = DOMAIN registry \cup {counter}
  BY DEF Added
<1>2. IsFiniteSet(DOMAIN registry \cup {counter})
  BY FS_AddElement DEF TypeOK, Entries
<1>3. Added(t) \in [DOMAIN registry \cup {counter} -> HandleEntry]
  BY DEF Added, TypeOK, Entries, HandleEntry
<1> QED
  BY <1>1, <1>2, <1>3 DEF TypeOK, Entries

LEMMA DisposedTyped ==
    ASSUME TypeOK, NEW i \in DOMAIN registry
    PROVE  /\ Entries([registry EXCEPT ![i].active = FALSE])
           /\ DOMAIN [registry EXCEPT ![i].active = FALSE] = DOMAIN registry
BY DEF TypeOK, Entries, HandleEntry

(* Disposal leaves an entry standing for what it stood for.                *)
LEMMA DisposalKeeps ==
    ASSUME TypeOK, NEW i, Dispose(i)
    PROVE  /\ DOMAIN registry' = DOMAIN registry
           /\ \A j \in DOMAIN registry : registry'[j].made = registry[j].made
<1>1. CASE i \in DOMAIN registry /\ registry[i].active
  <2>1. registry' = [registry EXCEPT ![i].active = FALSE]
    BY <1>1 DEF Dispose
  <2>2. registry \in [DOMAIN registry -> HandleEntry]
    BY DEF TypeOK, Entries
  <2> QED
    BY <2>1, <2>2 DEF HandleEntry
<1>2. CASE ~ (i \in DOMAIN registry /\ registry[i].active)
  BY <1>2 DEF Dispose
<1> QED
  BY <1>1, <1>2

(* An export adds the registry, if it fits, and changes nothing else.      *)
LEMMA ExportAdds ==
    ASSUME Export
    PROVE  /\ registry' = registry
           /\ \A b \in saved' :
                  b \in saved \/ (b.entries = registry /\ b.run = run /\ Size <= ExportRoom)
<1>1. CASE Size <= ExportRoom
  <2>1. saved' = saved \cup {[entries |-> registry, run |-> run]}
    BY <1>1 DEF Export
  <2> QED
    BY <1>1, <2>1 DEF Export
<1>2. CASE ~ (Size <= ExportRoom)
  BY <1>2 DEF Export
<1> QED
  BY <1>1, <1>2

LEMMA PartTyped ==
    ASSUME NEW f, Entries(f), NEW S \in SUBSET DOMAIN f
    PROVE  Entries([i \in S |-> f[i]])
<1>1. IsFiniteSet(S)
  BY FS_Subset DEF Entries
<1> QED
  BY <1>1 DEF Entries

LEMMA NoneTyped == Entries(NoEntries) /\ Cardinality(DOMAIN NoEntries) = 0
<1>1. DOMAIN NoEntries = {} /\ NoEntries \in [{} -> HandleEntry]
  BY DEF NoEntries
<1> QED
  BY <1>1, FS_EmptySet DEF Entries

LEMMA HandlesTyped ==
    ASSUME NEW f, Entries(f)
    PROVE  Handles(f) \subseteq [id : HandleIds, made : Nat]
BY DEF Entries, Handles, HandleEntry

-----------------------------------------------------------------------------
(* Every variable keeps its type; in particular every handle in use, and   *)
(* every one restored from a state, is a handle and never the 0 that the   *)
(* client passes for want of one.                                          *)
THEOREM TypeCorrect == Spec => []TypeOK
<1>1. Init => TypeOK
  <2> SUFFICES ASSUME Init
               PROVE  TypeOK
    OBVIOUS
  <2>1. Entries(registry)
    BY NoneTyped DEF Init
  <2>2. counter \in HandleIds
    BY ConstantsTyped DEF Init, HandleIds
  <2>3. \A b \in saved : Entries(b.entries) /\ b.run \in 0 .. run
    BY DEF Init
  <2> QED
    BY <2>1, <2>2, <2>3 DEF Init, TypeOK, Codes
<1>2. TypeOK /\ [Next]_vars => TypeOK'
  <2> SUFFICES ASSUME TypeOK, [Next]_vars
               PROVE  TypeOK'
    OBVIOUS
  <2>1. ASSUME NEW t \in HandleType, Create(t)
        PROVE  TypeOK'
    <3>1. Entries(registry')
      BY <2>1, AddedTyped DEF Create, Added
    <3>2. counter' \in HandleIds /\ created' \in Nat
      BY <2>1 DEF Create, TypeOK, HandleIds
    <3>3. held' \subseteq [id : HandleIds, made : Nat]
      BY <2>1 DEF Create, TypeOK
    <3> QED
      BY <2>1, <3>1, <3>2, <3>3 DEF Create, Report, TypeOK, Codes
  <2>2. CASE CreateExhausted
    BY <2>2 DEF CreateExhausted, Report, history, TypeOK, Codes
  <2>3. ASSUME NEW i \in Passed, Dispose(i)
        PROVE  TypeOK'
    <3>1. CASE i \in DOMAIN registry /\ registry[i].active
      <4>1. Entries(registry')
        BY <2>3, <3>1, DisposedTyped DEF Dispose
      <4>2. registry[i].made \in Nat
        BY <3>1 DEF TypeOK, Entries, HandleEntry
      <4> QED
        BY <2>3, <3>1, <4>1, <4>2 DEF Dispose, Report, TypeOK, Codes
    <3>2. CASE ~ (i \in DOMAIN registry /\ registry[i].active)
      BY <2>3, <3>2 DEF Dispose, Report, history, TypeOK, Codes
    <3> QED
      BY <3>1, <3>2
  <2>4. ASSUME NEW i \in Passed, Transform(i)
        PROVE  TypeOK'
    BY <2>4 DEF Transform, Report, history, TypeOK, Codes
  <2>5. CASE Export
    <3>1. saved' \subseteq saved \cup {[entries |-> registry, run |-> run]}
      BY <2>5 DEF Export
    <3>2. Entries(registry) /\ run \in 0 .. run
      BY DEF TypeOK
    <3>3. \A b \in saved' : Entries(b.entries) /\ b.run \in 0 .. run
      BY <3>1, <3>2 DEF TypeOK
    <3> QED
      BY <2>5, <3>3 DEF Export, Report, history, TypeOK, Codes
  <2>6. ASSUME NEW b \in saved, Import(b)
        PROVE  TypeOK'
    <3>1. Entries(b.entries) /\ Handles(b.entries) \subseteq [id : HandleIds, made : Nat]
      BY HandlesTyped DEF TypeOK
    <3> QED
      BY <2>6, <3>1 DEF Import, Report, TypeOK, Codes
  <2>7. ASSUME NEW b \in saved, ImportDamaged(b)
        PROVE  TypeOK'
    <3>1. PICK S \in SUBSET DOMAIN b.entries : registry' = [i \in S |-> b.entries[i]]
      BY <2>7 DEF ImportDamaged
    <3>2. Entries(b.entries)
      BY DEF TypeOK
    <3>3. Entries([i \in S |-> b.entries[i]])
      BY <3>2, PartTyped
    <3>4. Entries(registry')
      BY <3>1, <3>3
    <3> QED
      BY <2>7, <3>4 DEF ImportDamaged, Report, TypeOK, Codes
  <2>8. CASE ImportRejected \/ Query \/ Panic
    BY <2>8 DEF ImportRejected, Query, Panic, Report, history, TypeOK, Codes
  <2>9. CASE Restart
    <3>1. Entries(registry')
      BY <2>9, NoneTyped DEF Restart
    <3>2. counter' \in HandleIds
      BY <2>9, ConstantsTyped DEF Restart, HandleIds
    <3>3. run' \in Nat /\ \A b \in saved' : Entries(b.entries) /\ b.run \in 0 .. run'
      BY <2>9 DEF Restart, TypeOK
    <3> QED
      BY <2>9, <3>1, <3>2, <3>3 DEF Restart, TypeOK, Codes
  <2>10. CASE UNCHANGED vars
    BY <2>10 DEF vars, process, history, TypeOK
  <2> QED
    BY <2>1, <2>2, <2>3, <2>4, <2>5, <2>6, <2>7, <2>8, <2>9, <2>10 DEF Next
<1> QED
  BY <1>1, <1>2, PTL DEF Spec

-----------------------------------------------------------------------------
(* What is saved fits into the buffer.                                     *)
SavedFit == \A b \in saved : Cardinality(DOMAIN b.entries) <= ExportRoom

(* The limit that creation alone tests holds after every import too: what  *)
(* can be imported was exported, and the client's buffer is no larger than *)
(* the registry may be.                                                    *)
THEOREM RegistryStaysBounded == Spec => []RegistryBounded
<1> DEFINE IInv == RegistryBounded /\ SavedFit
<1>1. Init => IInv
  BY ConstantsTyped, NoneTyped DEF Init, RegistryBounded, SavedFit, Size
<1>2. TypeOK /\ IInv /\ [Next]_vars => IInv'
  <2> SUFFICES ASSUME TypeOK, IInv, [Next]_vars
               PROVE  IInv'
    OBVIOUS
  <2> USE DEF RegistryBounded, SavedFit, Size
  <2>0. IsFiniteSet(DOMAIN registry) /\ Cardinality(DOMAIN registry) \in Nat
    BY FS_CardinalityType DEF TypeOK, Entries
  <2>1. ASSUME NEW t \in HandleType, Create(t)
        PROVE  IInv'
    <3>1. DOMAIN registry' = DOMAIN registry \cup {counter}
      BY <2>1, AddedTyped DEF Create, Added
    <3>2. Cardinality(DOMAIN registry') <= Cardinality(DOMAIN registry) + 1
      BY <2>0, <3>1, FS_AddElement
    <3>3. Cardinality(DOMAIN registry') \in Nat
      BY <2>0, <3>1, FS_AddElement, FS_CardinalityType
    <3> QED
      BY <2>0, <2>1, <3>2, <3>3, ConstantsTyped DEF Create
  <2>2. ASSUME NEW i \in Passed, Dispose(i)
        PROVE  IInv'
    <3>1. DOMAIN registry' = DOMAIN registry /\ saved' = saved
      BY <2>2, DisposedTyped DEF Dispose, history
    <3> QED
      BY <3>1
  <2>3. CASE Export
    BY <2>3, ExportAdds
  <2>4. ASSUME NEW b \in saved, Import(b)
        PROVE  IInv'
    <3>1. Cardinality(DOMAIN b.entries) \in Nat
      BY FS_CardinalityType DEF TypeOK, Entries
    <3> QED
      BY <2>4, <3>1, ConstantsTyped DEF Import
  <2>5. ASSUME NEW b \in saved, ImportDamaged(b)
        PROVE  IInv'
    <3>1. DOMAIN registry' \subseteq DOMAIN b.entries
      BY <2>5 DEF ImportDamaged
    <3>2. IsFiniteSet(DOMAIN b.entries)
      BY DEF TypeOK, Entries
    <3>3. /\ Cardinality(DOMAIN registry') <= Cardinality(DOMAIN b.entries)
          /\ Cardinality(DOMAIN registry') \in Nat
          /\ Cardinality(DOMAIN b.entries) \in Nat
      BY <3>1, <3>2, FS_Subset, FS_CardinalityType
    <3>4. Cardinality(DOMAIN registry') <= MaxHandles
      BY <3>3, ConstantsTyped
    <3>5. saved' = saved
      BY <2>5 DEF ImportDamaged
    <3> QED
      BY <3>4, <3>5
  <2>6. CASE CreateExhausted \/ ImportRejected \/ Query \/ Panic \/ (\E i \in Passed : Transform(i))
    BY <2>6 DEF CreateExhausted, ImportRejected, Query, Panic, Transform
  <2>7. CASE Restart
    BY <2>7, ConstantsTyped, NoneTyped DEF Restart
  <2>8. CASE UNCHANGED vars
    BY <2>8 DEF vars, process
  <2> QED
    BY <2>1, <2>2, <2>3, <2>4, <2>5, <2>6, <2>7, <2>8 DEF Next
<1>3. IInv => RegistryBounded
  OBVIOUS
<1> QED
  BY <1>1, <1>2, <1>3, TypeCorrect, PTL DEF Spec

-----------------------------------------------------------------------------
(* What the client has, in a run in which no state of an earlier one was   *)
(* imported: the registry and the states of this run know no handle that   *)
(* it has not, none is in use for two things, and the counter is past all. *)
Meaning ==
    /\ Handles(registry) \subseteq held
    /\ \A b \in saved : b.run = run => Handles(b.entries) \subseteq held
    /\ \A g, h \in held : g.id = h.id => g.made = h.made
    /\ \A h \in held : h.id < counter

(* A handle stands for what it was created for, however often the client   *)
(* disposes of handles and goes back to states of this run, whole or       *)
(* damaged.                                                                *)
THEOREM MeaningKept == Spec => []HandlesKeepMeaning
<1> DEFINE IInv == ~ foreign => Meaning
<1>1. Init => IInv
  BY DEF Init, NoEntries, Handles, Meaning
<1>2. TypeOK /\ IInv /\ [Next]_vars => IInv'
  <2> SUFFICES ASSUME TypeOK, IInv, [Next]_vars, ~ foreign'
               PROVE  Meaning'
    OBVIOUS
  <2>1. ASSUME NEW t \in HandleType, Create(t)
        PROVE  Meaning'
    <3>1. Meaning
      BY <2>1 DEF Create
    <3> DEFINE new == [id |-> counter, made |-> created]
    <3>2. Handles(registry') \subseteq held'
      <4>1. registry' = Added(t) /\ held' = held \cup {new}
        BY <2>1 DEF Create, Added
      <4>2. Handles(Added(t)) \subseteq Handles(registry) \cup {new}
        BY DEF Handles, Added
      <4> QED
        BY <3>1, <4>1, <4>2 DEF Meaning
    <3>3. \A b \in saved' : b.run = run' => Handles(b.entries) \subseteq held'
      BY <2>1, <3>1 DEF Create, Meaning
    <3>4. \A g, h \in held' : g.id = h.id => g.made = h.made
      BY <2>1, <3>1 DEF Create, Meaning, TypeOK, HandleIds
    <3>5. \A h \in held' : h.id < counter'
      BY <2>1, <3>1 DEF Create, Meaning, TypeOK, HandleIds
    <3> QED
      BY <3>2, <3>3, <3>4, <3>5 DEF Meaning
  <2>2. ASSUME NEW i \in Passed, Dispose(i)
        PROVE  Meaning'
    <3>1. /\ DOMAIN registry' = DOMAIN registry
          /\ \A j \in DOMAIN registry : registry'[j].made = registry[j].made
      BY <2>2, DisposalKeeps
    <3>2. Handles(registry') = Handles(registry)
      BY <3>1 DEF Handles
    <3> QED
      BY <2>2, <3>2 DEF Dispose, Meaning, history
  <2>3. CASE Export
    <3>1. held' = held /\ counter' = counter /\ run' = run /\ foreign' = foreign
      BY <2>3 DEF Export, history
    <3> QED
      BY <2>3, <3>1, ExportAdds DEF Meaning
  <2>4. ASSUME NEW b \in saved, Import(b)
        PROVE  Meaning'
    <3>1. Meaning /\ b.run = run
      BY <2>4 DEF Import
    <3>2. Handles(b.entries) \subseteq held
      BY <3>1 DEF Meaning
    <3> QED
      BY <2>4, <3>1, <3>2 DEF Import, Meaning
  <2>5. ASSUME NEW b \in saved, ImportDamaged(b)
        PROVE  Meaning'
    <3>1. Meaning /\ b.run = run
      BY <2>5 DEF ImportDamaged
    <3>2. PICK S \in SUBSET DOMAIN b.entries : registry' = [i \in S |-> b.entries[i]]
      BY <2>5 DEF ImportDamaged
    <3>3. Handles(registry') \subseteq Handles(b.entries)
      BY <3>2 DEF Handles
    <3> QED
      BY <2>5, <3>1, <3>3 DEF ImportDamaged, Meaning
  <2>6. CASE CreateExhausted \/ ImportRejected \/ Query \/ Panic \/ (\E i \in Passed : Transform(i))
    BY <2>6 DEF CreateExhausted, ImportRejected, Query, Panic, Transform, Meaning, history
  <2>7. CASE Restart
    BY <2>7 DEF Restart, NoEntries, Handles, Meaning, TypeOK
  <2>8. CASE UNCHANGED vars
    BY <2>8 DEF vars, process, history, Meaning
  <2> QED
    BY <2>1, <2>2, <2>3, <2>4, <2>5, <2>6, <2>7, <2>8 DEF Next
<1>3. IInv => HandlesKeepMeaning
  <2> SUFFICES ASSUME Meaning, NEW h \in held, h.id \in DOMAIN registry
               PROVE  registry[h.id].made = h.made
    BY DEF HandlesKeepMeaning
  <2>1. [id |-> h.id, made |-> registry[h.id].made] \in held
    BY DEF Meaning, Handles
  <2> QED
    BY <2>1 DEF Meaning
<1> QED
  BY <1>1, <1>2, <1>3, TypeCorrect, PTL DEF Spec

-----------------------------------------------------------------------------
(* No two entries stand for one creation.                                  *)
Distinct(entries) ==
    \A i, j \in DOMAIN entries : entries[i].made = entries[j].made => i = j

(* The registry and every state hold creations of the past, each once.     *)
Past ==
    /\ Distinct(registry) /\ \A i \in DOMAIN registry : registry[i].made < created
    /\ \A b \in saved :
          Distinct(b.entries) /\ \A i \in DOMAIN b.entries : b.entries[i].made < created
    /\ \A k \in disposed : k < created

(* Every entry stands for a creation of the past, and for another one than *)
(* every other entry.                                                      *)
LEMMA PastKept == Spec => []Past
<1>1. Init => Past
  BY DEF Init, NoEntries, Past, Distinct
<1>2. TypeOK /\ Past /\ [Next]_vars => Past'
  <2> SUFFICES ASSUME TypeOK, Past, [Next]_vars
               PROVE  Past'
    OBVIOUS
  <2>1. ASSUME NEW t \in HandleType, Create(t)
        PROVE  Past'
    <3>1. /\ registry' = Added(t) /\ created' = created + 1
          /\ saved' = saved /\ disposed' = disposed
      BY <2>1 DEF Create, Added
    <3>2. created \in Nat /\ \A i \in DOMAIN registry : registry[i].made \in Nat
      BY DEF TypeOK, Entries, HandleEntry
    <3>3. \A i \in DOMAIN Added(t) : Added(t)[i].made < created + 1
      BY <3>2 DEF Added, Past
    <3>4. Distinct(Added(t))
      BY <3>2 DEF Added, Past, Distinct
    <3>5. \A b \in saved : \A i \in DOMAIN b.entries : b.entries[i].made < created + 1
      BY <3>2 DEF Past, TypeOK, Entries, HandleEntry
    <3>6. \A k \in disposed : k < created + 1
      BY <3>2 DEF Past, TypeOK
    <3> QED
      BY <3>1, <3>3, <3>4, <3>5, <3>6 DEF Past, Distinct
  <2>2. ASSUME NEW i \in Passed, Dispose(i)
        PROVE  Past'
    <3>1. /\ DOMAIN registry' = DOMAIN registry
          /\ \A j \in DOMAIN registry : registry'[j].made = registry[j].made
      BY <2>2, DisposalKeeps
    <3>2. \A k \in disposed' : k < created
      <4>1. CASE i \in DOMAIN registry /\ registry[i].active
        BY <2>2, <4>1 DEF Dispose, Past
      <4>2. CASE ~ (i \in DOMAIN registry /\ registry[i].active)
        BY <2>2, <4>2 DEF Dispose, Past, history
      <4> QED
        BY <4>1, <4>2
    <3> QED
      BY <2>2, <3>1, <3>2 DEF Dispose, Past, Distinct, history
  <2>3. CASE Export
    <3>1. created' = created /\ disposed' = disposed
      BY <2>3 DEF Export, history
    <3> QED
      BY <2>3, <3>1, ExportAdds DEF Past, Distinct
  <2>4. ASSUME NEW b \in saved, Import(b)
        PROVE  Past'
    BY <2>4 DEF Import, Past, Distinct
  <2>5. ASSUME NEW b \in saved, ImportDamaged(b)
        PROVE  Past'
    <3>1. PICK S \in SUBSET DOMAIN b.entries : registry' = [i \in S |-> b.entries[i]]
      BY <2>5 DEF ImportDamaged
    <3>2. Distinct(registry') /\ \A i \in DOMAIN registry' : registry'[i].made < created
      BY <3>1 DEF Past, Distinct
    <3> QED
      BY <2>5, <3>2 DEF ImportDamaged, Past, Distinct
  <2>6. CASE CreateExhausted \/ ImportRejected \/ Query \/ Panic \/ (\E i \in Passed : Transform(i))
    BY <2>6 DEF CreateExhausted, ImportRejected, Query, Panic, Transform, Past, Distinct, history
  <2>7. CASE Restart
    BY <2>7 DEF Restart, NoEntries, Past, Distinct
  <2>8. CASE UNCHANGED vars
    BY <2>8 DEF vars, process, history, Past, Distinct
  <2> QED
    BY <2>1, <2>2, <2>3, <2>4, <2>5, <2>6, <2>7, <2>8 DEF Next
<1> QED
  BY <1>1, <1>2, TypeCorrect, PTL DEF Spec

(* What was disposed of comes back only out of a state in which it was     *)
(* active, whatever is exported, imported, damaged or started again.       *)
THEOREM Revival == Spec => []RevivedOnlyFromSaved
<1> DEFINE IInv == RevivedOnlyFromSaved
<1>1. Init => IInv
  BY DEF Init, RevivedOnlyFromSaved, NoEntries
<1>2. TypeOK /\ Past /\ IInv /\ [Next]_vars => IInv'
  <2> SUFFICES ASSUME TypeOK, Past, IInv, [Next]_vars,
                      NEW i \in DOMAIN registry', registry'[i].active,
                      registry'[i].made \in disposed'
               PROVE  \E b \in saved' : \E j \in DOMAIN b.entries :
                          b.entries[j].active /\ b.entries[j].made = registry'[i].made
    BY DEF RevivedOnlyFromSaved
  <2> USE DEF RevivedOnlyFromSaved
  <2>1. ASSUME NEW t \in HandleType, Create(t)
        PROVE  i \in DOMAIN registry /\ registry'[i] = registry[i]
               /\ disposed' = disposed /\ saved' = saved
    <3>1. registry' = Added(t) /\ disposed' = disposed /\ saved' = saved
      BY <2>1 DEF Create, Added
    <3>2. created \notin disposed
      BY DEF Past, TypeOK
    <3> QED
      BY <3>1, <3>2 DEF Added
  <2>2. ASSUME NEW k \in Passed, Dispose(k)
        PROVE  i \in DOMAIN registry /\ registry'[i] = registry[i]
               /\ registry[i].made \in disposed /\ saved' = saved
    <3>1. CASE k \in DOMAIN registry /\ registry[k].active
      <4>1. /\ registry' = [registry EXCEPT ![k].active = FALSE]
            /\ disposed' = disposed \cup {registry[k].made} /\ saved' = saved
        BY <2>2, <3>1 DEF Dispose
      <4>2. registry \in [DOMAIN registry -> HandleEntry]
        BY DEF TypeOK, Entries
      <4>3. i \in DOMAIN registry /\ i # k
        BY <4>1, <4>2 DEF HandleEntry
      <4>4. registry[i].made # registry[k].made
        BY <3>1, <4>3 DEF Past, Distinct
      <4> QED
        BY <4>1, <4>3, <4>4
    <3>2. CASE ~ (k \in DOMAIN registry /\ registry[k].active)
      <4>1. registry' = registry /\ disposed' = disposed /\ saved' = saved
        BY <2>2, <3>2 DEF Dispose, history
      <4> QED
        BY <4>1
    <3> QED
      BY <3>1, <3>2
  <2>3. CASE Export
    <3>1. registry' = registry /\ disposed' = disposed /\ saved \subseteq saved'
      BY <2>3 DEF Export, history
    <3> QED
      BY <3>1
  <2>4. ASSUME NEW b \in saved, Import(b)
        PROVE  b \in saved' /\ i \in DOMAIN b.entries /\ b.entries[i] = registry'[i]
    BY <2>4 DEF Import
  <2>5. ASSUME NEW b \in saved, ImportDamaged(b)
        PROVE  b \in saved' /\ i \in DOMAIN b.entries /\ b.entries[i] = registry'[i]
    BY <2>5 DEF ImportDamaged
  <2>6. CASE CreateExhausted \/ ImportRejected \/ Query \/ Panic \/ (\E k \in Passed : Transform(k))
    BY <2>6 DEF CreateExhausted, ImportRejected, Query, Panic, Transform, history
  <2>7. CASE Restart
    BY <2>7 DEF Restart, NoEntries
  <2>8. CASE UNCHANGED vars
    BY <2>8 DEF vars, process, history
  <2> QED
    BY <2>1, <2>2, <2>3, <2>4, <2>5, <2>6, <2>7, <2>8 DEF Next
<1> QED
  BY <1>1, <1>2, TypeCorrect, PastKept, PTL DEF Spec

-----------------------------------------------------------------------------
(* A registry that has outgrown the buffer stays too large to be exported, *)
(* whatever is disposed of, until another state replaces it or the process *)
(* ends.                                                                   *)
THEOREM OutgrownForGood == Spec => UnexportableForGood
<1> DEFINE Stays ==
      Size > ExportRoom =>
          \/ Size' > ExportRoom
          \/ run' # run
          \/ \E b \in saved : DOMAIN registry' \subseteq DOMAIN b.entries
<1>1. TypeOK /\ [Next]_vars => [Stays]_vars
  <2> SUFFICES ASSUME TypeOK, [Next]_vars, Size > ExportRoom
               PROVE  Stays
    OBVIOUS
  <2>1. ASSUME NEW t \in HandleType, Create(t)
        PROVE  Size' > ExportRoom
    <3>1. DOMAIN registry' = DOMAIN registry \cup {counter}
      BY <2>1, AddedTyped DEF Create, Added
    <3>2. IsFiniteSet(DOMAIN registry')
      BY <3>1, FS_AddElement DEF TypeOK, Entries
    <3>3. /\ Cardinality(DOMAIN registry) <= Cardinality(DOMAIN registry')
          /\ Cardinality(DOMAIN registry) \in Nat /\ Cardinality(DOMAIN registry') \in Nat
      BY <3>1, <3>2, FS_Subset, FS_CardinalityType
    <3> QED
      BY <3>3, ConstantsTyped DEF Size
  <2>2. ASSUME NEW i \in Passed, Dispose(i)
        PROVE  Size' > ExportRoom
    BY <2>2, DisposalKeeps DEF Size
  <2>3. ASSUME NEW b \in saved, Import(b) \/ ImportDamaged(b)
        PROVE  DOMAIN registry' \subseteq DOMAIN b.entries
    BY <2>3 DEF Import, ImportDamaged
  <2>4. CASE Export \/ CreateExhausted \/ ImportRejected \/ Query \/ Panic
             \/ (\E i \in Passed : Transform(i))
    BY <2>4 DEF Export, CreateExhausted, ImportRejected, Query, Panic, Transform, Size
  <2>5. CASE Restart
    BY <2>5 DEF Restart, TypeOK
  <2>6. CASE UNCHANGED vars
    BY <2>6 DEF vars, process, Size
  <2> QED
    BY <2>1, <2>2, <2>3, <2>4, <2>5, <2>6 DEF Next
<1> QED
  BY <1>1, TypeCorrect, PTL DEF Spec, UnexportableForGood
=============================================================================
