--------------------------- MODULE NativeBoundary ---------------------------
(***************************************************************************)
(* The native crypto boundary (lib.rs, with its test provider) behind its  *)
(* Dart client (native_crypto_boundary_ffi.dart): a registry of handles    *)
(* that is lost with the process, and states of it that the application    *)
(* exports, keeps and imports again.  The client calls it from one isolate,*)
(* so that a call is one action.                                           *)
(***************************************************************************)
EXTENDS Integers, FiniteSets

CONSTANTS
    FirstHandle,    \* the initial HANDLE_COUNTER
    MaxHandles,     \* MAX_HANDLES
    ExportRoom,     \* entries that fit into the client's buffer of 64 KB
    MaxCreations,   \* bound of the handles ever created
    MaxSaved,       \* bound of the states the application keeps
    MaxRuns         \* bound of the runs of the process

ASSUME HandlesAssumption == FirstHandle \in Nat \ {0} /\ MaxHandles \in Nat
ASSUME ExportAssumption == ExportRoom \in Nat /\ ExportRoom <= MaxHandles
ASSUME BoundsAssumption == MaxCreations \in Nat /\ MaxSaved \in Nat /\ MaxRuns \in Nat

VARIABLES
    registry,       \* the entries, by handle
    counter,        \* HANDLE_COUNTER
    lastError,      \* LAST_ERROR_CODE
    saved,          \* the states exported, and the runs they come from
    held,           \* handles the client has, and what each was created for
    created,        \* how many handles were ever created
    disposed,       \* the creations that were disposed of
    run,            \* which run of the process this is
    foreign         \* a state of an earlier run was imported in this one

process == <<registry, counter, lastError>>
history == <<created, disposed, run, foreign>>
vars == <<process, saved, held, history>>

HandleType == {"identity", "session", "group"}

(* "made" tells the creation an entry stands for; the code has no such     *)
(* thing.                                                                  *)
HandleEntry == [type : HandleType, active : BOOLEAN, made : Nat]

Codes == {"success", "invalid handle", "stale or double free", "panic contained",
          "buffer too small", "version mismatch", "invalid state",
          "handle type mismatch", "registry exhausted"}

Handles(entries) == {[id |-> i, made |-> entries[i].made] : i \in DOMAIN entries}

(* 0 is no handle: it is what the client passes for want of one.           *)
HandleIds == Nat \ {0}

Entries(f) ==
    /\ DOMAIN f \subseteq HandleIds /\ IsFiniteSet(DOMAIN f)
    /\ f \in [DOMAIN f -> HandleEntry]

TypeOK ==
    /\ Entries(registry)
    /\ counter \in HandleIds
    /\ lastError \in Codes
    /\ \A b \in saved : Entries(b.entries) /\ b.run \in 0 .. run
    /\ held \subseteq [id : HandleIds, made : Nat]
    /\ created \in Nat
    /\ disposed \subseteq Nat
    /\ run \in Nat
    /\ foreign \in BOOLEAN

NoEntries == [i \in {} |-> 0]

Init ==
    /\ registry = NoEntries
    /\ counter = FirstHandle
    /\ lastError = "success"
    /\ saved = {}
    /\ held = {}
    /\ created = 0
    /\ disposed = {}
    /\ run = 0
    /\ foreign = FALSE

-----------------------------------------------------------------------------
Report(code) == lastError' = code

Size == Cardinality(DOMAIN registry)

(* create_test_identity_handle and its two sisters.                        *)
Create(t) ==
    /\ created < MaxCreations
    /\ Size < MaxHandles
    /\ registry' = [i \in DOMAIN registry \cup {counter} |->
                       IF i = counter THEN [type |-> t, active |-> TRUE, made |-> created]
                                      ELSE registry[i]]
    /\ counter' = counter + 1
    /\ Report("success")
    /\ held' = held \cup {[id |-> counter, made |-> created]}
    /\ created' = created + 1
    /\ UNCHANGED <<saved, disposed, run, foreign>>

CreateExhausted ==
    /\ Size >= MaxHandles
    /\ Report("registry exhausted")
    /\ UNCHANGED <<registry, counter, saved, held, history>>

(* What the client may pass: a handle it has, or 0.                        *)
Passed == {0} \cup {h.id : h \in held}

(* A faulty dispose_handle, which frees the entry.                         *)
DisposeRemoves(i) ==
    /\ i \in DOMAIN registry
    /\ registry' = [j \in DOMAIN registry \ {i} |-> registry[j]]
    /\ Report("success")
    /\ disposed' = disposed \cup {registry[i].made}
    /\ UNCHANGED <<counter, saved, held, created, run, foreign>>

(* dispose_handle: the entry stays, for good.                              *)
Dispose(i) ==
    IF i \in DOMAIN registry /\ registry[i].active
      THEN /\ registry' = [registry EXCEPT ![i].active = FALSE]
           /\ Report("success")
           /\ disposed' = disposed \cup {registry[i].made}
           /\ UNCHANGED <<counter, saved, held, created, run, foreign>>
      ELSE /\ Report(IF i \in DOMAIN registry THEN "stale or double free" ELSE "invalid handle")
           /\ UNCHANGED <<registry, counter, saved, held, history>>

(* transform_test_payload.  The client refuses what is over 10 MB by       *)
(* itself, and its buffer for the answer is always large enough.           *)
Transform(i) ==
    /\ \/ i \notin DOMAIN registry /\ Report("invalid handle")
       \/ /\ i \in DOMAIN registry /\ ~ registry[i].active
          /\ Report("stale or double free")
       \/ /\ i \in DOMAIN registry /\ registry[i].active
          /\ Report(IF registry[i].type = "session" THEN "success" ELSE "handle type mismatch")
    /\ UNCHANGED <<registry, counter, saved, held, history>>

(* export_opaque_test_state into the client's buffer; the client keeps it. *)
Export ==
    /\ Cardinality(saved) < MaxSaved
    /\ IF Size <= ExportRoom
         THEN /\ saved' = saved \cup {[entries |-> registry, run |-> run]}
              /\ Report("success")
         ELSE Report("buffer too small") /\ UNCHANGED saved
    /\ UNCHANGED <<registry, counter, held, history>>

(* Faulty imports: one that counts on from the imported entries, one that  *)
(* ignores their flag of activity.                                         *)
ImportCounts(b) ==
    /\ registry' = b.entries
    /\ counter' = Cardinality(DOMAIN b.entries)
    /\ Report("success")
    /\ held' = held \cup Handles(b.entries)
    /\ foreign' = (foreign \/ b.run # run)
    /\ UNCHANGED <<saved, created, disposed, run>>
ImportActivates(b) ==
    /\ registry' = [i \in DOMAIN b.entries |-> [b.entries[i] EXCEPT !.active = TRUE]]
    /\ Report("success")
    /\ held' = held \cup Handles(b.entries)
    /\ foreign' = (foreign \/ b.run # run)
    /\ UNCHANGED <<counter, saved, created, disposed, run>>

(* import_opaque_test_state; the application parses the handles out of the *)
(* state it imports.  The counter stays where it is.                       *)
Import(b) ==
    /\ registry' = b.entries
    /\ Report("success")
    /\ held' = held \cup Handles(b.entries)
    /\ foreign' = (foreign \/ b.run # run)
    /\ UNCHANGED <<counter, saved, created, disposed, run>>

(* The state has lost its end, or has a byte that is no type: the registry *)
(* is left with what came before, in the order of the hash table.          *)
ImportDamaged(b) ==
    /\ \E S \in SUBSET DOMAIN b.entries :
          /\ S # DOMAIN b.entries
          /\ registry' = [i \in S |-> b.entries[i]]
    /\ Report("invalid state")
    /\ foreign' = (foreign \/ b.run # run)
    /\ UNCHANGED <<counter, saved, held, created, disposed, run>>

(* Too short for a header, or another version.                             *)
ImportRejected ==
    /\ Report("invalid state") \/ Report("version mismatch")
    /\ UNCHANGED <<registry, counter, saved, held, history>>

(* boundary_api_version and query_capabilities.                            *)
Query ==
    /\ Report("success")
    /\ UNCHANGED <<registry, counter, saved, held, history>>

(* trigger_controlled_test_panic.                                          *)
Panic ==
    /\ Report("panic contained")
    /\ UNCHANGED <<registry, counter, saved, held, history>>

(* The application is stopped and started; what it exported is kept.       *)
Restart ==
    /\ run < MaxRuns
    /\ registry' = NoEntries
    /\ counter' = FirstHandle
    /\ lastError' = "success"
    /\ held' = {}
    /\ run' = run + 1
    /\ foreign' = FALSE
    /\ UNCHANGED <<saved, created, disposed>>

Next ==
    \/ \E t \in HandleType : Create(t)
    \/ CreateExhausted
    \/ \E i \in Passed : Dispose(i) \/ Transform(i)
    \/ Export
    \/ \E b \in saved : Import(b) \/ ImportDamaged(b)
    \/ ImportRejected \/ Query \/ Panic
    \/ Restart

Spec == Init /\ [][Next]_vars

-----------------------------------------------------------------------------
(* The limit is tested by creation alone, and still no import exceeds it.  *)
RegistryBounded == Size <= MaxHandles

(* A handle stands for what it was created for, through disposals, damaged *)
(* imports and returns to earlier states, as long as no state of an        *)
(* earlier run is imported: the counter starts again with the process, and *)
(* what is created after such an import may replace what was restored.     *)
HandlesKeepMeaning ==
    ~ foreign =>
        \A h \in held : h.id \in DOMAIN registry => registry[h.id].made = h.made

(* What was disposed of comes back only out of a state in which it was     *)
(* active: no sequence of exports and imports of later states revives it.  *)
RevivedOnlyFromSaved ==
    \A i \in DOMAIN registry :
        registry[i].active /\ registry[i].made \in disposed =>
            \E b \in saved : \E j \in DOMAIN b.entries :
                b.entries[j].active /\ b.entries[j].made = registry[i].made

(* A registry too large for the client's buffer cannot be exported again   *)
(* whatever is disposed of: only another state, or the end of the process, *)
(* makes it smaller.                                                       *)
UnexportableForGood ==
    [][Size > ExportRoom =>
          \/ Size' > ExportRoom
          \/ run' # run
          \/ \E b \in saved : DOMAIN registry' \subseteq DOMAIN b.entries]_vars
=============================================================================
