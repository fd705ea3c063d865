---------------------------- MODULE SourceState ----------------------------
(***************************************************************************)
(* Publishing the accepted state of a source: the immutable generation and *)
(* state files, the pointer that commits them, the registry mirror and the *)
(* pruning of history in storage.py (publish_source_state,                 *)
(* _load_source_state, _prune_source_history), as driven by refresh_source *)
(* and reconcile_source of ProberService through _commit_source_state, and *)
(* the loading in start().                                                 *)
(*                                                                         *)
(* One step is one durable file operation.  Each may fail, with or without *)
(* its effect, and the process may die between any two.  Requests are      *)
(* serialised by the _mutation_lock; a manual reconciliation is made from  *)
(* a preview and protected only by the revision it sends along.            *)
(*                                                                         *)
(* One source: the others have directories of their own.  What a source    *)
(* delivers and the identities it gets are abstract values; two entry      *)
(* lists are equal or not.  File names come from one counter, which also   *)
(* orders them by age.  Left out: errors while reading, and damage to      *)
(* files from outside.  (An error of the look that follows two failed      *)
(* publications counts as "not visible" in the code.)                      *)
(***************************************************************************)
EXTENDS Naturals, FiniteSets

CONSTANTS
    Entries,       \* lists of entries a source may deliver
    Bindings,      \* identity bindings of the source
    Clients,       \* operators who reconcile by hand
    StateRetention, GenerationRetention,
    FaultyOps,     \* the operations that may fail
    MaxFaults,     \* bound: failures in a behaviour
    MaxFiles,      \* bound: file names used in a behaviour
    NoEntries, NoBindings

Ops == {"generation", "state", "pointer", "mirror", "prune", "reconcile", "schedule",
        "quiesce"}

ASSUME RetentionAssumption ==
    StateRetention \in Nat \ {0} /\ GenerationRetention \in Nat \ {0}
ASSUME FaultAssumption ==
    FaultyOps \subseteq Ops /\ MaxFaults \in Nat /\ MaxFiles \in Nat
ASSUME NothingAssumption == NoEntries \notin Entries /\ NoBindings \notin Bindings

VARIABLES
    disk,      \* the directory of the source, and its part of the mirror
    live,      \* self.generations and self.identity
    executor,  \* readiness, is the scheduler started, and the generation it has
    pc,        \* the step the daemon is at
    txn,       \* the request in progress
    req, committed, outcome,   \* what its caller knows
    seen,      \* what each client has been shown
    clock,     \* the next file name
    faults     \* failures so far

vars == <<disk, live, executor, pc, txn, req, committed, outcome, seen, clock, faults>>

Generation == [id : Nat \ {0}, entries : Entries]
State == [id : Nat \ {0}, gen : Nat \ {0}, bind : Bindings]
Version == [generation : Generation, bind : Bindings]
Disk == [gens : SUBSET Generation, states : SUBSET State,
         pointer : [gen : Nat, state : Nat], mirror : Bindings \cup {NoBindings}]

NoPointer == [gen |-> 0, state |-> 0]
Nothing == [generation |-> [id |-> 0, entries |-> NoEntries], bind |-> NoBindings]
NoView == [base |-> Nothing, entries |-> NoEntries]
NoExecutor == [ready |-> "no", started |-> "no", sched |-> 0]
NoTxn == [version |-> Nothing, base |-> Nothing, attempt |-> 0, state |-> 0, changed |-> "no"]

View == [base : Version \cup {Nothing}, entries : Entries \cup {NoEntries}]
Executor == [ready : {"yes", "no"}, started : {"yes", "no"}, sched : Nat]
Txn == [version : Version \cup {Nothing}, base : Version \cup {Nothing},
        attempt : 0..2, state : Nat, changed : {"yes", "no"}]

The(files) == CHOOSE f \in files : TRUE

\* _load_source_state(): what the pointer in directory d leads to.  A pointer that
\* leads nowhere is ignored, and the bindings with it.
PointedGens(d) == {g \in d.gens : g.id = d.pointer.gen}
PointedStates(d) == {s \in d.states : s.id = d.pointer.state /\ s.gen = d.pointer.gen}
Resolves(d) == PointedGens(d) # {} /\ PointedStates(d) # {}

load_lkg(d) ==
    IF Resolves(d) THEN The(PointedGens(d)) ELSE Nothing.generation

load_identity_registry(d) ==
    IF d.pointer = NoPointer THEN d.mirror
    ELSE IF Resolves(d) THEN The(PointedStates(d)).bind ELSE NoBindings

\* What a restart would recover.
RecoveredFrom(d) == [generation |-> load_lkg(d), bind |-> load_identity_registry(d)]
Recovered == RecoveredFrom(disk)

Init ==
    /\ disk = [gens |-> {}, states |-> {}, pointer |-> NoPointer, mirror |-> NoBindings]
    /\ live = Nothing /\ executor = NoExecutor
    /\ pc = "down" /\ txn = NoTxn
    /\ req = Nothing /\ committed = "no" /\ outcome = "none"
    /\ seen = [c \in Clients |-> NoView]
    /\ clock = 1 /\ faults = 0

-----------------------------------------------------------------------------
\* _prune_source_history(): the current state and the newest others are kept,
\* and the generations they refer to, filled up with the newest.
Newer(files, f) == {g \in files : g.id > f.id}

KeptStates ==
    {s \in disk.states :
        \/ s.id = disk.pointer.state
        \/ Cardinality({t.id : t \in Newer(disk.states, s)} \cup {disk.pointer.state})
              < StateRetention}

Referred == {disk.pointer.gen} \cup {s.gen : s \in KeptStates}

\* Mutant: generations are kept by age alone.
MutKeepNewest ==
    {g \in disk.gens : Cardinality(Newer(disk.gens, g)) < GenerationRetention}

KeptGenerations ==
    {g \in disk.gens :
        \/ g.id \in Referred
        \/ Cardinality({h.id : h \in Newer(disk.gens, g)} \cup Referred)
              < GenerationRetention}

\* What is left to be removed: states first.
PrunedDisks ==
    IF KeptStates # disk.states
    THEN {[disk EXCEPT !.states = @ \ {s}] : s \in disk.states \ KeptStates}
    ELSE {[disk EXCEPT !.gens = @ \ {g}] : g \in disk.gens \ KeptGenerations}

NothingToPrune == disk.pointer = NoPointer \/ PrunedDisks = {}

Fault(op) == op \in FaultyOps /\ faults < MaxFaults /\ faults' = faults + 1

\* A file operation that fails: the daemon goes on at step next, and the
\* directory may or may not have been changed.
Fails(op, newDisk, next) ==
    /\ Fault(op)
    /\ disk' \in {disk, newDisk}
    /\ pc' = next

Succeeds(newDisk, next) == disk' = newDisk /\ pc' = next /\ UNCHANGED faults

request == <<req, outcome>>
process == <<live, executor, seen>>

-----------------------------------------------------------------------------
\* refresh_source() and reconcile_source(), up to _commit_source_state: entries
\* that are equal to the current ones keep their generation.
Submit(base, e, b) ==
    LET same == live.generation.entries = e
        g == IF same THEN live.generation ELSE [id |-> clock, entries |-> e]
        version == [generation |-> g, bind |-> b]
    IN
    /\ txn' = [version |-> version, base |-> base, attempt |-> 1, state |-> 0,
               changed |-> IF same THEN "no" ELSE "yes"]
    /\ clock' = IF same THEN clock ELSE clock + 1
    /\ req' = version /\ committed' = "no" /\ outcome' = "none"
    /\ pc' = "generation"
    /\ UNCHANGED <<disk, live, executor, seen, faults>>

\* A request writes one generation and two states at most.
Room == clock + 3 <= MaxFiles

Refresh(e, b) == pc = "idle" /\ Room /\ Submit(live, e, b)

\* The candidates are refused: fetch, import, identity conflict, capacity or
\* validation.
Refuse ==
    /\ pc = "idle" /\ outcome' = "error" /\ outcome # "error"
    /\ UNCHANGED <<disk, live, executor, pc, txn, req, committed, seen, clock, faults>>

\* preview_reconciliation(): the revision covers bindings, generation, candidates
Preview(c, e) ==
    /\ pc = "idle"
    /\ seen' = [seen EXCEPT ![c] = [base |-> live, entries |-> e]]
    /\ UNCHANGED <<disk, live, executor, pc, txn, req, committed, outcome, clock, faults>>

\* Mutant: the revision covers the candidates only.
MutSameCandidates(c, e) == seen[c].entries = e

\* The revision a client sends is the one of what is live and delivered now.
SameRevision(c, e) == seen[c] = [base |-> live, entries |-> e]

ReconcileSource(c, e, b) ==
    /\ pc = "idle" /\ Room /\ SameRevision(c, e)
    /\ Submit(seen[c].base, e, b)

-----------------------------------------------------------------------------
\* publish_source_state() has raised: it is tried once more, then looked for.
AfterError == IF txn.attempt = 1 THEN "generation" ELSE "look"
NextAttempt == [txn EXCEPT !.attempt = 2]

\* _save_generation_file(): an immutable file that is there is not written again.
SaveGeneration ==
    LET g == txn.version.generation
        written == [disk EXCEPT !.gens = @ \cup {g}]
    IN
    /\ pc = "generation"
    /\ \/ Succeeds(written, "state") /\ UNCHANGED txn
       \/ /\ g \notin disk.gens
          /\ Fails("generation", written, AfterError) /\ txn' = NextAttempt
    /\ UNCHANGED <<committed, clock>> /\ UNCHANGED request /\ UNCHANGED process

SaveState ==
    LET s == [id |-> clock, gen |-> txn.version.generation.id, bind |-> txn.version.bind]
        written == [disk EXCEPT !.states = @ \cup {s}]
    IN
    /\ pc = "state"
    /\ clock' = clock + 1
    /\ \/ Succeeds(written, "pointer") /\ txn' = [txn EXCEPT !.state = clock]
       \/ Fails("state", written, AfterError) /\ txn' = NextAttempt
    /\ UNCHANGED committed /\ UNCHANGED request /\ UNCHANGED process

\* The commit point.  committed records that the pointer has been replaced.
SwitchPointer ==
    LET switched == [disk EXCEPT !.pointer = [gen |-> txn.version.generation.id,
                                              state |-> txn.state]]
    IN
    /\ pc = "pointer"
    /\ \/ Succeeds(switched, "mirror") /\ UNCHANGED txn
       \/ Fails("pointer", switched, AfterError) /\ txn' = NextAttempt
    /\ committed' = IF disk' = switched THEN "yes" ELSE committed
    /\ UNCHANGED clock /\ UNCHANGED request /\ UNCHANGED process

\* Post-commit maintenance is best effort.
SaveMirror ==
    LET written == [disk EXCEPT !.mirror = txn.version.bind] IN
    /\ pc = "mirror"
    /\ Succeeds(written, "prune") \/ Fails("mirror", written, "prune")
    /\ UNCHANGED <<txn, committed, clock>> /\ UNCHANGED request /\ UNCHANGED process

\* In publish_source_state() a failed removal ends the pruning, at start the start.
Prune ==
    /\ pc \in {"prune", "startPrune"}
    /\ ~NothingToPrune
    /\ \E pruned \in PrunedDisks :
          \/ Succeeds(pruned, pc)
          \/ Fails("prune", pruned, IF pc = "prune" THEN "activate" ELSE "down")
    /\ UNCHANGED <<txn, committed, clock>> /\ UNCHANGED request /\ UNCHANGED process

Pruned ==
    /\ pc = "prune" /\ NothingToPrune
    /\ pc' = "activate"
    /\ UNCHANGED <<disk, txn, committed, clock, faults>> /\ UNCHANGED request
    /\ UNCHANGED process

-----------------------------------------------------------------------------
\* The request ends: its caller is told, or sees its own cancellation, which
\* was kept back while the transition was under way.
Answer(outcomes) ==
    /\ outcome' \in outcomes
    /\ req' = Nothing /\ committed' = "no"
    /\ pc' = "idle" /\ txn' = NoTxn

\* Mutant: two failures are a failure, whatever the directory says.
MutNeverVisible ==
    /\ pc = "look" /\ Answer({"error"})
    /\ UNCHANGED <<disk, clock, faults>> /\ UNCHANGED process

\* Mutant: the publication error is not raised again.
MutSwallowError ==
    /\ pc = "look"
    /\ \/ /\ Recovered = txn.version
          /\ pc' = "activate" /\ UNCHANGED <<txn, committed>> /\ UNCHANGED request
       \/ Recovered # txn.version /\ Answer({"ok"})
    /\ UNCHANGED <<disk, clock, faults>> /\ UNCHANGED process

\* _source_publish_is_visible(): both attempts have failed, perhaps after the
\* commit.
Look ==
    /\ pc = "look"
    /\ \/ /\ Recovered = txn.version
          /\ pc' = "activate" /\ UNCHANGED <<txn, committed>> /\ UNCHANGED request
       \/ Recovered # txn.version /\ Answer({"error"})
    /\ UNCHANGED <<disk, clock, faults>> /\ UNCHANGED process

\* The logical view is swapped; the executor follows if the generation is new.
Activate ==
    /\ pc = "activate"
    /\ live' = txn.version
    /\ \/ /\ txn.changed = "yes" /\ pc' = "reconcile"
          /\ UNCHANGED <<txn, committed>> /\ UNCHANGED request
       \/ txn.changed = "no" /\ Answer({"ok", "error"})
    /\ UNCHANGED <<disk, executor, seen, clock, faults>>

\* pool.reconcile() and the pruning of results
ReconcileExecutor ==
    /\ pc = "reconcile"
    /\ \/ pc' = "schedule" /\ UNCHANGED faults
       \/ pc' = "quiesce" /\ Fault("reconcile")
    /\ UNCHANGED <<disk, txn, committed, clock>> /\ UNCHANGED request /\ UNCHANGED process

\* scheduler.update(): a scheduler that was stopped stays so.
Schedule ==
    /\ pc = "schedule"
    /\ \/ /\ executor' = [executor EXCEPT !.sched = live.generation.id]
          /\ Answer({"ok", "error"}) /\ UNCHANGED faults
       \/ /\ Fault("schedule") /\ pc' = "quiesce"
          /\ UNCHANGED <<executor, txn, committed>> /\ UNCHANGED request
    /\ UNCHANGED <<disk, live, seen, clock>>

\* Mutant: readiness is kept.
MutStayReady ==
    /\ pc = "quiesce"
    /\ \/ executor' = [executor EXCEPT !.started = "no"] /\ UNCHANGED faults
       \/ UNCHANGED executor /\ Fault("quiesce")
    /\ Answer({"ok", "error"})
    /\ UNCHANGED <<disk, live, seen, clock>>

\* The executor could not follow: readiness is withdrawn and the scheduler is
\* stopped, if it can be.
Quiesce ==
    /\ pc = "quiesce"
    /\ \/ /\ executor' = [ready |-> "no", started |-> "no", sched |-> executor.sched]
          /\ UNCHANGED faults
       \/ executor' = [executor EXCEPT !.ready = "no"] /\ Fault("quiesce")
    /\ Answer({"ok", "error"})
    /\ UNCHANGED <<disk, live, seen, clock>>

Publish == SaveGeneration \/ SaveState \/ SwitchPointer \/ SaveMirror \/ Prune \/ Pruned \/ Look
Follow == Activate \/ ReconcileExecutor \/ Schedule \/ Quiesce

-----------------------------------------------------------------------------
\* _apply_config() builds a new executor for what is live.
Applied(version) ==
    [ready |-> "yes", started |-> "yes", sched |-> version.generation.id]

\* start(): prune_source_histories(), then the loading.
Start ==
    /\ pc = "down" /\ pc' = "startPrune"
    /\ UNCHANGED <<disk, txn, committed, clock, faults>> /\ UNCHANGED request
    /\ UNCHANGED process

Load ==
    /\ pc = "startPrune" /\ NothingToPrune
    /\ live' = Recovered /\ executor' = Applied(Recovered)
    /\ pc' = "idle"
    /\ UNCHANGED <<disk, txn, committed, seen, clock, faults>> /\ UNCHANGED request

\* reload_config()
Reload ==
    /\ pc = "idle" /\ executor' = Applied(live)
    /\ UNCHANGED <<disk, live, pc, txn, committed, seen, clock, faults>>
    /\ UNCHANGED request

Crash ==
    /\ pc # "down" /\ pc' = "down"
    /\ live' = Nothing /\ executor' = NoExecutor /\ txn' = NoTxn
    /\ req' = Nothing /\ committed' = "no" /\ outcome' = "none"
    /\ UNCHANGED <<disk, seen, clock, faults>>

Next ==
    \/ \E e \in Entries, b \in Bindings :
          Refresh(e, b) \/ \E c \in Clients : ReconcileSource(c, e, b)
    \/ \E c \in Clients, e \in Entries : Preview(c, e)
    \/ Refuse
    \/ Publish \/ Follow
    \/ Start \/ Load \/ Reload \/ Crash

Spec == Init /\ [][Next]_vars

-----------------------------------------------------------------------------
TypeOK ==
    /\ disk \in Disk
    /\ live \in Version \cup {Nothing}
    /\ executor \in Executor
    /\ pc \in {"down", "startPrune", "idle", "generation", "state", "pointer", "mirror",
               "prune", "look", "activate", "reconcile", "schedule", "quiesce"}
    /\ txn \in Txn
    /\ req \in Version \cup {Nothing} /\ committed \in {"yes", "no"}
    /\ outcome \in {"none", "ok", "error"}
    /\ seen \in [Clients -> View]
    /\ clock \in Nat \ {0} /\ faults \in 0..MaxFaults

\* Whatever is pruned, fails or is interrupted: the pointer leads to a state
\* and a generation that belong together, and so does every state that is kept.
PointerResolves ==
    /\ \A s \in disk.states : \E g \in disk.gens : g.id = s.gen
    /\ disk.pointer # NoPointer =>
          \E s \in disk.states : s.id = disk.pointer.state /\ s.gen = disk.pointer.gen

\* Between two requests the daemon works with what a restart would recover, also
\* when publication reported failure after its commit point.
LiveIsDurable == pc = "idle" => live = Recovered

\* A publication replaces exactly the state its author has seen: a manual
\* mapping is not applied to bindings or generations that came after its preview.
NoBlindPublication == [][Recovered' # Recovered => Recovered = txn.base]_vars

\* A daemon that says it is ready schedules the generation it has accepted.
ReadyMeansScheduled ==
    pc = "idle" /\ executor.ready = "yes" =>
        executor.started = "yes" /\ executor.sched = live.generation.id

\* The files implement the register.
Register == INSTANCE SourceRegister WITH val <- Recovered, Versions <- Version
RefinesRegister == Register!Spec
=============================================================================
