------------------------- MODULE SourceStateProofs -------------------------
(***************************************************************************)
(* Proofs about SourceState, for any entries, bindings, clients, retention *)
(* and number of failures.                                                 *)
(***************************************************************************)
EXTENDS SourceState, TLAPS

\* File names are not used twice, and the mirror is written after a commit.
Files ==
    /\ \A g \in disk.gens : g.id < clock
    /\ \A g, h \in disk.gens : g.id = h.id => g = h
    /\ \A s \in disk.states : s.id < clock
    /\ \A s, t \in disk.states : s.id = t.id => s = t
    /\ disk.pointer = NoPointer => disk.mirror = NoBindings

Publishing == {"generation", "state", "pointer", "look"}
Committed == {"mirror", "prune", "activate"}
Following == {"reconcile", "schedule", "quiesce"}
Busy == Publishing \cup Committed \cup Following

\* What the request in progress has written.
TxnAt ==
    /\ pc \notin Busy => req = Nothing /\ committed = "no"
    /\ pc \in Busy =>
          /\ txn.version \in Version /\ req = txn.version
          /\ txn.version.generation.id < clock
          /\ \A g \in disk.gens :
                g.id = txn.version.generation.id => g = txn.version.generation
    /\ pc \in {"state", "pointer"} => txn.version.generation \in disk.gens
    /\ pc = "pointer" =>
          [id |-> txn.state, gen |-> txn.version.generation.id, bind |-> txn.version.bind]
             \in disk.states

\* How the recovered, the live and the requested state are related.
CommitAt ==
    /\ committed = "yes" => Recovered = txn.version
    /\ pc \in Publishing =>
          /\ txn.base = live
          /\ committed = "no" => Recovered = live
    /\ pc \in Committed => Recovered = txn.version
    /\ pc \in {"mirror", "prune"} => committed = "yes"
    /\ pc \in Following => Recovered = txn.version /\ live = Recovered
    /\ pc = "idle" => live = Recovered

IInv == TypeOK /\ PointerResolves /\ Files /\ TxnAt /\ CommitAt

-----------------------------------------------------------------------------
\* A pointer to files with names of their own leads to their contents.
LEMMA FromPointer ==
    ASSUME NEW d, NEW g \in d.gens, NEW s \in d.states,
           g.id = d.pointer.gen, s.id = d.pointer.state, s.gen = d.pointer.gen,
           g.id # 0,
           \A h \in d.gens : h.id = g.id => h = g,
           \A t \in d.states : t.id = s.id => t = s
    PROVE  RecoveredFrom(d) = [generation |-> g, bind |-> s.bind]
<1>1. PointedGens(d) = {g} /\ PointedStates(d) = {s}
  BY Zenon DEF PointedGens, PointedStates
<1>2. Resolves(d) /\ The(PointedGens(d)) = g /\ The(PointedStates(d)) = s
  BY <1>1, Zenon DEF Resolves, The
<1>3. d.pointer # NoPointer
  BY SMT DEF NoPointer
<1> QED
  BY <1>2, <1>3, Zenon DEF RecoveredFrom, load_lkg, load_identity_registry

\* Without a pointer there is nothing to recover.
LEMMA FromNothing ==
    ASSUME NEW d, d.gens \subseteq Generation, d.pointer = NoPointer, d.mirror = NoBindings
    PROVE  RecoveredFrom(d) = Nothing
<1>1. PointedGens(d) = {}
  BY SMT DEF PointedGens, Generation, NoPointer
<1>2. load_lkg(d) = Nothing.generation /\ load_identity_registry(d) = NoBindings
  BY <1>1, Zenon DEF Resolves, load_lkg, load_identity_registry
<1> QED
  BY <1>2, SMT DEF RecoveredFrom, Nothing

\* Files that the pointer does not lead to do not matter.
LEMMA SameRecovered ==
    ASSUME NEW d, NEW e, e.pointer = d.pointer,
           PointedGens(e) = PointedGens(d), PointedStates(e) = PointedStates(d),
           d.pointer = NoPointer => e.mirror = d.mirror
    PROVE  RecoveredFrom(e) = RecoveredFrom(d)
<1>1. load_lkg(e) = load_lkg(d)
  BY Zenon DEF load_lkg, Resolves
<1>2. load_identity_registry(e) = load_identity_registry(d)
  BY Zenon DEF load_identity_registry, Resolves
<1> QED
  BY <1>1, <1>2, Zenon DEF RecoveredFrom

\* What is recovered is nothing, or the contents of files with current names.
LEMMA RecoveredType ==
    ASSUME TypeOK, PointerResolves, Files
    PROVE  \/ Recovered = Nothing
           \/ Recovered \in Version /\ Recovered.generation \in disk.gens
<1>1. CASE disk.pointer = NoPointer
  BY <1>1, FromNothing, SMT DEF TypeOK, Disk, Files, Recovered
<1>2. CASE disk.pointer # NoPointer
  <2>1. PICK s \in disk.states : s.id = disk.pointer.state /\ s.gen = disk.pointer.gen
    BY <1>2, Zenon DEF PointerResolves
  <2>2. PICK g \in disk.gens : g.id = s.gen
    BY Zenon DEF PointerResolves
  <2>3. g \in Generation /\ s \in State /\ g.id # 0
    BY SMT DEF TypeOK, Disk, Generation, State
  <2>4. Recovered = [generation |-> g, bind |-> s.bind]
    BY <2>1, <2>2, <2>3, FromPointer, Zenon DEF Files, Recovered
  <2> QED
    BY <2>3, <2>4, SMT DEF Version, State
<1> QED
  BY <1>1, <1>2

-----------------------------------------------------------------------------
\* The initial states satisfy the invariant and are initial for the register.
LEMMA Initially == Init => IInv /\ Register!Init
<1> SUFFICES ASSUME Init PROVE IInv /\ Register!Init
  OBVIOUS
<1>1. disk \in Disk /\ disk.gens = {} /\ disk.states = {} /\ disk.pointer = NoPointer
      /\ disk.mirror = NoBindings
  BY SMT DEF Init, Disk, NoPointer
<1>2. txn \in Txn
  BY SMT DEF Init, Txn, NoTxn, Nothing
<1>3. TypeOK
  <2>1. executor \in Executor
    BY SMT DEF Init, NoExecutor, Executor
  <2>2. seen \in [Clients -> View]
    BY SMT DEF Init, View, NoView, Nothing
  <2>3. clock \in Nat \ {0} /\ faults \in 0..MaxFaults
    BY FaultAssumption, SMT DEF Init
  <2> QED
    BY <1>1, <1>2, <2>1, <2>2, <2>3, Zenon DEF TypeOK, Init
<1>4. Recovered = Nothing
  BY <1>1, FromNothing, Zenon DEF Recovered
<1>5. PointerResolves /\ Files
  BY <1>1, Zenon DEF PointerResolves, Files
<1>6. TxnAt /\ CommitAt
  <2>1. pc = "down" /\ req = Nothing /\ committed = "no"
    BY Zenon DEF Init
  <2> QED
    BY <2>1, SMT DEF TxnAt, CommitAt, Busy, Publishing, Committed, Following
<1>7. Register!Init
  BY <1>4, Zenon DEF Init, Register!Init
<1> QED
  BY <1>3, <1>5, <1>6, <1>7 DEF IInv

-----------------------------------------------------------------------------
\* What is shown of every step: it preserves the invariant, it is a step of the
\* register or none, and it replaces only what its author has seen.
StepImplements == [Register!Next]_<<Recovered, req, committed, outcome>>
StepSighted == Recovered' # Recovered => Recovered = txn.base
StepOK == IInv' /\ StepImplements /\ StepSighted

\* A step that leaves the directory alone recovers the same.
LEMMA DiskUnchanged ==
    ASSUME PointerResolves, Files, UNCHANGED <<disk, clock>>
    PROVE  Recovered' = Recovered /\ PointerResolves' /\ Files'
<1>1. Recovered' = Recovered
  BY Zenon DEF Recovered
<1>2. PointerResolves'
  BY Zenon DEF PointerResolves
<1>3. Files'
  BY Zenon DEF Files
<1> QED
  BY <1>1, <1>2, <1>3

\* A request is based on what is live and durable.
LEMMA SubmitStep ==
    ASSUME IInv, pc = "idle",
           NEW e \in Entries, NEW b \in Bindings, Submit(live, e, b)
    PROVE  StepOK
<1> USE DEF IInv
<1> DEFINE same == live.generation.entries = e
           g == IF same THEN live.generation ELSE [id |-> clock, entries |-> e]
           version == [generation |-> g, bind |-> b]
<1>1. live = Recovered
  BY SMT DEF CommitAt
<1>2. same => live \in Version /\ live.generation \in disk.gens
  BY <1>1, RecoveredType, NothingAssumption, SMT DEF Nothing
<1>3. version \in Version /\ version.generation = g
  BY <1>2, SMT DEF Version, Generation, TypeOK
<1>4. clock' \in Nat \ {0} /\ clock <= clock' /\ g.id < clock'
      /\ \A h \in disk.gens : h.id = g.id => h = g
  BY <1>2, SMT DEF Submit, TypeOK, Files, Disk, Generation
<1>5. /\ UNCHANGED <<disk, live, executor, seen, faults>>
      /\ txn'.version = version /\ txn'.base = live
      /\ req' = version /\ committed' = "no" /\ outcome' = "none" /\ pc' = "generation"
  BY SMT DEF Submit, NoTxn
<1>6. PICK c \in {"yes", "no"} :
        txn' = [version |-> version, base |-> live, attempt |-> 1, state |-> 0, changed |-> c]
  BY Zenon DEF Submit
<1> HIDE DEF same, g, version
<1>7. txn' \in Txn
  <2>1. live \in Version \cup {Nothing}
    BY Zenon DEF TypeOK
  <2> HIDE DEF IInv
  <2> QED
    BY <1>3, <1>6, <2>1, SMT DEF Txn
<1>8. Recovered' = Recovered
  BY <1>5, Zenon DEF Recovered
<1>9. TypeOK'
  BY <1>3, <1>4, <1>5, <1>7, SMT DEF TypeOK
<1>10. PointerResolves'
  BY <1>5, Zenon DEF PointerResolves
<1>11. Files'
  BY <1>4, <1>5, SMT DEF Files, TypeOK, Disk, Generation, State
<1>12. TxnAt'
  BY <1>3, <1>4, <1>5, SMT DEF TxnAt, Busy, Publishing, Committed, Following
<1>13. CommitAt'
  BY <1>1, <1>5, <1>8, SMT DEF CommitAt, Publishing, Committed, Following
<1>14. req = Nothing
  BY SMT DEF TxnAt, Busy, Publishing, Committed, Following
<1>15. Register!Submit
  BY <1>3, <1>5, <1>8, <1>14, Zenon DEF Register!Submit
<1> QED
  BY <1>8, <1>9, <1>10, <1>11, <1>12, <1>13, <1>15, Zenon
     DEF StepOK, StepImplements, StepSighted, Register!Next

\* A refresh and a manual reconciliation, whose author has seen what is live.
LEMMA RequestStep ==
    ASSUME IInv, NEW e \in Entries, NEW b \in Bindings, NEW c \in Clients,
           Refresh(e, b) \/ ReconcileSource(c, e, b)
    PROVE  StepOK
<1>1. pc = "idle"
  BY Zenon DEF Refresh, ReconcileSource
<1>2. Submit(live, e, b)
  <2>1. ReconcileSource(c, e, b) => seen[c].base = live
    BY SMT DEF ReconcileSource, SameRevision
  <2>2. ReconcileSource(c, e, b) => Submit(live, e, b)
    BY <2>1, Zenon DEF ReconcileSource
  <2> QED
    BY <2>2, Zenon DEF Refresh
<1> QED
  BY <1>1, <1>2, SubmitStep

\* Refused candidates change nothing.
LEMMA RefuseStep == ASSUME IInv, Refuse PROVE StepOK
<1> USE DEF IInv
<1>1. /\ UNCHANGED <<disk, live, executor, pc, txn, req, committed, seen, clock, faults>>
      /\ pc = "idle" /\ outcome' = "error"
  BY Zenon DEF Refuse
<1>2. Recovered' = Recovered /\ PointerResolves' /\ Files'
  BY <1>1, DiskUnchanged
<1>3. TypeOK'
  BY <1>1, SMT DEF TypeOK
<1>4. TxnAt' /\ CommitAt'
  BY <1>1, <1>2, SMT DEF TxnAt, CommitAt
<1>5. req = Nothing
  BY <1>1, SMT DEF TxnAt, Busy, Publishing, Committed, Following
<1>6. Register!Refuse
  BY <1>1, <1>2, <1>5, Zenon DEF Register!Refuse
<1> QED
  BY <1>2, <1>3, <1>4, <1>6, Zenon DEF StepOK, StepImplements, StepSighted, Register!Next

\* A preview changes nothing but what a client has seen.
LEMMA PreviewStep ==
    ASSUME IInv, NEW c \in Clients, NEW e \in Entries, Preview(c, e) PROVE StepOK
<1> USE DEF IInv
<1>1. /\ UNCHANGED <<disk, live, executor, pc, txn, req, committed, outcome, clock, faults>>
      /\ seen' = [seen EXCEPT ![c] = [base |-> live, entries |-> e]]
  BY Zenon DEF Preview
<1>2. Recovered' = Recovered /\ PointerResolves' /\ Files'
  BY <1>1, DiskUnchanged
<1>3. TypeOK'
  <2>1. seen' \in [Clients -> View]
    BY <1>1, SMT DEF TypeOK, View
  <2> QED
    BY <1>1, <2>1, SMT DEF TypeOK
<1>4. TxnAt' /\ CommitAt'
  BY <1>1, <1>2, SMT DEF TxnAt, CommitAt
<1> QED
  BY <1>1, <1>2, <1>3, <1>4, Zenon DEF StepOK, StepImplements, StepSighted

-----------------------------------------------------------------------------
\* A request that has made the live and the recovered state equal may end.
LEMMA Answered ==
    ASSUME IInv, pc \in Busy, NEW S \in SUBSET {"ok", "error"}, Answer(S),
           UNCHANGED <<disk, clock, seen>>, live' = Recovered,
           executor' \in Executor, faults' \in 0..MaxFaults,
           "ok" \in S => Recovered = txn.version
    PROVE  StepOK
<1> USE DEF IInv
<1>1. /\ outcome' \in S /\ req' = Nothing /\ committed' = "no"
      /\ pc' = "idle" /\ txn' = NoTxn
  BY Zenon DEF Answer
<1>2. Recovered' = Recovered /\ PointerResolves' /\ Files'
  BY DiskUnchanged
<1>3. TypeOK'
  <2>1. NoTxn \in Txn
    BY SMT DEF NoTxn, Txn
  <2>2. live' \in Version \cup {Nothing}
    BY RecoveredType, Zenon
  <2> QED
    BY <1>1, <2>1, <2>2, SMT DEF TypeOK
<1>4. TxnAt' /\ CommitAt'
  BY <1>1, <1>2, SMT DEF TxnAt, CommitAt, Busy, Publishing, Committed, Following
<1>5. req # Nothing /\ req = txn.version
  BY SMT DEF TxnAt, Version, Generation, Nothing
<1>6. Register!Answer
  <2>1. outcome' \in IF Recovered = req THEN {"ok", "error"} ELSE {"error"}
    BY <1>1, <1>5, SMT
  <2> QED
    BY <1>1, <1>2, <1>5, <2>1, Zenon DEF Register!Answer
<1> QED
  BY <1>2, <1>3, <1>4, <1>6, Zenon DEF StepOK, StepImplements, StepSighted, Register!Next

\* A step of a request that leaves the directory alone and does not end it.
LEMMA Continued ==
    ASSUME IInv, pc \in Busy, pc' \in {"activate", "reconcile", "schedule", "quiesce"},
           UNCHANGED <<disk, clock, seen, txn, committed, req, outcome, executor>>,
           faults' \in 0..MaxFaults, live' \in Version \cup {Nothing},
           Recovered = txn.version, pc' # "activate" => live' = Recovered
    PROVE  StepOK
<1> USE DEF IInv
<1>1. Recovered' = Recovered /\ PointerResolves' /\ Files'
  BY DiskUnchanged
<1>2. TypeOK'
  BY SMT DEF TypeOK
<1>3. TxnAt'
  BY SMT DEF TxnAt, Busy, Publishing, Committed, Following
<1>4. CommitAt'
  BY <1>1, SMT DEF CommitAt, Busy, Publishing, Committed, Following
<1> QED
  BY <1>1, <1>2, <1>3, <1>4, Zenon DEF StepOK, StepImplements, StepSighted

\* Failures are counted up to their bound.
LEMMA FaultStep == ASSUME TypeOK, NEW op, Fault(op) \/ UNCHANGED faults
                   PROVE  faults' \in 0..MaxFaults
  BY FaultAssumption, SMT DEF TypeOK, Fault

\* Pruning is done: the request goes on to activation.
LEMMA PrunedStep == ASSUME IInv, Pruned PROVE StepOK
<1>1. /\ pc = "prune" /\ pc' = "activate"
      /\ UNCHANGED <<disk, clock, seen, txn, committed, req, outcome, executor, live, faults>>
  BY Zenon DEF Pruned, request, process
<1>2. Recovered = txn.version
  BY <1>1, SMT DEF IInv, CommitAt, Committed
<1>3. faults' \in 0..MaxFaults /\ live' \in Version \cup {Nothing}
  BY <1>1, SMT DEF IInv, TypeOK
<1>4. pc \in Busy
  BY <1>1, SMT DEF Busy, Committed
<1> QED
  BY <1>1, <1>2, <1>3, <1>4, Continued, SMT

\* After two failures the directory tells whether the commit took place.
LEMMA LookStep == ASSUME IInv, Look PROVE StepOK
<1>1. pc = "look" /\ UNCHANGED <<disk, clock, faults, live, executor, seen>>
  BY Zenon DEF Look, process
<1>2. /\ faults' \in 0..MaxFaults /\ executor' \in Executor
      /\ live' \in Version \cup {Nothing}
  BY <1>1, SMT DEF IInv, TypeOK
<1>3. pc \in Busy
  BY <1>1, SMT DEF Busy, Publishing
<1>4. CASE Recovered = txn.version /\ pc' = "activate"
           /\ UNCHANGED <<txn, committed, req, outcome>>
  BY <1>1, <1>2, <1>3, <1>4, Continued, SMT
<1>5. CASE Recovered # txn.version /\ Answer({"error"})
  <2>1. committed = "no"
    BY <1>5, SMT DEF IInv, CommitAt, TypeOK
  <2>2. live' = Recovered
    BY <1>1, <2>1, SMT DEF IInv, CommitAt, Publishing
  <2>3. {"error"} \in SUBSET {"ok", "error"} /\ "ok" \notin {"error"}
    BY SMT
  <2> QED
    BY <1>1, <1>2, <1>3, <1>5, <2>2, <2>3, Answered, Zenon
<1> QED
  BY <1>4, <1>5, Zenon DEF Look, request

\* The logical view follows the commit.
LEMMA ActivateStep == ASSUME IInv, Activate PROVE StepOK
<1>1. pc = "activate" /\ live' = txn.version
      /\ UNCHANGED <<disk, executor, seen, clock, faults>>
  BY Zenon DEF Activate
<1>2. pc \in Busy /\ Recovered = txn.version
  BY <1>1, SMT DEF IInv, CommitAt, Busy, Committed
<1>3. /\ faults' \in 0..MaxFaults /\ executor' \in Executor
      /\ live' \in Version \cup {Nothing}
  BY <1>1, <1>2, SMT DEF IInv, TypeOK, TxnAt
<1>4. CASE pc' = "reconcile" /\ UNCHANGED <<txn, committed, req, outcome>>
  BY <1>1, <1>2, <1>3, <1>4, Continued, SMT
<1>5. CASE Answer({"ok", "error"})
  BY <1>1, <1>2, <1>3, <1>5, Answered, Zenon
<1> QED
  BY <1>4, <1>5, Zenon DEF Activate, request

\* The pool follows.
LEMMA ReconcileExecutorStep == ASSUME IInv, ReconcileExecutor PROVE StepOK
<1>1. /\ pc = "reconcile" /\ pc' \in {"schedule", "quiesce"}
      /\ UNCHANGED <<disk, txn, committed, clock, req, outcome, live, executor, seen>>
  BY SMT DEF ReconcileExecutor, request, process
<1>2. pc \in Busy /\ Recovered = txn.version /\ live = Recovered
  BY <1>1, SMT DEF IInv, CommitAt, Busy, Following
<1>3. live' \in Version \cup {Nothing}
  BY <1>1, SMT DEF IInv, TypeOK
<1>4. faults' \in 0..MaxFaults
  BY FaultStep, Zenon DEF ReconcileExecutor, IInv
<1> QED
  BY <1>1, <1>2, <1>3, <1>4, Continued, SMT

\* The scheduler follows.
LEMMA ScheduleStep == ASSUME IInv, Schedule PROVE StepOK
<1>1. pc = "schedule" /\ UNCHANGED <<disk, live, seen, clock>>
  BY Zenon DEF Schedule
<1>2. pc \in Busy /\ Recovered = txn.version /\ live = Recovered
  BY <1>1, SMT DEF IInv, CommitAt, Busy, Following
<1>3. live' \in Version \cup {Nothing} /\ live.generation.id \in Nat
  BY <1>1, SMT DEF IInv, TypeOK, Version, Generation, Nothing
<1>4. faults' \in 0..MaxFaults
  BY FaultStep, Zenon DEF Schedule, IInv
<1>5. CASE executor' = [executor EXCEPT !.sched = live.generation.id]
           /\ Answer({"ok", "error"})
  <2>1. executor' \in Executor
    BY <1>3, <1>5, SMT DEF Executor, IInv, TypeOK
  <2> QED
    BY <1>1, <1>2, <1>4, <1>5, <2>1, Answered, Zenon
<1>6. CASE pc' = "quiesce" /\ UNCHANGED <<executor, txn, committed, req, outcome>>
  BY <1>1, <1>2, <1>3, <1>4, <1>6, Continued, SMT
<1> QED
  BY <1>5, <1>6, Zenon DEF Schedule, request

\* The executor could not follow.
LEMMA QuiesceStep == ASSUME IInv, Quiesce PROVE StepOK
<1>1. pc = "quiesce" /\ UNCHANGED <<disk, live, seen, clock>> /\ Answer({"ok", "error"})
  BY Zenon DEF Quiesce
<1>2. pc \in Busy /\ Recovered = txn.version /\ live = Recovered
  BY <1>1, SMT DEF IInv, CommitAt, Busy, Following
<1>3. faults' \in 0..MaxFaults
  BY FaultStep, Zenon DEF Quiesce, IInv
<1>4. executor' \in Executor
  <2>1. executor \in Executor
    BY Zenon DEF IInv, TypeOK
  <2>2. \/ executor' = [ready |-> "no", started |-> "no", sched |-> executor.sched]
        \/ executor' = [executor EXCEPT !.ready = "no"]
    BY Zenon DEF Quiesce
  <2> QED
    BY <2>1, <2>2, SMT DEF Executor
<1> QED
  BY <1>1, <1>2, <1>3, <1>4, Answered, Zenon

-----------------------------------------------------------------------------
\* Starting, loading and reloading work with what is recovered.
LEMMA LifecycleStep == ASSUME IInv, Start \/ Load \/ Reload PROVE StepOK
<1> USE DEF IInv
<1>1. /\ UNCHANGED <<disk, txn, committed, seen, clock, faults, req, outcome>>
      /\ pc \in {"down", "startPrune", "idle"} /\ pc' \in {"startPrune", "idle"}
      /\ \/ UNCHANGED <<live, executor>> /\ pc' = "startPrune"
         \/ live' = Recovered /\ executor' = Applied(Recovered)
  <2>1. pc = "idle" => live = Recovered
    BY SMT DEF CommitAt
  <2> QED
    BY <2>1, SMT DEF Start, Load, Reload, request, process
<1>2. Recovered' = Recovered /\ PointerResolves' /\ Files'
  BY <1>1, DiskUnchanged
<1>3. Recovered \in Version \cup {Nothing}
  BY RecoveredType, Zenon
<1>4. TypeOK'
  <2>1. Applied(Recovered) \in Executor
    BY <1>3, SMT DEF Applied, Executor, Version, Generation, Nothing
  <2> QED
    BY <1>1, <1>3, <2>1, SMT DEF TypeOK
<1>5. TxnAt'
  BY <1>1, SMT DEF TxnAt, Busy, Publishing, Committed, Following
<1>6. CommitAt'
  BY <1>1, <1>2, SMT DEF CommitAt, Busy, Publishing, Committed, Following
<1> QED
  BY <1>1, <1>2, <1>4, <1>5, <1>6, Zenon DEF StepOK, StepImplements, StepSighted

\* The end of the process loses the request and nothing else.
LEMMA CrashStep == ASSUME IInv, Crash PROVE StepOK
<1> USE DEF IInv
<1>1. /\ UNCHANGED <<disk, seen, clock, faults>>
      /\ pc' = "down" /\ live' = Nothing /\ executor' = NoExecutor /\ txn' = NoTxn
      /\ req' = Nothing /\ committed' = "no" /\ outcome' = "none"
  BY Zenon DEF Crash
<1>2. Recovered' = Recovered /\ PointerResolves' /\ Files'
  BY <1>1, DiskUnchanged
<1>3. TypeOK'
  <2>1. NoTxn \in Txn /\ NoExecutor \in Executor
    BY SMT DEF NoTxn, Txn, NoExecutor, Executor
  <2> QED
    BY <1>1, <2>1, SMT DEF TypeOK
<1>4. TxnAt' /\ CommitAt'
  BY <1>1, SMT DEF TxnAt, CommitAt, Busy, Publishing, Committed, Following
<1>5. Register!Lose
  BY <1>1, <1>2, Zenon DEF Register!Lose
<1> QED
  BY <1>2, <1>3, <1>4, <1>5, Zenon DEF StepOK, StepImplements, StepSighted, Register!Next

-----------------------------------------------------------------------------
\* A second attempt is about the same version.
LEMMA AttemptStep ==
    ASSUME TypeOK, txn' \in {txn, NextAttempt}
    PROVE  /\ txn' \in Txn /\ txn'.version = txn.version /\ txn'.base = txn.base
           /\ txn'.state = txn.state /\ txn'.changed = txn.changed
  BY SMT DEF TypeOK, NextAttempt, Txn

\* A generation file more does not change what is recovered.
LEMMA SaveGenerationStep == ASSUME IInv, SaveGeneration PROVE StepOK
<1> USE DEF IInv
<1> DEFINE g == txn.version.generation
           written == [disk EXCEPT !.gens = @ \cup {g}]
<1>1. /\ pc = "generation" /\ UNCHANGED <<committed, clock, req, outcome, live, executor, seen>>
      /\ disk' \in {disk, written} /\ pc' \in {"state", "generation", "look"}
      /\ pc' = "state" => disk' = written
      /\ txn' \in {txn, NextAttempt}
  BY SMT DEF SaveGeneration, Succeeds, Fails, AfterError, request, process
<1>2. g \in Generation /\ txn.version \in Version /\ req = txn.version /\ g.id < clock
      /\ \A h \in disk.gens : h.id = g.id => h = g
  BY <1>1, SMT DEF TxnAt, Busy, Publishing, Version
<1> HIDE DEF g
<1>3. /\ disk' \in Disk /\ disk'.states = disk.states /\ disk'.pointer = disk.pointer
      /\ disk'.mirror = disk.mirror /\ disk.gens \subseteq disk'.gens
      /\ disk'.gens \subseteq disk.gens \cup {g}
      /\ pc' = "state" => g \in disk'.gens
  BY <1>1, <1>2, SMT DEF Disk, TypeOK
<1> HIDE DEF written
<1>4. txn' \in Txn /\ txn'.version = txn.version /\ txn'.base = txn.base
  BY <1>1, AttemptStep
<1>5. faults' \in 0..MaxFaults
  BY FaultStep, Zenon DEF SaveGeneration, Succeeds, Fails
<1>6. TypeOK'
  BY <1>1, <1>3, <1>4, <1>5, SMT DEF TypeOK
<1>7. PointerResolves'
  BY <1>3, SMT DEF PointerResolves
<1>8. Files'
  <2>1. \A h \in disk'.gens : h.id < clock
    BY <1>2, <1>3, SMT DEF Files
  <2>2. \A h, k \in disk'.gens : h.id = k.id => h = k
    BY <1>2, <1>3, SMT DEF Files
  <2> QED
    BY <1>1, <1>3, <2>1, <2>2, SMT DEF Files
<1>9. Recovered' = Recovered
  <2>1. disk.pointer.gen = g.id => g \in disk.gens
    BY <1>2, SMT DEF PointerResolves, Generation, NoPointer
  <2>2. PointedGens(disk') = PointedGens(disk)
    BY <1>3, <2>1, SMT DEF PointedGens
  <2>3. PointedStates(disk') = PointedStates(disk)
    BY <1>3, SMT DEF PointedStates
  <2> QED
    BY <1>3, <2>2, <2>3, SameRecovered, Zenon DEF Recovered
<1>10. TxnAt'
  <2>1. \A h \in disk'.gens : h.id = g.id => h = g
    BY <1>2, <1>3, SMT
  <2> QED
    BY <1>1, <1>2, <1>3, <1>4, <2>1, SMT
       DEF TxnAt, Busy, Publishing, Committed, Following, g
<1>11. CommitAt'
  BY <1>1, <1>4, <1>9, SMT DEF CommitAt, Publishing, Committed, Following
<1> QED
  BY <1>1, <1>6, <1>7, <1>8, <1>9, <1>10, <1>11, Zenon
     DEF StepOK, StepImplements, StepSighted

\* Nor does a state file that no pointer names yet.
LEMMA SaveStateStep == ASSUME IInv, SaveState PROVE StepOK
<1> USE DEF IInv
<1> DEFINE g == txn.version.generation
           s == [id |-> clock, gen |-> g.id, bind |-> txn.version.bind]
           written == [disk EXCEPT !.states = @ \cup {s}]
<1>1. /\ pc = "state" /\ UNCHANGED <<committed, req, outcome, live, executor, seen>>
      /\ clock' = clock + 1
      /\ disk' \in {disk, written} /\ pc' \in {"pointer", "generation", "look"}
      /\ pc' = "pointer" => disk' = written /\ txn' = [txn EXCEPT !.state = clock]
      /\ pc' # "pointer" => txn' = NextAttempt
  BY SMT DEF SaveState, Succeeds, Fails, AfterError, request, process
<1>2. /\ g \in disk.gens /\ g \in Generation /\ txn.version \in Version
      /\ txn.version.bind \in Bindings /\ req = txn.version /\ g.id < clock
      /\ \A h \in disk.gens : h.id = g.id => h = g
      /\ clock \in Nat \ {0}
  BY <1>1, SMT DEF TxnAt, Busy, Publishing, Version, TypeOK
<1> HIDE DEF g
<1>3. s \in State /\ s.id = clock /\ s.gen = g.id
  BY <1>2, SMT DEF State, Generation
<1> HIDE DEF s
<1>4. /\ disk' \in Disk /\ disk'.gens = disk.gens /\ disk'.pointer = disk.pointer
      /\ disk'.mirror = disk.mirror /\ disk.states \subseteq disk'.states
      /\ disk'.states \subseteq disk.states \cup {s}
      /\ pc' = "pointer" => s \in disk'.states
  BY <1>1, <1>3, SMT DEF Disk, TypeOK
<1> HIDE DEF written
<1>5. /\ txn' \in Txn /\ txn'.version = txn.version /\ txn'.base = txn.base
      /\ pc' = "pointer" => txn'.state = clock
  <2>1. CASE pc' = "pointer"
    BY <1>1, <1>2, <2>1, SMT DEF Txn, TypeOK
  <2>2. CASE pc' # "pointer"
    BY <1>1, <2>2, AttemptStep, SMT
  <2> QED
    BY <2>1, <2>2
<1>6. faults' \in 0..MaxFaults
  BY FaultStep, Zenon DEF SaveState, Succeeds, Fails
<1>7. TypeOK'
  BY <1>1, <1>2, <1>4, <1>5, <1>6, SMT DEF TypeOK
<1>8. PointerResolves'
  <2>1. \A t \in disk'.states : \E h \in disk'.gens : h.id = t.gen
    BY <1>2, <1>3, <1>4, SMT DEF PointerResolves
  <2> QED
    BY <1>4, <2>1, SMT DEF PointerResolves
<1>9. Files'
  <2>1. \A t \in disk'.states : t.id < clock'
    BY <1>1, <1>2, <1>3, <1>4, SMT DEF Files, TypeOK, Disk, State
  <2>2. \A t, u \in disk'.states : t.id = u.id => t = u
    BY <1>2, <1>3, <1>4, SMT DEF Files, TypeOK, Disk, State
  <2>3. \A h \in disk'.gens : h.id < clock'
    BY <1>1, <1>2, <1>4, SMT DEF Files, TypeOK, Disk, Generation
  <2> QED
    BY <1>4, <2>1, <2>2, <2>3, SMT DEF Files
<1>10. Recovered' = Recovered
  <2>1. disk.pointer.state # clock
    BY <1>2, SMT DEF PointerResolves, Files, NoPointer, TypeOK, Disk, State
  <2>2. PointedStates(disk') = PointedStates(disk)
    BY <1>3, <1>4, <2>1, SMT DEF PointedStates
  <2>3. PointedGens(disk') = PointedGens(disk)
    BY <1>4, SMT DEF PointedGens
  <2> QED
    BY <1>4, <2>2, <2>3, SameRecovered, Zenon DEF Recovered
<1>11. TxnAt'
  <2>1. g.id < clock'
    BY <1>1, <1>2, SMT DEF Generation
  <2> QED
    BY <1>1, <1>2, <1>4, <1>5, <2>1, SMT
       DEF TxnAt, Busy, Publishing, Committed, Following, g, s
<1>12. CommitAt'
  BY <1>1, <1>5, <1>10, SMT DEF CommitAt, Publishing, Committed, Following
<1> QED
  BY <1>1, <1>7, <1>8, <1>9, <1>10, <1>11, <1>12, Zenon
     DEF StepOK, StepImplements, StepSighted

\* The commit point: the pointer leads to what was requested, or is unchanged.
LEMMA SwitchPointerStep == ASSUME IInv, SwitchPointer PROVE StepOK
<1> USE DEF IInv
<1> DEFINE g == txn.version.generation
           s == [id |-> txn.state, gen |-> g.id, bind |-> txn.version.bind]
           switched == [disk EXCEPT !.pointer = [gen |-> g.id, state |-> txn.state]]
<1>1. /\ pc = "pointer" /\ UNCHANGED <<clock, req, outcome, live, executor, seen>>
      /\ disk' \in {disk, switched} /\ pc' \in {"mirror", "generation", "look"}
      /\ pc' = "mirror" => disk' = switched
      /\ txn' \in {txn, NextAttempt}
      /\ committed' = IF disk' = switched THEN "yes" ELSE committed
  BY SMT DEF SwitchPointer, Succeeds, Fails, AfterError, request, process
<1>2. /\ g \in disk.gens /\ s \in disk.states /\ req = txn.version
      /\ txn.version \in Version /\ txn.state \in Nat
  BY <1>1, SMT DEF TxnAt, Busy, Publishing, TypeOK, Txn
<1>3. g \in Generation /\ txn.version = [generation |-> g, bind |-> txn.version.bind]
  BY <1>2, SMT DEF Version
<1>4. txn' \in Txn /\ txn'.version = txn.version /\ txn'.base = txn.base
  BY <1>1, AttemptStep
<1>5. faults' \in 0..MaxFaults
  BY FaultStep, Zenon DEF SwitchPointer, Succeeds, Fails
<1> HIDE DEF g
<1>6. /\ switched \in Disk /\ switched.gens = disk.gens /\ switched.states = disk.states
      /\ switched.pointer = [gen |-> g.id, state |-> txn.state]
      /\ switched.mirror = disk.mirror
  BY <1>2, <1>3, SMT DEF Disk, TypeOK, Generation
<1>7. s.id = txn.state /\ s.gen = g.id /\ s.bind = txn.version.bind
  OBVIOUS
<1>8. g.id # 0
  BY <1>3, SMT DEF Generation
<1> HIDE DEF s, switched
<1>9. RecoveredFrom(switched) = txn.version
  <2>1. switched.pointer.gen = g.id /\ switched.pointer.state = s.id
    BY <1>6, <1>7, SMT
  <2>2. RecoveredFrom(switched) = [generation |-> g, bind |-> s.bind]
    <3>1. \A h \in switched.gens : h.id = g.id => h = g
      BY <1>2, <1>6, Zenon DEF Files
    <3>2. \A t \in switched.states : t.id = s.id => t = s
      BY <1>2, <1>6, Zenon DEF Files
    <3>3. g \in switched.gens /\ s \in switched.states
      BY <1>2, <1>6, Zenon
    <3> HIDE DEF IInv
    <3> QED
      BY <1>7, <1>8, <2>1, <3>1, <3>2, <3>3, FromPointer, Zenon
  <2> QED
    BY <1>3, <1>7, <2>2, Zenon
<1>10. CASE disk' = switched
  <2>1. Recovered' = txn.version
    BY <1>9, <1>10, Zenon DEF Recovered
  <2>2. committed' = "yes"
    BY <1>1, <1>10, Zenon
  <2>3. TypeOK'
    BY <1>1, <1>4, <1>5, <1>6, <1>10, <2>2, SMT DEF TypeOK
  <2>4. PointerResolves'
    BY <1>2, <1>6, <1>7, <1>10, SMT DEF PointerResolves
  <2>5. Files'
    <3>1. disk'.pointer # NoPointer
      BY <1>6, <1>8, <1>10, SMT DEF NoPointer
    <3> QED
      BY <1>1, <1>6, <1>10, <3>1, SMT DEF Files
  <2>6. TxnAt'
    BY <1>1, <1>4, <1>6, <1>10, SMT DEF TxnAt, Busy, Publishing, Committed, Following
  <2>7. CommitAt'
    BY <1>1, <1>4, <2>1, <2>2, SMT DEF CommitAt, Publishing, Committed, Following
  <2>8. committed = "no" \/ (committed = "yes" /\ Recovered = txn.version)
    BY SMT DEF TypeOK, CommitAt
  <2>9. StepSighted
    BY <1>1, <2>1, <2>8, SMT DEF StepSighted, CommitAt, Publishing
  <2>10. StepImplements
    <3>1. CASE committed = "yes"
      BY <1>1, <2>1, <2>2, <2>8, <3>1, SMT DEF StepImplements
    <3>2. CASE committed = "no"
      <4>1. req # Nothing
        BY <1>2, SMT DEF Version, Generation, Nothing
      <4>2. Register!Commit
        BY <1>1, <1>2, <2>1, <2>2, <3>2, <4>1, Zenon DEF Register!Commit
      <4> QED
        BY <4>2, Zenon DEF StepImplements, Register!Next
    <3> QED
      BY <2>8, <3>1, <3>2
  <2> QED
    BY <2>3, <2>4, <2>5, <2>6, <2>7, <2>9, <2>10, Zenon DEF StepOK
<1>11. CASE disk' = disk /\ disk' # switched
  <2>1. Recovered' = Recovered /\ PointerResolves' /\ Files'
    BY <1>1, <1>11, DiskUnchanged
  <2>2. committed' = committed /\ pc' # "mirror"
    BY <1>1, <1>11, Zenon
  <2>3. TypeOK'
    BY <1>1, <1>4, <1>5, <1>11, <2>2, SMT DEF TypeOK
  <2>4. TxnAt'
    BY <1>1, <1>4, <1>11, <2>2, SMT DEF TxnAt, Busy, Publishing, Committed, Following
  <2>5. CommitAt'
    BY <1>1, <1>4, <2>1, <2>2, SMT DEF CommitAt, Publishing, Committed, Following
  <2> QED
    BY <1>1, <2>1, <2>2, <2>3, <2>4, <2>5, Zenon DEF StepOK, StepImplements, StepSighted
<1> QED
  BY <1>1, <1>10, <1>11

\* The mirror does not matter once there is a pointer.
LEMMA SaveMirrorStep == ASSUME IInv, SaveMirror PROVE StepOK
<1> USE DEF IInv
<1> DEFINE written == [disk EXCEPT !.mirror = txn.version.bind]
<1>1. /\ pc = "mirror" /\ pc' = "prune" /\ disk' \in {disk, written}
      /\ UNCHANGED <<txn, committed, clock, req, outcome, live, executor, seen>>
  BY SMT DEF SaveMirror, Succeeds, Fails, request, process
<1>2. txn.version.bind \in Bindings
  BY <1>1, SMT DEF TxnAt, Busy, Committed, Version
<1>3. /\ disk' \in Disk /\ disk'.gens = disk.gens /\ disk'.states = disk.states
      /\ disk'.pointer = disk.pointer
  BY <1>1, <1>2, SMT DEF Disk, TypeOK
<1> HIDE DEF written
<1>4. faults' \in 0..MaxFaults
  BY FaultStep, Zenon DEF SaveMirror, Succeeds, Fails
<1>5. disk.pointer # NoPointer
  <2>1. Recovered # Nothing
    BY <1>1, SMT DEF CommitAt, TxnAt, Busy, Committed, Version, Generation, Nothing
  <2>2. disk.gens \subseteq Generation
    BY SMT DEF TypeOK, Disk
  <2> QED
    BY <2>1, <2>2, FromNothing, Zenon DEF Files, Recovered
<1>6. Recovered' = Recovered
  <2>1. PointedGens(disk') = PointedGens(disk) /\ PointedStates(disk') = PointedStates(disk)
    BY <1>3, SMT DEF PointedGens, PointedStates
  <2> QED
    BY <1>3, <1>5, <2>1, SameRecovered, Zenon DEF Recovered
<1>7. TypeOK'
  BY <1>1, <1>3, <1>4, SMT DEF TypeOK
<1>8. PointerResolves' /\ Files'
  BY <1>1, <1>3, <1>5, SMT DEF PointerResolves, Files
<1>9. TxnAt'
  BY <1>1, <1>3, SMT DEF TxnAt, Busy, Publishing, Committed, Following
<1>10. CommitAt'
  BY <1>1, <1>6, SMT DEF CommitAt, Publishing, Committed, Following
<1> QED
  BY <1>1, <1>6, <1>7, <1>8, <1>9, <1>10, Zenon DEF StepOK, StepImplements, StepSighted

-----------------------------------------------------------------------------
\* What pruning removes is neither pointed to nor referred to by a kept state.
LEMMA PruneSafe ==
    ASSUME IInv, NEW pruned \in PrunedDisks
    PROVE  /\ pruned \in Disk
           /\ pruned.pointer = disk.pointer /\ pruned.mirror = disk.mirror
           /\ pruned.gens \subseteq disk.gens /\ pruned.states \subseteq disk.states
           /\ \A s \in disk.states : s.id = disk.pointer.state => s \in pruned.states
           /\ \A g \in disk.gens : g.id = disk.pointer.gen => g \in pruned.gens
           /\ \A s \in pruned.states, g \in disk.gens : g.id = s.gen => g \in pruned.gens
<1>1. disk \in Disk
  BY Zenon DEF IInv, TypeOK
<1>2. CASE KeptStates # disk.states
  <2>1. PICK s \in disk.states \ KeptStates : pruned = [disk EXCEPT !.states = @ \ {s}]
    BY <1>2, Zenon DEF PrunedDisks
  <2>2. s.id # disk.pointer.state
    BY <2>1, Zenon DEF KeptStates
  <2> QED
    BY <1>1, <2>1, <2>2, SMT DEF Disk
<1>3. CASE KeptStates = disk.states
  <2>1. PICK g \in disk.gens \ KeptGenerations : pruned = [disk EXCEPT !.gens = @ \ {g}]
    BY <1>3, Zenon DEF PrunedDisks
  <2>2. g.id \notin Referred
    BY <2>1, Zenon DEF KeptGenerations
  <2>3. g.id # disk.pointer.gen /\ \A s \in disk.states : g.id # s.gen
    BY <1>3, <2>2, Zenon DEF Referred
  <2> QED
    BY <1>1, <2>1, <2>3, SMT DEF Disk
<1> QED
  BY <1>2, <1>3

\* Removing one file of the history changes nothing that is recovered.
LEMMA PruneStep == ASSUME IInv, Prune PROVE StepOK
<1> USE DEF IInv
<1>1. PICK pruned \in PrunedDisks : Succeeds(pruned, pc)
         \/ Fails("prune", pruned, IF pc = "prune" THEN "activate" ELSE "down")
  BY Zenon DEF Prune
<1>2. /\ UNCHANGED <<txn, committed, clock, req, outcome, live, executor, seen>>
      /\ disk' \in {disk, pruned}
      /\ \/ pc = "prune" /\ pc' \in {"prune", "activate"}
         \/ pc = "startPrune" /\ pc' \in {"startPrune", "down"}
  BY <1>1, SMT DEF Prune, Succeeds, Fails, request, process
<1>3. faults' \in 0..MaxFaults
  BY <1>1, FaultStep, Zenon DEF Succeeds, Fails
<1>4. /\ disk' \in Disk
      /\ disk'.pointer = disk.pointer /\ disk'.mirror = disk.mirror
      /\ disk'.gens \subseteq disk.gens /\ disk'.states \subseteq disk.states
      /\ \A s \in disk.states : s.id = disk.pointer.state => s \in disk'.states
      /\ \A g \in disk.gens : g.id = disk.pointer.gen => g \in disk'.gens
      /\ \A s \in disk'.states, g \in disk.gens : g.id = s.gen => g \in disk'.gens
  <2>1. CASE disk' = pruned
    BY <2>1, PruneSafe, Zenon
  <2>2. CASE disk' = disk
    BY <2>2, SMT DEF TypeOK
  <2> QED
    BY <1>2, <2>1, <2>2
<1>5. Recovered' = Recovered
  <2>1. PointedGens(disk') = PointedGens(disk)
    BY <1>4, SMT DEF PointedGens
  <2>2. PointedStates(disk') = PointedStates(disk)
    BY <1>4, SMT DEF PointedStates
  <2> QED
    BY <1>4, <2>1, <2>2, SameRecovered, Zenon DEF Recovered
<1>6. TypeOK'
  BY <1>2, <1>3, <1>4, SMT DEF TypeOK
<1>7. PointerResolves'
  BY <1>4, SMT DEF PointerResolves
<1>8. Files'
  BY <1>2, <1>4, SMT DEF Files
<1>9. TxnAt'
  BY <1>2, <1>4, SMT DEF TxnAt, Busy, Publishing, Committed, Following
<1>10. CommitAt'
  BY <1>2, <1>5, SMT DEF CommitAt, Busy, Publishing, Committed, Following
<1> QED
  BY <1>2, <1>5, <1>6, <1>7, <1>8, <1>9, <1>10, Zenon
     DEF StepOK, StepImplements, StepSighted

-----------------------------------------------------------------------------
\* Every step of the daemon is one of these.
LEMMA EveryStep == IInv /\ [Next]_vars => StepOK
<1> SUFFICES ASSUME IInv, [Next]_vars PROVE StepOK
  OBVIOUS
<1>1. CASE \E e \in Entries, b \in Bindings :
              Refresh(e, b) \/ \E c \in Clients : ReconcileSource(c, e, b)
  <2>1. PICK e \in Entries, b \in Bindings :
           Refresh(e, b) \/ \E c \in Clients : ReconcileSource(c, e, b)
    BY <1>1
  <2>2. CASE Refresh(e, b)
    BY <2>2, SubmitStep, Zenon DEF Refresh
  <2>3. CASE \E c \in Clients : ReconcileSource(c, e, b)
    BY <2>3, RequestStep, Zenon
  <2> QED
    BY <2>1, <2>2, <2>3
<1>2. CASE \E c \in Clients, e \in Entries : Preview(c, e)
  BY <1>2, PreviewStep, Zenon
<1>3. CASE Refuse
  BY <1>3, RefuseStep
<1>4. CASE Publish
  BY <1>4, SaveGenerationStep, SaveStateStep, SwitchPointerStep, SaveMirrorStep, PruneStep,
     PrunedStep, LookStep, Zenon DEF Publish
<1>5. CASE Follow
  BY <1>5, ActivateStep, ReconcileExecutorStep, ScheduleStep, QuiesceStep, Zenon DEF Follow
<1>6. CASE Start \/ Load \/ Reload
  BY <1>6, LifecycleStep
<1>7. CASE Crash
  BY <1>7, CrashStep
<1>8. CASE UNCHANGED vars
  <2>1. UNCHANGED <<disk, live, executor, pc, txn, req, committed, outcome, seen, clock, faults>>
    BY <1>8, Zenon DEF vars
  <2>2. Recovered' = Recovered /\ PointerResolves' /\ Files'
    BY <2>1, DiskUnchanged DEF IInv
  <2>3. TypeOK' /\ TxnAt' /\ CommitAt'
    BY <2>1, <2>2, SMT DEF IInv, TypeOK, TxnAt, CommitAt
  <2> QED
    BY <2>1, <2>2, <2>3, Zenon DEF IInv, StepOK, StepImplements, StepSighted
<1> QED
  BY <1>1, <1>2, <1>3, <1>4, <1>5, <1>6, <1>7, <1>8, Zenon DEF Next

\* The invariant holds in every reachable state.
LEMMA Invariance == Spec => []IInv
<1>1. IInv /\ [Next]_vars => IInv'
  BY EveryStep DEF StepOK
<1> QED
  BY <1>1, Initially, PTL DEF Spec

-----------------------------------------------------------------------------
\* The executor: while it is ready it is behind the live generation only between
\* activation and the answer, and a generation that is kept needs no update.
ExecutorAt ==
    /\ executor.ready = "yes" =>
          /\ executor.started = "yes"
          /\ pc \notin Following => executor.sched = live.generation.id
    /\ pc \in Publishing \cup Committed /\ txn.changed = "no" =>
          txn.version.generation = live.generation

\* Publication leaves the executor and the live generation alone.
LEMMA ExecutorPublish == ASSUME IInv, ExecutorAt, Publish PROVE ExecutorAt'
<1>1. UNCHANGED <<live, executor>>
  BY Zenon DEF Publish, SaveGeneration, SaveState, SwitchPointer, SaveMirror, Prune, Pruned,
     Look, process
<1>2. pc \notin Following /\ pc' \notin Following
      /\ (pc' \in Publishing \cup Committed => pc \in Publishing \cup Committed)
  BY SMT DEF Publish, SaveGeneration, SaveState, SwitchPointer, SaveMirror, Prune, Pruned,
     Look, Succeeds, Fails, AfterError, Answer, Following, Publishing, Committed
<1>3. pc' # "idle" => txn'.version = txn.version /\ txn'.changed = txn.changed
  <2>1. pc' # "idle" =>
           txn' \in {txn, NextAttempt} \/ txn' = [txn EXCEPT !.state = clock]
    BY Zenon DEF Publish, SaveGeneration, SaveState, SwitchPointer, SaveMirror, Prune, Pruned,
       Look, Answer
  <2>2. txn' = [txn EXCEPT !.state = clock] =>
           txn'.version = txn.version /\ txn'.changed = txn.changed
    BY SMT DEF IInv, TypeOK, Txn
  <2> QED
    BY <2>1, <2>2, AttemptStep, Zenon DEF IInv
<1> QED
  BY <1>1, <1>2, <1>3, SMT DEF ExecutorAt, Publishing, Committed, Following

\* The executor follows, or readiness is withdrawn.
LEMMA ExecutorFollow == ASSUME IInv, ExecutorAt, Follow PROVE ExecutorAt'
<1>1. CASE Activate
  BY <1>1, SMT DEF Activate, Answer, ExecutorAt, Publishing, Committed, Following
<1>2. CASE ReconcileExecutor
  BY <1>2, SMT DEF ReconcileExecutor, process, ExecutorAt, Publishing, Committed, Following
<1>3. CASE Schedule
  BY <1>3, SMT DEF Schedule, Answer, ExecutorAt, Publishing, Committed, Following, IInv,
     TypeOK, Executor
<1>4. CASE Quiesce
  BY <1>4, SMT DEF Quiesce, Answer, ExecutorAt, Publishing, Committed, Following, IInv,
     TypeOK, Executor
<1> QED
  BY <1>1, <1>2, <1>3, <1>4, Zenon DEF Follow

\* Every step keeps the executor as described.
LEMMA ExecutorStep == IInv /\ ExecutorAt /\ [Next]_vars => ExecutorAt'
<1> SUFFICES ASSUME IInv, ExecutorAt, [Next]_vars PROVE ExecutorAt'
  OBVIOUS
<1>1. ASSUME NEW base, NEW e \in Entries, NEW b \in Bindings, pc = "idle", Submit(base, e, b)
      PROVE  ExecutorAt'
  <2>1. UNCHANGED <<live, executor>> /\ pc' = "generation"
    BY <1>1, Zenon DEF Submit
  <2>2. txn'.changed = "no" => txn'.version.generation = live.generation
    BY <1>1, SMT DEF Submit
  <2> QED
    BY <1>1, <2>1, <2>2, SMT DEF ExecutorAt, Publishing, Committed, Following
<1>2. CASE \E e \in Entries, b \in Bindings :
              Refresh(e, b) \/ \E c \in Clients : ReconcileSource(c, e, b)
  BY <1>1, <1>2, Zenon DEF Refresh, ReconcileSource
<1>3. CASE (\E c \in Clients, e \in Entries : Preview(c, e)) \/ Refuse
  BY <1>3, SMT DEF Preview, Refuse, ExecutorAt, Publishing, Committed, Following
<1>4. CASE Publish
  BY <1>4, ExecutorPublish
<1>5. CASE Follow
  BY <1>5, ExecutorFollow
<1>6. CASE Start \/ Load \/ Reload
  BY <1>6, SMT DEF Start, Load, Reload, Applied, process, ExecutorAt, Publishing, Committed,
     Following
<1>7. CASE Crash
  BY <1>7, SMT DEF Crash, NoExecutor, ExecutorAt, Publishing, Committed, Following
<1>8. CASE UNCHANGED vars
  BY <1>8, SMT DEF vars, ExecutorAt
<1> QED
  BY <1>2, <1>3, <1>4, <1>5, <1>6, <1>7, <1>8, Zenon DEF Next

-----------------------------------------------------------------------------
\* Every variable keeps its type, for any retention and any number of failures.
THEOREM TypeCorrect == Spec => []TypeOK
  BY Invariance, PTL DEF IInv

\* Pruning, failed writes and crashes never leave the pointer, or a state file,
\* without the files it names.
THEOREM PointerResolvesCorrect == Spec => []PointerResolves
  BY Invariance, PTL DEF IInv

\* Between two requests the daemon works with exactly what start() would recover.
THEOREM LiveIsDurableCorrect == Spec => []LiveIsDurable
<1>1. IInv => LiveIsDurable
  BY DEF IInv, CommitAt, LiveIsDurable
<1> QED
  BY <1>1, Invariance, PTL

\* A daemon that reports ready has a started scheduler with the accepted generation.
THEOREM ReadyMeansScheduledCorrect == Spec => []ReadyMeansScheduled
<1>1. Init => ExecutorAt
  BY SMT DEF Init, NoExecutor, ExecutorAt, Publishing, Committed
<1>2. ExecutorAt => ReadyMeansScheduled
  BY SMT DEF ExecutorAt, ReadyMeansScheduled, Following
<1> QED
  BY <1>1, <1>2, ExecutorStep, Invariance, PTL DEF Spec

\* No publication replaces a state its author has not seen.
THEOREM NoBlindPublicationCorrect == Spec => NoBlindPublication
<1>1. IInv /\ [Next]_vars => [Recovered' # Recovered => Recovered = txn.base]_vars
  BY EveryStep DEF StepOK, StepSighted
<1> QED
  BY <1>1, Invariance, PTL DEF Spec, NoBlindPublication

\* The generation, state and pointer files implement the register: recovery sees
\* the complete old or the complete new state, and "ok" is never said of another.
THEOREM Refinement == Spec => RefinesRegister
<1>1. IInv /\ [Next]_vars => [Register!Next]_<<Recovered, req, committed, outcome>>
  BY EveryStep DEF StepOK, StepImplements
<1> QED
  BY <1>1, Initially, Invariance, PTL DEF Spec, RefinesRegister, Register!Spec, Register!rvars
=============================================================================
