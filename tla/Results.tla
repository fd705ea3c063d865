------------------------------- MODULE Results -------------------------------
(***************************************************************************)
(* The results of checks: how execute() and _scheduler_error() publish     *)
(* them in memory and save them, what a refresh, a reload and a restart    *)
(* drop, prune and load, and what _check_public() shows.                   *)
(*                                                                         *)
(* A check has a generation, the hash of what it probes, and the           *)
(* configuration a revision.  A result remembers both, and the process     *)
(* that made it, which the code does not: it only keeps the set of results *)
(* that it has loaded.  A run and a save in a thread take time, in which   *)
(* the inventory may be replaced; a save fails with or without effect.     *)
(*                                                                         *)
(* The scheduler is in module Scheduler: here it runs a check at most once *)
(* at a time, of the generation it was given last, and reports overlaps.   *)
(* What a run measures is in module Checker, the age of a result is not    *)
(* modelled.                                                               *)
(***************************************************************************)
EXTENDS Naturals

CONSTANTS
    Checks,     \* check IDs
    Gens,       \* generations of a check
    Revs,       \* revisions of the configuration
    MaxBoots,   \* bound: processes that serve the data directory in turn
    Absent,     \* no such check
    NoResult

ASSUME AbsentAssumption == Absent \notin Gens
ASSUME BootsAssumption == MaxBoots \in Nat \ {0}

VARIABLES
    inventory,  \* the generation of each check, in memory
    revision,   \* the revision of the configuration, in memory
    jobs,       \* what the scheduler runs
    results,    \* results
    loaded,     \* _loaded_result_ids
    files,      \* the results directory
    runs,       \* the run of each check
    report,     \* the _scheduler_error() of each check
    change,     \* where a refresh or a reload is
    next,       \* what a reload is going to install
    boot        \* the process

vars == <<inventory, revision, jobs, results, loaded, files, runs, report, change, next, boot>>
memory == <<inventory, revision, jobs, results, loaded>>
mutator == <<change, next, boot>>

Inventories == [Checks -> Gens \cup {Absent}]
Nothing == [c \in Checks |-> Absent]
Result == [gen : Gens, rev : Revs, boot : 1..MaxBoots, kind : {"verdict", "error"}]
Idle == [pc |-> "idle"]
Task == {Idle} \cup [pc : {"run"}, gen : Gens, rev : Revs] \cup [pc : {"save"}, result : Result]

TypeOK ==
    /\ inventory \in Inventories /\ jobs \in Inventories
    /\ revision \in Revs
    /\ results \in [Checks -> Result \cup {NoResult}]
    /\ loaded \in SUBSET Checks
    /\ files \in [Checks -> Result \cup {NoResult}]
    /\ runs \in [Checks -> Task] /\ report \in [Checks -> Task]
    /\ change \in {"down", "none", "reconcile", "prune", "update", "drain", "applyPrune"}
    /\ next \in [inventory : Inventories, revision : Revs]
    /\ boot \in 1..MaxBoots

Init ==
    /\ inventory = Nothing /\ jobs = Nothing
    /\ revision \in Revs
    /\ results = [c \in Checks |-> NoResult] /\ loaded = {}
    /\ files = [c \in Checks |-> NoResult]
    /\ runs = [c \in Checks |-> Idle] /\ report = [c \in Checks |-> Idle]
    /\ change = "down" /\ next = [inventory |-> Nothing, revision |-> revision]
    /\ boot = 1

-----------------------------------------------------------------------------
Made(g, r, k) == [gen |-> g, rev |-> r, boot |-> boot, kind |-> k]
Saving(r) == [pc |-> "save", result |-> r]

\* The result of check c is of the generation and the revision in memory.
Current(c, r) == inventory[c] = r.gen /\ r.rev = revision

Publish(c, r) ==
    /\ results' = [results EXCEPT ![c] = r]
    /\ loaded' = loaded \ {c}

\* _execute_scheduled(): the scheduler's generation is still that of the
\* inventory, and execute() notes the revision; if it is not, nothing happens
\* here, and _scheduler_error() looks at the same.
Execute(c) ==
    /\ runs[c] = Idle /\ jobs[c] # Absent /\ change # "drain"
    /\ inventory[c] = jobs[c]
    /\ runs' = [runs EXCEPT ![c] = [pc |-> "run", gen |-> inventory[c], rev |-> revision]]
    /\ UNCHANGED <<memory, files, report, mutator>>

\* Mutant: a result is published without a look at what is current.
CompleteBlind(c, k) ==
    /\ runs[c].pc = "run"
    /\ LET r == Made(runs[c].gen, runs[c].rev, k) IN
          Publish(c, r) /\ runs' = [runs EXCEPT ![c] = Saving(r)]
    /\ UNCHANGED <<inventory, revision, jobs, files, report, mutator>>

\* execute(): the run has a verdict or an error, which is published when it is
\* current, and saved by a thread; otherwise it is dropped.
Complete(c, k) ==
    /\ runs[c].pc = "run"
    /\ LET r == Made(runs[c].gen, runs[c].rev, k) IN
          \/ Current(c, r) /\ Publish(c, r) /\ runs' = [runs EXCEPT ![c] = Saving(r)]
          \/ ~Current(c, r) /\ runs' = [runs EXCEPT ![c] = Idle] /\ UNCHANGED <<results, loaded>>
    /\ UNCHANGED <<inventory, revision, jobs, files, report, mutator>>

Write(c, r) == files' = [files EXCEPT ![c] = r]

Saved(c) ==
    /\ runs[c].pc = "save"
    /\ Write(c, runs[c].result)
    /\ runs' = [runs EXCEPT ![c] = Idle]
    /\ UNCHANGED <<memory, report, mutator>>

\* The save raises, before or after the file was renamed: an error of the same
\* generation takes the place of the result, whatever is there by now.
SaveFailed(c) ==
    /\ runs[c].pc = "save"
    /\ Write(c, runs[c].result) \/ UNCHANGED files
    /\ results' = [results EXCEPT ![c] = [runs[c].result EXCEPT !.kind = "error"]]
    /\ runs' = [runs EXCEPT ![c] = Idle]
    /\ UNCHANGED <<inventory, revision, jobs, loaded, report, mutator>>

\* _scheduler_error(): an overlap, a full queue or a failed run of what the
\* scheduler has is published as an error when it is of the current generation.
SchedulerError(c) ==
    /\ report[c] = Idle /\ jobs[c] # Absent /\ change # "drain"
    /\ inventory[c] = jobs[c]
    /\ LET r == Made(jobs[c], revision, "error") IN
          Publish(c, r) /\ report' = [report EXCEPT ![c] = Saving(r)]
    /\ UNCHANGED <<inventory, revision, jobs, files, runs, mutator>>

ReportSaved(c) ==
    /\ report[c].pc = "save"
    /\ Write(c, report[c].result) \/ UNCHANGED files
    /\ report' = [report EXCEPT ![c] = Idle]
    /\ UNCHANGED <<memory, runs, mutator>>

-----------------------------------------------------------------------------
\* A refresh commits: the inventory is replaced, and the pool follows, while
\* checks of the old one still run.
Refresh ==
    /\ change = "none"
    /\ \E inv \in Inventories \ {inventory} : inventory' = inv
    /\ change' = "reconcile"
    /\ UNCHANGED <<revision, jobs, results, loaded, files, runs, report, next, boot>>

\* _drop_obsolete_results(): what is kept of the results in memory
Kept(inv, rev) ==
    {c \in Checks : results[c] # NoResult /\ results[c].gen = inv[c] /\ results[c].rev = rev}

Drop(inv, rev) ==
    /\ results' = [c \in Checks |-> IF c \in Kept(inv, rev) THEN results[c] ELSE NoResult]
    /\ loaded' = loaded \cap Kept(inv, rev)

DropObsolete ==
    /\ change = "reconcile"
    /\ Drop(inventory, revision)
    /\ change' = "prune"
    /\ UNCHANGED <<inventory, revision, jobs, files, runs, report, next, boot>>

\* prune_results() in a thread removes the files of checks that are gone; it may
\* fail after some.  Then the scheduler follows.
Prune(then) ==
    /\ \E gone \in SUBSET {c \in Checks : inventory[c] = Absent} :
          files' = [c \in Checks |-> IF c \in gone THEN NoResult ELSE files[c]]
    /\ change' = then

PruneResults ==
    /\ change = "prune" /\ Prune("update")
    /\ UNCHANGED <<memory, runs, report, next, boot>>

UpdateScheduler ==
    /\ change = "update"
    /\ jobs' = inventory
    /\ change' = "none"
    /\ UNCHANGED <<inventory, revision, results, loaded, files, runs, report, next, boot>>

-----------------------------------------------------------------------------
\* A reload: the old scheduler is stopped.  Runs end, saves are waited for.
Reload ==
    /\ change = "none"
    /\ \E inv \in Inventories, rev \in Revs : next' = [inventory |-> inv, revision |-> rev]
    /\ change' = "drain"
    /\ runs' = [c \in Checks |-> IF runs[c].pc = "run" THEN Idle ELSE runs[c]]
    /\ UNCHANGED <<memory, files, report, boot>>

\* The new configuration and inventory are installed and obsolete results dropped.
Activate ==
    /\ change = "drain" /\ \A c \in Checks : runs[c] = Idle /\ report[c] = Idle
    /\ inventory' = next.inventory /\ revision' = next.revision /\ jobs' = Nothing
    /\ Drop(next.inventory, next.revision)
    /\ change' = "applyPrune"
    /\ UNCHANGED <<files, runs, report, next, boot>>

\* Files are pruned, and the new scheduler starts.
Activated ==
    /\ change = "applyPrune" /\ Prune("none")
    /\ jobs' = inventory
    /\ UNCHANGED <<inventory, revision, results, loaded, runs, report, next, boot>>

\* The process ends, in whatever it was; only the files stay.
Crash ==
    /\ change # "down" /\ boot < MaxBoots
    /\ inventory' = Nothing /\ jobs' = Nothing
    /\ results' = [c \in Checks |-> NoResult] /\ loaded' = {}
    /\ runs' = [c \in Checks |-> Idle] /\ report' = [c \in Checks |-> Idle]
    /\ change' = "down" /\ boot' = boot + 1
    /\ UNCHANGED <<revision, files, next>>

\* Mutant: what was loaded is not marked.
StartUnmarked ==
    /\ change = "down"
    /\ results' = files /\ loaded' = {}
    /\ \E inv \in Inventories, rev \in Revs : next' = [inventory |-> inv, revision |-> rev]
    /\ change' = "drain"
    /\ UNCHANGED <<inventory, revision, jobs, files, runs, report, boot>>

\* start(): _load_results_as_stale(), and the configuration is going to be applied.
Start ==
    /\ change = "down"
    /\ results' = files /\ loaded' = {c \in Checks : files[c] # NoResult}
    /\ \E inv \in Inventories, rev \in Revs : next' = [inventory |-> inv, revision |-> rev]
    /\ change' = "drain"
    /\ UNCHANGED <<inventory, revision, jobs, files, runs, report, boot>>

-----------------------------------------------------------------------------
Next ==
    \/ \E c \in Checks :
          \/ Execute(c) \/ Complete(c, "verdict") \/ Complete(c, "error")
          \/ Saved(c) \/ SaveFailed(c) \/ SchedulerError(c) \/ ReportSaved(c)
    \/ Refresh \/ DropObsolete \/ PruneResults \/ UpdateScheduler
    \/ Reload \/ Activate \/ Activated \/ Crash \/ Start

Spec == Init /\ [][Next]_vars

-----------------------------------------------------------------------------
\* _check_public(): what is shown of check c
Shown(c) ==
    IF inventory[c] = Absent \/ results[c] = NoResult THEN "unknown"
    ELSE IF ~Current(c, results[c]) THEN "unknown"
    ELSE IF c \in loaded THEN "stale"
    ELSE results[c].kind

\* What is shown as a fresh verdict was measured by this process, of what the
\* inventory has now, however often the inventory changed while the check ran
\* and its result was saved, and whatever an earlier process left behind.
FreshIsOurs ==
    \A c \in Checks : Shown(c) \in {"verdict", "error"} => results[c].boot = boot

\* Once a refresh has dropped obsolete results, memory holds no verdict of
\* another generation or revision: a run that was overtaken does not bring one
\* back.  (The error that SaveFailed stores may be of an old generation; it is
\* not shown.)
MemoryIsCurrent ==
    change \in {"none", "prune", "update", "applyPrune"} =>
        \A c \in Checks : results[c] # NoResult /\ results[c].kind = "verdict" =>
            Current(c, results[c])
=============================================================================
