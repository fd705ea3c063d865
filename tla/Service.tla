------------------------------- MODULE Service -------------------------------
(***************************************************************************)
(* The life of ProberService in one process: start() and stop(), the       *)
(* control server, _apply_config() with the exchange of the executor, the  *)
(* refresh loops, and the lock on the data directory.                      *)
(*                                                                         *)
(* _lifecycle_lock and _mutation_lock are FIFO queues.  start() applies    *)
(* the configuration under the first, reload_config() and replace_config() *)
(* under the second, and _stop_locked() takes the second within the first. *)
(* An executor is a scheduler with its pool and manager, and the refresh   *)
(* loops that are created with it.  Every await is a step; the caller of   *)
(* start() and the mutators may be cancelled at each, and the shielded     *)
(* part of _apply_config() remembers that (pend).                          *)
(*                                                                         *)
(* What is applied, fetched and published is the subject of                *)
(* ConfigTransaction and SourceState; here a mutator is a reload.          *)
(***************************************************************************)
EXTENDS Queues

CONSTANTS
    Starters,   \* tasks that call start()
    Stoppers,   \* tasks that call stop()
    Handlers,   \* connections of the control server
    Direct,     \* callers in the process itself, as the CLI without a daemon
    Executors,  \* executors that may exist at the same time
    StopTask,   \* _stop_once(), in the queue of the lifecycle lock
    Down,       \* _stop_locked(), in the queue of the mutation lock
    None

Mutators == Handlers \cup Direct
Agents == Starters \cup Mutators

ASSUME DistinctAssumption ==
    /\ Handlers \cap Direct = {} /\ Starters \cap Mutators = {}
    /\ StopTask \notin Agents
    /\ Executors \cap Agents = {} /\ Down \notin Executors \cup Agents
    /\ None \notin Executors

VARIABLES
    lifecycle,  \* _lifecycle_lock: who waits for it, its holder first
    mutation,   \* _mutation_lock
    stopping,   \* _stopping
    ready,      \* ready
    alive,      \* main_loop_alive
    dataLock,   \* who holds the lock file: nobody, this daemon or another process
    control,    \* the control server
    pc,         \* where each caller of start() and each mutator is
    cand,       \* the executor it is building
    old,        \* the executor it found installed
    pend,       \* the callers with a remembered cancellation
    exec,       \* the executors
    installed,  \* _scheduler, _pool and _manager
    refresh,    \* the refresh loop of each executor
    lost,       \* the refresh loops with a remembered cancellation
    listed,     \* _refresh_tasks
    down,       \* where _stop_locked() is
    stopTask,   \* _stop_task
    stopper     \* where each caller of stop() is

vars == <<lifecycle, mutation, stopping, ready, alive, dataLock, control, pc, cand, old,
          pend, exec, installed, refresh, lost, listed, down, stopTask, stopper>>

ApplySteps == {"build", "drain", "quiesce", "prune"}
StartSteps == {"out", "queued", "lock", "load", "control", "cleanup"} \cup ApplySteps
DownSteps == {"idle", "control", "handlers", "refresh", "drain", "queued", "again",
              "drainAgain", "teardown", "release"}

TypeOK ==
    /\ lifecycle \in Seq(Starters \cup {StopTask})
    /\ mutation \in Seq(Mutators \cup Executors \cup {Down})
    /\ stopping \in BOOLEAN /\ ready \in BOOLEAN /\ alive \in BOOLEAN
    /\ dataLock \in {"free", "daemon", "other"}
    /\ control \in {"none", "up", "closing"}
    /\ pc \in [Agents -> StartSteps]
    /\ cand \in [Agents -> Executors \cup {None}]
    /\ old \in [Agents -> Executors \cup {None}]
    /\ pend \in SUBSET Agents
    /\ exec \in [Executors -> {"none", "built", "running", "halted"}]
    /\ installed \in Executors \cup {None} /\ listed \in Executors \cup {None}
    /\ refresh \in [Executors -> {"none", "queued", "fetch", "commit", "sleep"}]
    /\ lost \in SUBSET Executors
    /\ down \in DownSteps
    /\ stopTask \in {"none", "created", "queued", "running"}
    /\ stopper \in [Stoppers -> {"out", "waiting"}]

Init ==
    /\ lifecycle = <<>> /\ mutation = <<>>
    /\ stopping = FALSE /\ ready = FALSE /\ alive = FALSE
    /\ dataLock = "free" /\ control = "none"
    /\ pc = [a \in Agents |-> "out"]
    /\ cand = [a \in Agents |-> None] /\ old = [a \in Agents |-> None]
    /\ pend = {}
    /\ exec = [e \in Executors |-> "none"] /\ installed = None
    /\ refresh = [e \in Executors |-> "none"] /\ lost = {} /\ listed = None
    /\ down = "idle" /\ stopTask = "none"
    /\ stopper = [s \in Stoppers |-> "out"]

flags == <<stopping, ready, alive>>
applying == <<cand, old>>
executor == <<exec, installed>>
loops == <<refresh, lost, listed>>
shutdown == <<down, stopTask, stopper>>

Goto(a, step) == pc' = [pc EXCEPT ![a] = step]

-----------------------------------------------------------------------------
\* start() raises: what it has begun is torn down by _stop_locked().
FailStart(a) ==
    /\ Goto(a, "cleanup")
    /\ stopping' = TRUE /\ ready' = FALSE /\ alive' = FALSE
    /\ pend' = pend \ {a}
    /\ down' = "control"

\* The lifecycle lock is acquired; a service that is up is left alone.
EnterStart(a, q) ==
    \/ /\ alive
       /\ Goto(a, "out") /\ lifecycle' = Tail(q)
       /\ UNCHANGED flags
    \/ /\ ~alive
       /\ Goto(a, "lock") /\ lifecycle' = q
       /\ stopping' = FALSE
       /\ UNCHANGED <<ready, alive>>

\* start(): a free lock is acquired at once.
Start(a) ==
    /\ pc[a] = "out"
    /\ \/ lifecycle = <<>> /\ EnterStart(a, <<a>>)
       \/ /\ lifecycle # <<>>
          /\ Goto(a, "queued") /\ lifecycle' = Append(lifecycle, a)
          /\ UNCHANGED flags
    /\ UNCHANGED <<mutation, dataLock, control, pend, applying, executor, loops, shutdown>>

StartEnter(a) ==
    /\ a \in Starters /\ pc[a] = "queued" /\ Holds(lifecycle, a)
    /\ EnterStart(a, lifecycle)
    /\ UNCHANGED <<mutation, dataLock, control, pend, applying, executor, loops, shutdown>>

\* The thread that takes the lock file has ended.  timeout=0: a lock that another
\* process or an earlier start() holds is not waited for; one that a cancelled
\* caller got is released.
StartLock(a) ==
    /\ pc[a] = "lock"
    /\ \/ /\ dataLock = "free" /\ a \notin pend
          /\ dataLock' = "daemon" /\ alive' = TRUE
          /\ Goto(a, "load")
          /\ UNCHANGED <<stopping, ready, pend, down>>
       \/ /\ dataLock # "free" \/ a \in pend
          /\ FailStart(a)
          /\ UNCHANGED dataLock
    /\ UNCHANGED <<lifecycle, mutation, control, applying, executor, loops, stopTask, stopper>>

\* Recovery, pruning and loading, with a look at _stopping after each; then the
\* configuration is applied, or there is none.
StartLoad(a) ==
    /\ pc[a] = "load"
    /\ \/ /\ ~stopping /\ a \notin pend
          /\ \E next \in {"build", "control"} : Goto(a, next)
          /\ UNCHANGED <<flags, pend, down>>
       \/ FailStart(a)
    /\ UNCHANGED <<lifecycle, mutation, dataLock, control, applying, executor, loops,
                   stopTask, stopper>>

\* _stopping is looked at, the control server starts (or fails to, or the caller
\* is cancelled when it is half up), _stopping is looked at again, and start()
\* returns.
StartControl(a) ==
    /\ pc[a] = "control"
    /\ \/ /\ ~stopping /\ a \notin pend
          /\ control' = "up"
          /\ Goto(a, "out") /\ lifecycle' = Tail(lifecycle)
          /\ UNCHANGED <<flags, pend, down>>
       \/ FailStart(a) /\ control' \in {control, "up"} /\ UNCHANGED lifecycle
    /\ UNCHANGED <<mutation, dataLock, applying, executor, loops, stopTask, stopper>>

-----------------------------------------------------------------------------
\* reload_config(), replace_config(): the lock is acquired and _stopping looked at
EnterMutate(a, q) ==
    \/ stopping /\ Goto(a, "out") /\ mutation' = Tail(q)
    \/ ~stopping /\ Goto(a, "build") /\ mutation' = q

\* A mutator calls: a connection while the server listens, a caller in the
\* process once its start() has returned.  A free lock is acquired at once.
Mutate(a) ==
    /\ pc[a] = "out"
    /\ \/ a \in Handlers /\ control = "up"
       \/ a \in Direct /\ dataLock = "daemon" /\ \A s \in Starters : pc[s] \in {"out", "queued"}
    /\ \/ mutation = <<>> /\ EnterMutate(a, <<a>>)
       \/ mutation # <<>> /\ Goto(a, "queued") /\ mutation' = Append(mutation, a)
    /\ UNCHANGED <<lifecycle, dataLock, control, pend, flags, applying, executor, loops, shutdown>>

MutateEnter(a) ==
    /\ a \in Mutators \ pend /\ pc[a] = "queued" /\ Holds(mutation, a)
    /\ EnterMutate(a, mutation)
    /\ UNCHANGED <<lifecycle, dataLock, control, pend, flags, applying, executor, loops, shutdown>>

\* A connection that waits for the lock and was cancelled by the shutdown leaves.
MutateCancelled(a) ==
    /\ a \in Mutators \cap pend /\ pc[a] = "queued"
    /\ Goto(a, "out") /\ mutation' = Without(mutation, a) /\ pend' = pend \ {a}
    /\ UNCHANGED <<lifecycle, dataLock, control, flags, applying, executor, loops, shutdown>>

\* What follows when _apply_config() is over: start() goes on, also when the
\* configuration was rejected, or fails when it was cancelled; a mutator answers.
AfterApply(a) ==
    /\ cand' = [cand EXCEPT ![a] = None] /\ old' = [old EXCEPT ![a] = None]
    /\ \/ /\ a \in Mutators
          /\ Goto(a, "out") /\ mutation' = Tail(mutation) /\ pend' = pend \ {a}
          /\ UNCHANGED <<stopping, alive, down>>
       \/ /\ a \in Starters \ pend
          /\ Goto(a, "control")
          /\ UNCHANGED <<mutation, pend, stopping, alive, down>>
       \/ /\ a \in Starters \cap pend
          /\ Goto(a, "cleanup") /\ pend' = pend \ {a}
          /\ stopping' = TRUE /\ alive' = FALSE /\ down' = "control"
          /\ UNCHANGED mutation

\* Compiling and building: the candidate exists from here on ...
ApplyBuild(a) ==
    /\ pc[a] = "build" /\ cand[a] = None
    /\ \E e \in Executors :
          /\ exec[e] = "none" /\ refresh[e] = "none"
          /\ exec' = [exec EXCEPT ![e] = "built"] /\ cand' = [cand EXCEPT ![a] = e]
    /\ UNCHANGED <<lifecycle, mutation, dataLock, control, pc, old, pend, flags, installed,
                   loops, shutdown>>

\* ... it fails its validation and is closed ...
ApplyReject(a) ==
    /\ pc[a] = "build" /\ cand[a] # None
    /\ exec' = [exec EXCEPT ![cand[a]] = "none"]
    /\ AfterApply(a)
    /\ ready' = IF a \in Starters \cap pend THEN FALSE ELSE ready
    /\ UNCHANGED <<lifecycle, dataLock, control, installed, loops, stopTask, stopper>>

\* Cancelling a refresh loop: waiting, fetching and sleeping end; a commit goes
\* on to its end and remembers.
CancelLoop(e) ==
    /\ refresh' = [refresh EXCEPT ![e] = IF @ = "commit" THEN @ ELSE "none"]
    /\ lost' = IF refresh[e] = "commit" THEN lost \cup {e} ELSE lost

\* ... or the exchange begins: not ready, the old refresh loops are cancelled.
ApplyQuiesce(a) ==
    /\ pc[a] = "build" /\ cand[a] # None /\ a \notin pend
    /\ Goto(a, "drain")
    /\ old' = [old EXCEPT ![a] = installed]
    /\ ready' = FALSE
    /\ \/ listed = None /\ UNCHANGED <<refresh, lost, mutation>>
       \/ /\ listed # None /\ CancelLoop(listed)
          /\ mutation' = IF refresh[listed] = "commit" THEN mutation
                         ELSE Without(mutation, listed)
    /\ UNCHANGED <<lifecycle, dataLock, control, pend, cand, stopping, alive, executor, listed,
                   shutdown>>

ApplyDrained(a) ==
    /\ pc[a] = "drain" /\ \A e \in Executors : e = listed => refresh[e] = "none"
    /\ Goto(a, "quiesce")
    /\ listed' = None
    /\ UNCHANGED <<lifecycle, mutation, dataLock, control, pend, flags, applying, executor,
                   refresh, lost, shutdown>>

\* Mutant: the candidate is installed before the old executor is closed.
ApplySwapEarly(a) ==
    /\ pc[a] = "quiesce"
    /\ installed' = cand[a]
    /\ Goto(a, "prune")
    /\ UNCHANGED <<lifecycle, mutation, dataLock, control, pend, flags, applying, exec, loops,
                   shutdown>>

\* The old scheduler is stopped, its pool closed, and the candidate installed.
ApplySwap(a) ==
    /\ pc[a] = "quiesce"
    /\ exec' = [e \in Executors |-> IF e = old[a] THEN "none" ELSE exec[e]]
    /\ installed' = cand[a]
    /\ Goto(a, "prune")
    /\ UNCHANGED <<lifecycle, mutation, dataLock, control, pend, flags, applying, loops, shutdown>>

\* The old pool fails to close: the candidate is discarded, the old executor,
\* whose workers are gone, stays installed.
ApplySwapFails(a) ==
    /\ pc[a] = "quiesce" /\ old[a] # None
    /\ exec' = [exec EXCEPT ![old[a]] = "halted", ![cand[a]] = "none"]
    /\ AfterApply(a)
    /\ UNCHANGED <<lifecycle, dataLock, control, ready, installed, loops, stopTask, stopper>>

\* Obsolete results are pruned (in a thread), the scheduler and the refresh loops
\* start.
ApplyActivate(a) ==
    /\ pc[a] = "prune"
    /\ exec' = [exec EXCEPT ![cand[a]] = "running"]
    /\ refresh' = [refresh EXCEPT ![cand[a]] = "sleep"] /\ listed' = cand[a]
    /\ AfterApply(a)
    /\ ready' = (~stopping /\ a \notin Starters \cap pend)
    /\ UNCHANGED <<lifecycle, dataLock, control, installed, lost, stopTask, stopper>>

\* Cancellation: a waiting call ends, a thread or the exchange goes on and
\* remembers; validation ends and the candidate is closed by ApplyReject.
CancelledNow(a) == pc[a] = "queued"
Cancel(a) ==
    /\ pc[a] \notin {"out", "cleanup"} /\ a \notin Handlers
    /\ \/ /\ CancelledNow(a)
          /\ Goto(a, "out")
          /\ lifecycle' = Without(lifecycle, a) /\ mutation' = Without(mutation, a)
          /\ UNCHANGED pend
       \/ /\ ~CancelledNow(a)
          /\ pend' = pend \cup {a} /\ UNCHANGED <<pc, lifecycle, mutation>>
    /\ UNCHANGED <<dataLock, control, flags, applying, executor, loops, shutdown>>

-----------------------------------------------------------------------------
\* The refresh loop of executor e: refresh_source() waits for the lock, ...
RefreshCall(e) ==
    /\ refresh[e] = "sleep"
    /\ refresh' = [refresh EXCEPT ![e] = "queued"] /\ mutation' = Append(mutation, e)
    /\ UNCHANGED <<lifecycle, dataLock, control, pc, pend, flags, applying, executor, lost, listed,
                   shutdown>>

\* ... raises during a shutdown, which ends the loop, or fetches, ...
RefreshEnter(e) ==
    /\ refresh[e] = "queued" /\ Holds(mutation, e)
    /\ \/ /\ stopping
          /\ refresh' = [refresh EXCEPT ![e] = "none"] /\ mutation' = Tail(mutation)
       \/ /\ ~stopping
          /\ refresh' = [refresh EXCEPT ![e] = "fetch"] /\ UNCHANGED mutation
    /\ UNCHANGED <<lifecycle, dataLock, control, pc, pend, flags, applying, executor, lost, listed,
                   shutdown>>

\* ... is rejected, or commits: the pointer is published and the executor follows;
\* when that fails the executor is halted and readiness withdrawn.  When the
\* publication fails, a remembered cancellation is lost and the loop goes on.
RefreshWork(e) ==
    /\ \/ /\ refresh[e] = "fetch"
          /\ \/ refresh' = [refresh EXCEPT ![e] = "sleep"] /\ mutation' = Tail(mutation)
             \/ refresh' = [refresh EXCEPT ![e] = "commit"] /\ UNCHANGED mutation
          /\ UNCHANGED <<lost, exec, ready>>
       \/ /\ refresh[e] = "commit"
          /\ mutation' = Tail(mutation) /\ lost' = lost \ {e}
          /\ \/ refresh' = [refresh EXCEPT ![e] = "sleep"] /\ UNCHANGED <<exec, ready>>
             \/ /\ refresh' = [refresh EXCEPT ![e] = IF e \in lost THEN "none" ELSE "sleep"]
                /\ \/ UNCHANGED <<exec, ready>>
                   \/ /\ installed # None /\ ready' = FALSE
                      /\ exec' = [exec EXCEPT ![installed] = "halted"]
    /\ UNCHANGED <<lifecycle, dataLock, control, pc, pend, stopping, alive, applying, installed,
                   listed, shutdown>>

-----------------------------------------------------------------------------
\* stop(): one task does it for all callers; it announces the shutdown, ...
Stop(s) ==
    /\ stopper[s] = "out"
    /\ stopper' = [stopper EXCEPT ![s] = "waiting"]
    /\ stopTask' = IF stopTask = "none" THEN "created" ELSE stopTask
    /\ UNCHANGED <<lifecycle, mutation, dataLock, control, pc, pend, flags, applying, executor,
                   loops, down>>

StopAnnounce ==
    /\ stopTask = "created"
    /\ stopTask' = "queued" /\ lifecycle' = Append(lifecycle, StopTask)
    /\ stopping' = TRUE /\ ready' = FALSE /\ alive' = FALSE
    /\ UNCHANGED <<mutation, dataLock, control, pc, pend, applying, executor, loops, down, stopper>>

\* ... and waits for the lifecycle lock.
StopEnter ==
    /\ stopTask = "queued" /\ Holds(lifecycle, StopTask)
    /\ stopTask' = "running" /\ down' = "control"
    /\ stopping' = TRUE /\ ready' = FALSE /\ alive' = FALSE
    /\ UNCHANGED <<lifecycle, mutation, dataLock, control, pc, pend, applying, executor, loops,
                   stopper>>

\* _stop_locked(): the server is closed and its handlers are cancelled, ...
DownControl ==
    /\ down = "control"
    /\ \/ /\ control = "none"
          /\ down' = "refresh"
          /\ UNCHANGED <<control, pend>>
       \/ /\ control = "up"
          /\ down' = "handlers" /\ control' = "closing"
          /\ pend' = pend \cup {a \in Handlers : pc[a] # "out"}
    /\ UNCHANGED <<lifecycle, mutation, dataLock, pc, flags, applying, executor, loops, stopTask, stopper>>

\* ... and waited for, ...
DownHandlers ==
    /\ down = "handlers" /\ \A a \in Handlers : pc[a] = "out"
    /\ down' = "refresh" /\ control' = "none"
    /\ UNCHANGED <<lifecycle, mutation, dataLock, pc, pend, flags, applying, executor, loops,
                   stopTask, stopper>>

\* ... the refresh loops are cancelled and waited for, ...
CancelLoops(next) ==
    /\ listed' = None /\ down' = next
    /\ \/ listed = None /\ UNCHANGED <<refresh, lost, mutation>>
       \/ /\ listed # None /\ CancelLoop(listed)
          /\ mutation' = IF refresh[listed] = "commit" THEN mutation
                         ELSE Without(mutation, listed)
    /\ UNCHANGED <<lifecycle, dataLock, control, pc, pend, flags, applying, executor, stopTask,
                   stopper>>

DownRefresh == down = "refresh" /\ CancelLoops("drain")

DownDrained ==
    /\ down = "drain" /\ \A e \in Executors : refresh[e] = "none"
    /\ down' = "queued" /\ mutation' = Append(mutation, Down)
    /\ UNCHANGED <<lifecycle, dataLock, control, pc, pend, flags, applying, executor, loops,
                   stopTask, stopper>>

\* Mutant: the loops that a mutator has started meanwhile are waited for, but not
\* cancelled, under the lock they need.
DownLockedWaits ==
    /\ down = "queued" /\ Holds(mutation, Down)
    /\ down' = "drainAgain" /\ listed' = None
    /\ UNCHANGED <<lifecycle, mutation, dataLock, control, pc, pend, flags, applying, executor,
                   refresh, lost, stopTask, stopper>>

\* Mutant: the loops that a mutator has started meanwhile are not cancelled.
DownLockedOnce ==
    /\ down = "queued" /\ Holds(mutation, Down)
    /\ down' = "teardown"
    /\ UNCHANGED <<lifecycle, mutation, dataLock, control, pc, pend, flags, applying, executor,
                   loops, stopTask, stopper>>

\* ... the mutation lock is taken and the loops a mutator has started meanwhile
\* are cancelled too, ...
DownLocked == down = "queued" /\ Holds(mutation, Down) /\ CancelLoops("drainAgain")

DownDrainedAgain ==
    /\ down = "drainAgain" /\ \A e \in Executors : refresh[e] = "none"
    /\ down' = "teardown"
    /\ UNCHANGED <<lifecycle, mutation, dataLock, control, pc, pend, flags, applying, executor,
                   loops, stopTask, stopper>>

\* ... the executor is stopped and closed, ...
DownTeardown ==
    /\ down = "teardown"
    /\ exec' = [e \in Executors |-> IF e = installed THEN "none" ELSE exec[e]]
    /\ installed' = None
    /\ down' = "release" /\ mutation' = Tail(mutation)
    /\ UNCHANGED <<lifecycle, dataLock, control, pc, pend, flags, applying, loops, stopTask,
                   stopper>>

\* ... and the lock file is released: stop() or the failed start() returns.
\* The thread takes longer than the mutators woken meanwhile need to leave.
DownRelease ==
    /\ down = "release" /\ \A a \in Mutators : pc[a] # "queued"
    /\ down' = "idle"
    /\ dataLock' = IF dataLock = "daemon" THEN "free" ELSE dataLock
    /\ lifecycle' = Tail(lifecycle)
    /\ \/ /\ Holds(lifecycle, StopTask)
          /\ stopTask' = "none" /\ stopper' = [s \in Stoppers |-> "out"]
          /\ UNCHANGED pc
       \/ /\ ~Holds(lifecycle, StopTask)
          /\ Goto(Head(lifecycle), "out")
          /\ UNCHANGED <<stopTask, stopper>>
    /\ UNCHANGED <<mutation, control, pend, flags, applying, executor, loops>>

\* Another process, a CLI without a daemon, takes the lock file and gives it back.
OtherProcess ==
    /\ \/ dataLock = "free" /\ dataLock' = "other"
       \/ dataLock = "other" /\ dataLock' = "free"
    /\ UNCHANGED <<lifecycle, mutation, control, pc, pend, flags, applying, executor, loops,
                   shutdown>>

-----------------------------------------------------------------------------
StartStep(a) == StartEnter(a) \/ StartLock(a) \/ StartLoad(a) \/ StartControl(a)
ApplyStep(a) ==
    \/ ApplyBuild(a) \/ ApplyReject(a) \/ ApplyQuiesce(a) \/ ApplyDrained(a)
    \/ ApplySwap(a) \/ ApplySwapFails(a) \/ ApplyActivate(a)
RefreshStep(e) == RefreshCall(e) \/ RefreshEnter(e) \/ RefreshWork(e)
DownStep ==
    \/ DownControl \/ DownHandlers \/ DownRefresh \/ DownDrained \/ DownLocked
    \/ DownDrainedAgain \/ DownTeardown \/ DownRelease

Next ==
    \/ \E a \in Starters : Start(a) \/ StartStep(a)
    \/ \E a \in Mutators : Mutate(a) \/ MutateEnter(a) \/ MutateCancelled(a)
    \/ \E a \in Agents : ApplyStep(a) \/ Cancel(a)
    \/ \E e \in Executors : RefreshStep(e)
    \/ \E s \in Stoppers : Stop(s)
    \/ StopAnnounce \/ StopEnter \/ DownStep \/ OtherProcess

Spec == Init /\ [][Next]_vars

\* Threads, fetches and child processes end; a sleep ends.
Fairness ==
    /\ \A a \in Starters : WF_vars(StartStep(a))
    /\ \A a \in Mutators : WF_vars(MutateEnter(a) \/ MutateCancelled(a))
    /\ \A a \in Agents : WF_vars(ApplyStep(a))
    /\ \A e \in Executors : WF_vars(RefreshStep(e))
    /\ WF_vars(StopAnnounce \/ StopEnter) /\ WF_vars(DownStep)

FairSpec == Spec /\ Fairness

-----------------------------------------------------------------------------
\* Two executors never run at the same time, so that the limit on active
\* runtimes holds during a reload; and a service that says it is ready has one.
OneExecutor ==
    /\ \A e, f \in Executors : exec[e] = "running" /\ exec[f] # "none" =>
           e = f \/ exec[f] = "built"
    /\ ready => installed # None /\ exec[installed] = "running" /\ ~stopping

\* Whatever writes to the data directory does so while the daemon holds the lock
\* file: executors, refresh loops, configurations being applied, connections.
\* And the daemon holds it only while it is up or on its way: after stop(), and
\* after a start() that failed, nothing is left, whoever was in the middle of
\* what when it came.
Working ==
    \/ \E e \in Executors : exec[e] # "none" \/ refresh[e] # "none"
    \/ \E a \in Agents : pc[a] \in ApplySteps
    \/ control # "none"
DataLockCoversWork ==
    /\ Working => dataLock = "daemon"
    /\ dataLock = "daemon" => alive \/ lifecycle # <<>>

\* stop(), start() and every mutator return.
CallersReturn ==
    /\ \A s \in Stoppers : stopper[s] = "waiting" ~> stopper[s] = "out"
    /\ \A a \in Agents : pc[a] # "out" ~> pc[a] = "out"
=============================================================================
