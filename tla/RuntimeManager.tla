--------------------------- MODULE RuntimeManager ---------------------------
(***************************************************************************)
(* XrayRuntimeManager and XrayRuntime of runtime.py: the start of an Xray  *)
(* child (private config file, config test in a child of its own, spawn,   *)
(* SOCKS readiness), validate_for(), stop() of a runtime, and close().     *)
(*                                                                         *)
(* Starts and validations are serialised by _start_lock, a FIFO queue.     *)
(* Every await is a step of its own, at which the caller may be cancelled  *)
(* and close() may set _closed.  Owned work (the writer thread, a spawn, a *)
(* reap) is waited for by _wait_owned_task, which remembers the            *)
(* cancellation (pend) and raises it when the work is done; when the work  *)
(* itself raises, that exception wins and the cancellation is lost.        *)
(*                                                                         *)
(* A starter is a caller of the manager together with the runtime it gets: *)
(* it holds at most one at a time, as the pool does per key.  Children     *)
(* ignore SIGTERM or not, answer or not, and may exit at any time; only    *)
(* SIGKILL is sure to end one.  Output buffers, redaction, the contents of *)
(* the configuration and the length of the timeouts are left out.          *)
(***************************************************************************)
EXTENDS Queues

CONSTANTS
    Starters,  \* tasks that call start_for() or validate_for()
    Closers,   \* tasks that call close()
    Close      \* the shared close task, in the queue of the lock

ASSUME CloseAssumption == Close \notin Starters

VARIABLES
    lock,        \* _start_lock: who waits for it, its holder first
    closed,      \* _closed
    closeTask,   \* _close_task
    snapshot,    \* the runtimes that stop_all() is stopping
    registered,  \* _runtimes
    pc,          \* where each starter is
    kind,        \* what it called
    pend,        \* the starters with a remembered cancellation
    test,        \* the child of the config test
    proc,        \* the child of the runtime
    stopTask,    \* _stop_task of the runtime
    files,       \* the starters whose private config file exists
    ports,       \* the starters with a port reservation
    closer       \* where each caller of close() is

vars == <<lock, closed, closeTask, snapshot, registered, pc, kind, pend, test, proc,
          stopTask, files, ports, closer>>
closing == <<closed, closeTask, snapshot, closer>>

Steps == {"idle", "queued", "write", "testSpawn", "testWait", "testTerm", "testKill",
          "spawn", "spawnTerm", "spawnKill", "ready", "stopping", "up", "joining"}

TypeOK ==
    /\ lock \in Seq(Starters \cup {Close})
    /\ closed \in BOOLEAN
    /\ closeTask \in {"none", "queued", "stopping", "done"}
    /\ snapshot \in SUBSET Starters /\ registered \in SUBSET Starters
    /\ pc \in [Starters -> Steps]
    /\ kind \in [Starters -> {"start", "validate"}]
    /\ pend \in SUBSET Starters
    /\ test \in [Starters -> {"none", "alive", "exited"}]
    /\ proc \in [Starters -> {"none", "alive", "exited"}]
    /\ stopTask \in [Starters -> {"none", "term", "kill", "done"}]
    /\ files \in SUBSET Starters /\ ports \in SUBSET Starters
    /\ closer \in [Closers -> {"out", "waiting", "returned"}]

Init ==
    /\ lock = <<>>
    /\ closed = FALSE /\ closeTask = "none" /\ snapshot = {}
    /\ registered = {}
    /\ pc = [t \in Starters |-> "idle"]
    /\ kind = [t \in Starters |-> "start"]
    /\ pend = {}
    /\ test = [t \in Starters |-> "none"]
    /\ proc = [t \in Starters |-> "none"]
    /\ stopTask = [t \in Starters |-> "none"]
    /\ files = {} /\ ports = {}
    /\ closer = [c \in Closers |-> "out"]

-----------------------------------------------------------------------------
Goto(t, step) == pc' = [pc EXCEPT ![t] = step]

\* start() or validate_for() raises, or validate_for() returns: the reservation
\* is closed, the file unlinked and the lock released.
Leave(t) ==
    /\ Goto(t, "idle")
    /\ lock' = Without(lock, t)
    /\ files' = files \ {t} /\ ports' = ports \ {t}
    /\ pend' = pend \ {t}

\* start_for(), validate_for(): refused at once when the manager is closed
Call(t, k) ==
    /\ pc[t] = "idle" /\ ~closed
    /\ Goto(t, "queued")
    /\ kind' = [kind EXCEPT ![t] = k]
    /\ lock' = Append(lock, t)
    /\ UNCHANGED <<registered, pend, test, proc, stopTask, files, ports>>
    /\ UNCHANGED closing

\* The lock is acquired; the port is reserved, or is not to be had.
Enter(t) ==
    /\ pc[t] = "queued" /\ Holds(lock, t)
    /\ \/ Leave(t)
       \/ /\ ~closed
          /\ Goto(t, "write")
          /\ ports' = IF kind[t] = "start" THEN ports \cup {t} ELSE ports
          /\ UNCHANGED <<lock, files, pend>>
    /\ UNCHANGED <<registered, kind, test, proc, stopTask>>
    /\ UNCHANGED closing

\* _write_private_json_complete(): the thread has failed, or has written the
\* file; a remembered cancellation is raised and the file goes again.
Written(t) ==
    /\ pc[t] = "write"
    /\ \/ Leave(t)
       \/ /\ t \notin pend
          /\ Goto(t, "testSpawn")
          /\ files' = files \cup {t}
          /\ UNCHANGED <<lock, ports, pend>>
    /\ UNCHANGED <<registered, kind, test, proc, stopTask>>
    /\ UNCHANGED closing

\* The child of the config test exists, or could not be created.
TestSpawned(t) ==
    /\ pc[t] = "testSpawn"
    /\ \/ Leave(t) /\ UNCHANGED test
       \/ /\ test' = [test EXCEPT ![t] = "alive"]
          /\ Goto(t, IF t \in pend THEN "testTerm" ELSE "testWait")
          /\ UNCHANGED <<lock, files, ports, pend>>
    /\ UNCHANGED <<registered, kind, proc, stopTask>>
    /\ UNCHANGED closing

\* The test has ended.  It rejects the configuration, or start() goes on, unless
\* the manager was closed meanwhile, and gives up the reservation for the child.
TestEnded(t) ==
    /\ pc[t] = "testWait" /\ test[t] = "exited"
    /\ test' = [test EXCEPT ![t] = "none"]
    /\ \/ Leave(t)
       \/ /\ kind[t] = "start" /\ ~closed
          /\ Goto(t, "spawn") /\ ports' = ports \ {t}
          /\ UNCHANGED <<lock, files, pend>>
    /\ UNCHANGED <<registered, kind, proc, stopTask>>
    /\ UNCHANGED closing

TestTimeout(t) ==
    /\ pc[t] = "testWait" /\ test[t] = "alive"
    /\ Goto(t, "testTerm")
    /\ UNCHANGED <<lock, registered, kind, pend, test, proc, stopTask, files, ports>>
    /\ UNCHANGED closing

\* _terminate_process_complete() of the test: SIGTERM was not enough, ...
TestKill(t) ==
    /\ pc[t] = "testTerm" /\ test[t] = "alive"
    /\ Goto(t, "testKill")
    /\ UNCHANGED <<lock, registered, kind, pend, test, proc, stopTask, files, ports>>
    /\ UNCHANGED closing

\* ... and the child is gone.
TestReaped(t) ==
    /\ pc[t] \in {"testTerm", "testKill"} /\ test[t] = "exited"
    /\ test' = [test EXCEPT ![t] = "none"]
    /\ Leave(t)
    /\ UNCHANGED <<registered, kind, proc, stopTask>>
    /\ UNCHANGED closing

\* Mutant: a spawn that outlives its cancelled caller is left alone.
SpawnedUnreaped(t) ==
    /\ pc[t] = "spawn"
    /\ \/ Leave(t) /\ UNCHANGED <<proc, stopTask>>
       \/ /\ proc' = [proc EXCEPT ![t] = "alive"]
          /\ \/ t \in pend /\ Leave(t) /\ UNCHANGED stopTask
             \/ /\ t \notin pend
                /\ Goto(t, IF closed THEN "stopping" ELSE "ready")
                /\ stopTask' = [stopTask EXCEPT ![t] = IF closed THEN "term" ELSE "none"]
                /\ UNCHANGED <<lock, files, ports, pend>>
    /\ UNCHANGED <<registered, kind, test>>
    /\ UNCHANGED closing

\* The child of the runtime exists, or could not be created.  Its runtime is
\* only made when no cancellation is pending; stop() follows when the manager
\* was closed meanwhile.
Spawned(t) ==
    /\ pc[t] = "spawn"
    /\ \/ Leave(t) /\ UNCHANGED <<proc, stopTask>>
       \/ /\ proc' = [proc EXCEPT ![t] = "alive"]
          /\ \/ t \in pend /\ Goto(t, "spawnTerm") /\ UNCHANGED stopTask
             \/ /\ t \notin pend
                /\ Goto(t, IF closed THEN "stopping" ELSE "ready")
                /\ stopTask' = [stopTask EXCEPT ![t] = IF closed THEN "term" ELSE "none"]
          /\ UNCHANGED <<lock, files, ports, pend>>
    /\ UNCHANGED <<registered, kind, test>>
    /\ UNCHANGED closing

SpawnKill(t) ==
    /\ pc[t] = "spawnTerm" /\ proc[t] = "alive"
    /\ Goto(t, "spawnKill")
    /\ UNCHANGED <<lock, registered, kind, pend, test, proc, stopTask, files, ports>>
    /\ UNCHANGED closing

SpawnReaped(t) ==
    /\ pc[t] \in {"spawnTerm", "spawnKill"} /\ proc[t] = "exited"
    /\ proc' = [proc EXCEPT ![t] = "none"]
    /\ Leave(t)
    /\ UNCHANGED <<registered, kind, test, stopTask>>
    /\ UNCHANGED closing

\* _wait_ready(): the child answers and start() returns it; or it has exited, or
\* did not answer in time, or the manager was closed, and it is stopped.
Ready(t) ==
    /\ pc[t] = "ready"
    /\ \/ /\ proc[t] = "alive" /\ ~closed
          /\ Goto(t, "up") /\ registered' = registered \cup {t}
          /\ lock' = Without(lock, t)
          /\ UNCHANGED stopTask
       \/ /\ Goto(t, "stopping") /\ stopTask' = [stopTask EXCEPT ![t] = "term"]
          /\ UNCHANGED <<registered, lock>>
    /\ UNCHANGED <<kind, pend, test, proc, files, ports>>
    /\ UNCHANGED closing

\* runtime.stop() has returned within start(), or to the holder of the runtime.
Stopped(t) ==
    /\ pc[t] \in {"stopping", "joining"} /\ stopTask[t] = "done"
    /\ stopTask' = [stopTask EXCEPT ![t] = "none"]
    /\ Leave(t)
    /\ UNCHANGED <<registered, kind, test, proc>>
    /\ UNCHANGED closing

-----------------------------------------------------------------------------
\* stop() by the holder of a runtime; one task does it for all who ask.
Stop(t) ==
    /\ pc[t] = "up"
    /\ Goto(t, "joining")
    /\ stopTask' = [stopTask EXCEPT ![t] = IF @ = "none" THEN "term" ELSE @]
    /\ UNCHANGED <<lock, registered, kind, pend, test, proc, files, ports>>
    /\ UNCHANGED closing

\* Mutant: a child that ignores SIGTERM is sent another one.
StopTermAgain(t) ==
    /\ stopTask[t] = "term" /\ proc[t] = "alive"
    /\ UNCHANGED vars

\* _stop_complete(): SIGTERM was not enough, ...
StopKill(t) ==
    /\ stopTask[t] = "term" /\ proc[t] = "alive"
    /\ stopTask' = [stopTask EXCEPT ![t] = "kill"]
    /\ UNCHANGED <<lock, registered, pc, kind, pend, test, proc, files, ports>>
    /\ UNCHANGED closing

\* ... and the child is gone, its file and its registration with it.
StopReaped(t) ==
    /\ stopTask[t] \in {"term", "kill"} /\ proc[t] = "exited"
    /\ stopTask' = [stopTask EXCEPT ![t] = "done"]
    /\ proc' = [proc EXCEPT ![t] = "none"]
    /\ files' = files \ {t} /\ registered' = registered \ {t}
    /\ UNCHANGED <<lock, pc, kind, pend, test, ports>>
    /\ UNCHANGED closing

\* A child exits: by itself or on a signal
Exit(t) ==
    /\ \/ test[t] = "alive" /\ test' = [test EXCEPT ![t] = "exited"] /\ UNCHANGED proc
       \/ proc[t] = "alive" /\ proc' = [proc EXCEPT ![t] = "exited"] /\ UNCHANGED test
    /\ UNCHANGED <<lock, registered, pc, kind, pend, stopTask, files, ports>>
    /\ UNCHANGED closing

\* The caller is cancelled.  In the queue it leaves; in owned work the
\* cancellation is remembered; a wait for a child turns into its end.
Cancel(t) ==
    /\ \/ pc[t] = "queued" /\ Leave(t) /\ UNCHANGED stopTask
       \/ /\ pc[t] \in Steps \ {"idle", "queued", "up"}
          /\ pend' = pend \cup {t}
          /\ pc' = [pc EXCEPT ![t] = CASE @ = "testWait" -> "testTerm"
                                       [] @ = "ready" -> "stopping"
                                       [] OTHER -> @]
          /\ stopTask' = [stopTask EXCEPT ![t] = IF pc[t] = "ready" THEN "term" ELSE @]
          /\ UNCHANGED <<lock, files, ports>>
    /\ UNCHANGED <<registered, kind, test, proc>>
    /\ UNCHANGED closing

-----------------------------------------------------------------------------
starting == <<registered, pc, kind, pend, test, proc, stopTask, files, ports>>

\* close(): the first caller sets _closed and creates the task; all wait for it.
\* A caller that is cancelled still waits, so its cancellation is left out.
CallClose(c) ==
    /\ closer[c] = "out"
    /\ closer' = [closer EXCEPT ![c] = "waiting"]
    /\ closed' = TRUE
    /\ closeTask' = IF closeTask = "none" THEN "queued" ELSE closeTask
    /\ lock' = IF closeTask = "none" THEN Append(lock, Close) ELSE lock
    /\ UNCHANGED snapshot /\ UNCHANGED starting

CloseReturned(c) ==
    /\ closer[c] = "waiting" /\ closeTask = "done"
    /\ closer' = [closer EXCEPT ![c] = "returned"]
    /\ UNCHANGED <<lock, closed, closeTask, snapshot>> /\ UNCHANGED starting

\* Mutant: close() takes its snapshot without waiting for a start under way.
CloseAtOnce ==
    /\ closeTask = "queued"
    /\ closeTask' = "stopping" /\ snapshot' = registered
    /\ stopTask' = [t \in Starters |->
           IF t \in registered /\ stopTask[t] = "none" THEN "term" ELSE stopTask[t]]
    /\ UNCHANGED <<lock, closed, closer>>
    /\ UNCHANGED <<registered, pc, kind, pend, test, proc, files, ports>>

\* _close_complete() has the lock: stop_all() stops what is registered now ...
CloseEnters ==
    /\ closeTask = "queued" /\ Holds(lock, Close)
    /\ closeTask' = "stopping" /\ snapshot' = registered
    /\ stopTask' = [t \in Starters |->
           IF t \in registered /\ stopTask[t] = "none" THEN "term" ELSE stopTask[t]]
    /\ UNCHANGED <<lock, closed, closer>>
    /\ UNCHANGED <<registered, pc, kind, pend, test, proc, files, ports>>

\* ... and waits for all of it.
CloseEnds ==
    /\ closeTask = "stopping" /\ snapshot \cap registered = {}
    /\ closeTask' = "done" /\ snapshot' = {}
    /\ lock' = Without(lock, Close)
    /\ UNCHANGED <<closed, closer>> /\ UNCHANGED starting

-----------------------------------------------------------------------------
\* What the code does by itself.  Threads, spawns and tests are bounded.
Advance(t) ==
    \/ Enter(t) \/ Written(t) \/ TestSpawned(t) \/ TestEnded(t) \/ TestTimeout(t)
    \/ TestKill(t) \/ TestReaped(t) \/ Spawned(t) \/ SpawnKill(t) \/ SpawnReaped(t)
    \/ Ready(t) \/ Stopped(t)
StopAdvance(t) == StopKill(t) \/ StopReaped(t)
CloseAdvance == CloseEnters \/ CloseEnds

\* A child that was sent SIGKILL exits.
KillEnds(t) == (pc[t] \in {"testKill", "spawnKill"} \/ stopTask[t] = "kill") /\ Exit(t)

Next ==
    \/ \E t \in Starters :
          \/ Call(t, "start") \/ Call(t, "validate")
          \/ Advance(t) \/ StopAdvance(t) \/ Stop(t) \/ Exit(t) \/ Cancel(t)
    \/ \E c \in Closers : CallClose(c) \/ CloseReturned(c)
    \/ CloseAdvance

Spec == Init /\ [][Next]_vars

Fairness ==
    /\ \A t \in Starters :
          WF_vars(Advance(t)) /\ WF_vars(StopAdvance(t)) /\ WF_vars(KillEnds(t))
    /\ \A c \in Closers : WF_vars(CloseReturned(c))
    /\ WF_vars(CloseAdvance)

FairSpec == Spec /\ Fairness

-----------------------------------------------------------------------------
\* Where a child of the test, and one of the runtime, has someone to reap it
TestOwned(t) == pc[t] \in {"testWait", "testTerm", "testKill"}
RuntimeOwned(t) ==
    \/ pc[t] \in {"spawnTerm", "spawnKill", "ready"}
    \/ t \in registered
    \/ stopTask[t] \in {"term", "kill"}

\* Every child is someone's: of a start() that has not returned, of a stop() in
\* progress, or it is registered, so that close() finds it.  So is every private
\* config file and every reserved port.  A runtime is not returned to a caller
\* that was cancelled, which would not be there to stop it.
EverythingOwned ==
    \A t \in Starters :
        /\ t \in pend => pc[t] # "up"
        /\ test[t] # "none" => TestOwned(t)
        /\ proc[t] # "none" => RuntimeOwned(t)
        /\ t \in files => pc[t] \in {"testSpawn", "spawn"} \/ TestOwned(t) \/ RuntimeOwned(t)
        /\ t \in ports => pc[t] \in {"write", "testSpawn"} \/ TestOwned(t)

\* Once close() has returned there is no child, file, reservation or
\* registration, and none will come.
Quiet == /\ registered = {} /\ files = {} /\ ports = {}
         /\ \A t \in Starters : test[t] = "none" /\ proc[t] = "none"
ClosedLeavesNothing == (\E c \in Closers : closer[c] = "returned") => Quiet

\* close() returns, and so does every call that start() and stop() have begun.
CallersReturn ==
    /\ \A c \in Closers : closer[c] = "waiting" ~> closer[c] = "returned"
    /\ \A t \in Starters : pc[t] \notin {"idle", "up"} ~> pc[t] \in {"idle", "up"}

-----------------------------------------------------------------------------
\* What the pool sees of a caller: a validation is not its matter, nor is a child
\* before start() has returned it.
CallOf(t) ==
    CASE pc[t] = "up" -> "holding"
      [] pc[t] = "joining" -> "stopping"
      [] pc[t] \notin {"idle", "up", "joining"} /\ kind[t] = "start" -> "starting"
      [] OTHER -> "out"
ProcessOf(t) == IF pc[t] \in {"idle", "up", "joining"} THEN proc[t] ELSE "none"
ManagerIs == IF closeTask = "done" THEN "closed" ELSE IF closed THEN "closing" ELSE "open"

Contract ==
    INSTANCE RuntimeContract WITH
        Callers <- Starters,
        call <- [t \in Starters |-> CallOf(t)],
        process <- [t \in Starters |-> ProcessOf(t)],
        manager <- ManagerIs

\* The manager does what the pool assumes of it.
RefinesContract == Contract!Spec
=============================================================================
