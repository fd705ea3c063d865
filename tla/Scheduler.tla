------------------------------ MODULE Scheduler ------------------------------
(***************************************************************************)
(* The bounded asyncio scheduler of scheduler.py: producers (one task per  *)
(* periodic check) put work items on a bounded queue, a fixed set of       *)
(* worker tasks takes them off and awaits the runner, run_once() enters    *)
(* manual work through the same queue, and update() / stop() replace or    *)
(* tear down the schedule while all of that is under way.                  *)
(*                                                                         *)
(* A step is what one task does between two awaits: asyncio switches tasks *)
(* only there.  start(), update() and stop() are called by ProberService   *)
(* with its _mutation_lock held (service.py 351, 412, 588, 642, 842), so   *)
(* ctl, the one controller, runs one of them at a time; run_once() is      *)
(* called without the lock and may interleave with any of them.            *)
(*                                                                         *)
(* Left out: time (a producer that sleeps may wake at any moment), the     *)
(* payload of a check, logging, and update() called from a producer's own  *)
(* error callback (the service's callback, _scheduler_error, never does).  *)
(***************************************************************************)
EXTENDS Naturals, Sequences, FiniteSets

CONSTANTS
    Ids,          \* check_id values
    Gens,         \* generations a check can have
    Intervals,    \* interval_seconds values; equality of two checks sees them
    Workers,      \* the worker tasks: concurrency is their number
    Futures,      \* futures of manual callers that can be live at a time
    MaxQueue,     \* maxsize of the asyncio queue
    SaveMayFail,  \* may storing a result raise while its owner is cancelled?
    NoJob, NoItem, NoFuture, Removed, Unknown

ASSUME LimitsPositive ==                     \* __init__, lines 43-44
    MaxQueue \in Nat \ {0} /\ Workers # {}

ASSUME SaveMayFailBoolean == SaveMayFail \in BOOLEAN

ASSUME Markers ==
    /\ NoFuture \notin Futures
    /\ Removed \notin Gens
    /\ Unknown \notin Gens
    /\ Removed # Unknown
    /\ NoJob \notin [gen : Gens, ivl : Intervals]
    /\ NoItem \notin [id : Ids, gen : Gens, fut : Futures \cup {NoFuture}]

VARIABLES
    jobs,       \* _jobs: the periodic check of each id, or NoJob
    queue,      \* _queue: sequence of work items
    queued,     \* _queued
    running,    \* _running
    queuedGen,  \* _queued_generations (Unknown: no entry)
    runningGen, \* _running_generations (Unknown: no entry)
    known,      \* _known_generations (Removed: the None tombstone; Unknown: no entry)
    started,    \* _started
    producer,   \* _producers: the producer task of each id
    draining,   \* producers update() has cancelled and still awaits
    worker,     \* _workers: the worker tasks
    fut,        \* where each manual caller and its future are
    ctl         \* the lifecycle call in progress

vars == <<jobs, queue, queued, running, queuedGen, runningGen, known, started,
          producer, draining, worker, fut, ctl>>

-----------------------------------------------------------------------------
Job  == [gen : Gens, ivl : Intervals]
Item == [id : Ids, gen : Gens, fut : Futures \cup {NoFuture}]

\* A producer task: asleep until its next tick, or inside the error callback.
\* cancel says that task.cancel() was called and not yet delivered.
Producer == [pc : {"none", "sleep", "report"}, job : Job \cup {NoJob},
             cancel : {"no", "requested"}]
NoProducer == [pc |-> "none", job |-> NoJob, cancel |-> "no"]

\* A worker task: in queue.get(), awaiting the runner, or reporting its failure.
Worker == [pc : {"none", "get", "run", "report"}, item : Item \cup {NoItem},
           cancel : {"no", "requested"}]
NoWorker   == [pc |-> "none", item |-> NoItem, cancel |-> "no"]
IdleWorker == [pc |-> "get",  item |-> NoItem, cancel |-> "no"]

Busy(w) == worker[w].pc \in {"run", "report"}

WorkItem(i, g, f) == [id |-> i, gen |-> g, fut |-> f]

\* A manual caller: not in run_once, awaiting the report of its rejection,
\* awaiting its future, or about to return with what the future holds.
FutureState == {"free", "reporting", "pending", "result", "exception",
                "cancelled", "rejected"}

\* Mutant: the exception of an item is logged and not handed to its future.
ResolveNotWithException(ft, f, outcome) ==
    IF f \in Futures /\ ft[f] = "pending" /\ outcome # "exception"
    THEN [ft EXCEPT ![f] = outcome] ELSE ft

\* set_result, set_exception and cancel all test future.done() first.
Resolve(ft, f, outcome) ==
    IF f \in Futures /\ ft[f] = "pending" THEN [ft EXCEPT ![f] = outcome] ELSE ft

-----------------------------------------------------------------------------
Init ==
    /\ jobs = [i \in Ids |-> NoJob]
    /\ queue = <<>>
    /\ queued = {} /\ running = {}
    /\ queuedGen = [i \in Ids |-> Unknown]
    /\ runningGen = [i \in Ids |-> Unknown]
    /\ known = [i \in Ids |-> Unknown]
    /\ started = FALSE
    /\ producer = [i \in Ids |-> NoProducer]
    /\ draining = [i \in Ids |-> NoProducer]
    /\ worker = [w \in Workers |-> NoWorker]
    /\ fut = [f \in Futures |-> "free"]
    /\ ctl = "idle"

NewProducer(j) == [pc |-> "sleep", job |-> j, cancel |-> "no"]

\* start()
Start ==
    /\ ctl = "idle" /\ ~started
    /\ started' = TRUE
    /\ worker' = [w \in Workers |-> IdleWorker]
    /\ producer' = [i \in Ids |-> IF jobs[i] = NoJob THEN producer[i]
                                                     ELSE NewProducer(jobs[i])]
    /\ UNCHANGED <<jobs, queue, queued, running, queuedGen, runningGen, known,
                   draining, fut, ctl>>

\* The generation update() records for i: lines 84-91, then the removal of
\* tombstones nobody needs, lines 99-105.
KnownAfterUpdate(desired, i) ==
    LET g == IF desired[i] # NoJob THEN desired[i].gen
             ELSE IF jobs[i] # NoJob THEN Removed ELSE known[i]
    IN  IF g = Removed /\ i \notin queued \cup running THEN Unknown ELSE g

\* The producers update() cancels: lines 92-97
Replaced(desired) ==
    {i \in Ids : producer[i].pc # "none" /\ jobs[i] # desired[i]}

\* task.cancel() on a task that may be done already
Cancel(task) ==
    IF task.pc # "none" THEN [task EXCEPT !.cancel = "requested"] ELSE task

\* update(): everything up to the drain happens in one step; the cancelled
\* producers are then awaited, whether or not the caller itself is cancelled.
Update(desired) ==
    LET replaced == Replaced(desired)
    IN  /\ ctl = "idle"
        /\ known' = [i \in Ids |-> KnownAfterUpdate(desired, i)]
        /\ draining' = [i \in Ids |->
               IF i \in replaced THEN Cancel(producer[i]) ELSE draining[i]]
        /\ producer' = [i \in Ids |->
               IF producer[i].pc # "none" /\ i \notin replaced THEN producer[i]
               ELSE IF started /\ desired[i] # NoJob THEN NewProducer(desired[i])
               ELSE NoProducer]
        /\ jobs' = desired
        /\ ctl' = IF replaced = {} THEN "idle" ELSE "updating"
        /\ UNCHANGED <<queue, queued, running, queuedGen, runningGen, started,
                       worker, fut>>

\* Mutant: update() does not wait for the producers it has cancelled.
DrainedAtOnce == TRUE

Drained == \A i \in Ids : draining[i].pc = "none"

UpdateDone ==
    /\ ctl = "updating"
    /\ Drained
    /\ ctl' = "idle"
    /\ UNCHANGED <<jobs, queue, queued, running, queuedGen, runningGen, known,
                   started, producer, draining, worker, fut>>

\* stop(), up to the gather of all producers and workers.
Stop ==
    /\ ctl = "idle" /\ started
    /\ ctl' = "stopping"
    /\ producer' = [i \in Ids |-> Cancel(producer[i])]
    /\ worker' = [w \in Workers |-> Cancel(worker[w])]
    /\ UNCHANGED <<jobs, queue, queued, running, queuedGen, runningGen, known,
                   started, draining, fut>>

\* stop() cancels the futures of the items it takes off the queue: lines 160-164
FuturesAfterDrain ==
    [f \in Futures |->
        IF fut[f] = "pending" /\ \E k \in DOMAIN queue : queue[k].fut = f
        THEN "cancelled" ELSE fut[f]]

\* stop(), after the gather: the queue is emptied, its futures are cancelled,
\* and everything but _jobs is cleared.
StopDone ==
    /\ ctl = "stopping"
    /\ \A i \in Ids : producer[i].pc = "none"
    /\ \A w \in Workers : worker[w].pc = "none"
    /\ fut' = FuturesAfterDrain
    /\ queue' = <<>>
    /\ queued' = {} /\ running' = {}
    /\ queuedGen' = [i \in Ids |-> Unknown]
    /\ runningGen' = [i \in Ids |-> Unknown]
    /\ known' = [i \in Ids |-> Unknown]
    /\ started' = FALSE
    /\ ctl' = "idle"
    /\ UNCHANGED <<jobs, producer, draining, worker>>

-----------------------------------------------------------------------------

\* _conflicts_with_same_generation()
ConflictsWithSameGeneration(i, g) == queuedGen[i] = g \/ runningGen[i] = g

\* Mutant: work on a worker is not looked at.
AlreadyQueued(i) == i \in queued

\* The test with which run_once() and _enqueue_scheduled() begin
AlreadyScheduled(i) == i \in running \cup queued

\* put_nowait() would raise asyncio.QueueFull
QueueFull == Len(queue) >= MaxQueue

\* Mutant: the generation of the queued item is not recorded.
PutWithoutGeneration(item) ==
    /\ queue' = Append(queue, item)
    /\ queued' = queued \cup {item.id}
    /\ queuedGen' = queuedGen

\* put_nowait() and the bookkeeping that follows it
Put(item) ==
    /\ queue' = Append(queue, item)
    /\ queued' = queued \cup {item.id}
    /\ queuedGen' = [queuedGen EXCEPT ![item.id] = item.gen]

\* run_once() by a caller whose future is f
RunOnce(f, i, g) ==
    /\ fut[f] = "free"
    /\ \/ /\ AlreadyScheduled(i)
          /\ fut' = [fut EXCEPT ![f] = IF ConflictsWithSameGeneration(i, g)
                                       THEN "reporting" ELSE "rejected"]
          /\ UNCHANGED <<queue, queued, queuedGen>>
       \/ /\ ~AlreadyScheduled(i) /\ QueueFull
          /\ fut' = [fut EXCEPT ![f] = "reporting"]
          /\ UNCHANGED <<queue, queued, queuedGen>>
       \/ /\ ~AlreadyScheduled(i) /\ ~QueueFull
          /\ Put(WorkItem(i, g, f))
          /\ fut' = [fut EXCEPT ![f] = "pending"]
    /\ UNCHANGED <<jobs, running, runningGen, known, started, producer, draining,
                   worker, ctl>>

\* The caller leaves its await: the report of its rejection ends, or the
\* caller is cancelled, which cancels the future it awaits (an item that
\* carries the future stays where it is).
CallerStep(f) ==
    /\ \/ fut[f] = "reporting" /\ fut' = [fut EXCEPT ![f] = "rejected"]
       \/ fut[f] = "pending"   /\ fut' = [fut EXCEPT ![f] = "cancelled"]
    /\ UNCHANGED <<jobs, queue, queued, running, queuedGen, runningGen, known,
                   started, producer, draining, worker, ctl>>

References(f) == \/ \E k \in DOMAIN queue : queue[k].fut = f
                 \/ \E w \in Workers : Busy(w) /\ worker[w].item.fut = f

\* The caller returns.  The bound on live futures: one is used again when no
\* item refers to it any more.
CallerReturn(f) ==
    /\ fut[f] \in {"result", "exception", "cancelled", "rejected"}
    /\ ~References(f)
    /\ fut' = [fut EXCEPT ![f] = "free"]
    /\ UNCHANGED <<jobs, queue, queued, running, queuedGen, runningGen, known,
                   started, producer, draining, worker, ctl>>

-----------------------------------------------------------------------------
\* _produce() from a sleep to its next await, _enqueue_scheduled() included.
\* The producer in _producers always serves the current job, so that the loop
\* is left only after a report (AfterReport).
ProducerTick(i) ==
    LET p == producer[i]
    IN  /\ p.pc = "sleep" /\ p.cancel = "no"
        /\ \/ /\ jobs[i] = p.job /\ AlreadyScheduled(i)
              /\ producer' = [producer EXCEPT ![i].pc =
                     IF ConflictsWithSameGeneration(i, p.job.gen)
                     THEN "report" ELSE "sleep"]
              /\ UNCHANGED <<queue, queued, queuedGen>>
           \/ /\ jobs[i] = p.job /\ ~AlreadyScheduled(i) /\ QueueFull
              /\ producer' = [producer EXCEPT ![i].pc = "report"]
              /\ UNCHANGED <<queue, queued, queuedGen>>
           \/ /\ jobs[i] = p.job /\ ~AlreadyScheduled(i) /\ ~QueueFull
              /\ Put(WorkItem(i, p.job.gen, NoFuture))
              /\ UNCHANGED producer
        /\ UNCHANGED <<jobs, running, runningGen, known, started, draining,
                       worker, fut, ctl>>

\* What a task does with a cancellation at the await it is in.  A sleep and
\* queue.get() raise it.  The runner and the error callback store a result in
\* a thread (_critical_to_thread): the cancellation is remembered and raised
\* when the thread is done, unless the thread itself raises, in which case
\* that exception replaces it and `except Exception` swallows both.
Delivered(task) == task.cancel = "requested"
Swallowed(task) == task.cancel = "requested" /\ SaveMayFail

\* Mutant: the top of the loop does not look at the job.
AfterReportOnwards(i, p) == [p EXCEPT !.pc = "sleep", !.cancel = "no"]

\* The end of a report: back to the top of the loop, where a producer whose
\* job was replaced returns.
AfterReport(i, p) ==
    IF jobs[i] = p.job THEN [p EXCEPT !.pc = "sleep", !.cancel = "no"]
                       ELSE NoProducer

ProducerReported(i) ==
    /\ producer[i].pc = "report"
    /\ producer[i].cancel = "no" \/ Swallowed(producer[i])
    /\ producer' = [producer EXCEPT ![i] = AfterReport(i, @)]
    /\ UNCHANGED <<jobs, queue, queued, running, queuedGen, runningGen, known,
                   started, draining, worker, fut, ctl>>

ProducerCancelled(i) ==
    /\ producer[i].pc # "none" /\ Delivered(producer[i])
    /\ producer' = [producer EXCEPT ![i] = NoProducer]
    /\ UNCHANGED <<jobs, queue, queued, running, queuedGen, runningGen, known,
                   started, draining, worker, fut, ctl>>

\* A producer update() has cancelled: it raises, or swallows the cancellation
\* at the end of its report and leaves at the top of the loop.
DrainingEnds(i) ==
    /\ draining[i].pc # "none"
    /\ \/ Delivered(draining[i]) /\ draining' = [draining EXCEPT ![i] = NoProducer]
       \/ /\ draining[i].pc = "report" /\ Swallowed(draining[i])
          /\ draining' = [draining EXCEPT ![i] = AfterReport(i, @)]
    /\ UNCHANGED <<jobs, queue, queued, running, queuedGen, runningGen, known,
                   started, producer, worker, fut, ctl>>

-----------------------------------------------------------------------------
\* Mutant: only a removed check is obsolete, not a replaced one.
IsObsoleteIfRemoved(item) == known[item.id] = Removed

\* _is_obsolete()
IsObsolete(item) ==
    IF known[item.id] # Unknown THEN known[item.id] # item.gen
    ELSE IF item.fut # NoFuture THEN FALSE
    ELSE jobs[item.id] = NoJob \/ jobs[item.id].gen # item.gen

\* Mutant: the tombstone of a removed check is left behind.
ForgetNothing(i, q, r) == known

\* _forget_removed_generation(), evaluated with the sets q and r
ForgetRemoved(i, q, r) ==
    IF known[i] \in {Removed, Unknown} /\ jobs[i] = NoJob /\ i \notin q \cup r
    THEN [known EXCEPT ![i] = Unknown] ELSE known

\* _worker() from queue.get() to its next await
WorkerGet(w) ==
    /\ worker[w].pc = "get" /\ worker[w].cancel = "no"
    /\ queue # <<>>
    /\ LET item == Head(queue) IN
       /\ queue' = Tail(queue)
       /\ queued' = queued \ {item.id}
       /\ queuedGen' = IF queuedGen[item.id] = item.gen
                       THEN [queuedGen EXCEPT ![item.id] = Unknown] ELSE queuedGen
       /\ \/ /\ IsObsolete(item)
             /\ fut' = Resolve(fut, item.fut, "exception")
             /\ known' = ForgetRemoved(item.id, queued \ {item.id}, running)
             /\ UNCHANGED <<running, runningGen, worker>>
          \/ /\ ~IsObsolete(item)
             /\ running' = running \cup {item.id}
             /\ runningGen' = [runningGen EXCEPT ![item.id] = item.gen]
             /\ worker' = [worker EXCEPT ![w] =
                              [pc |-> "run", item |-> item, cancel |-> "no"]]
             /\ UNCHANGED <<known, fut>>
    /\ UNCHANGED <<jobs, started, producer, draining, ctl>>

\* The finally block of _worker(): the worker drops its item and continues as
\* next; outcome is what the item's future gets.
Finish(w, outcome, next) ==
    LET item == worker[w].item
    IN  /\ fut' = Resolve(fut, item.fut, outcome)
        /\ running' = running \ {item.id}
        /\ runningGen' = IF runningGen[item.id] = item.gen
                         THEN [runningGen EXCEPT ![item.id] = Unknown] ELSE runningGen
        /\ known' = ForgetRemoved(item.id, queued, running \ {item.id})
        /\ worker' = [worker EXCEPT ![w] = next]
        /\ UNCHANGED <<jobs, queue, queued, queuedGen, started, producer,
                       draining, ctl>>

\* The runner returns, or raises for an item that is obsolete by now: both end
\* the item without a report.
RunnerReturns(w) ==
    /\ worker[w].pc = "run"
    /\ \/ /\ worker[w].cancel = "no" \/ Swallowed(worker[w])
          /\ Finish(w, "result", IdleWorker)
       \/ /\ worker[w].cancel = "no" /\ IsObsolete(worker[w].item)
          /\ Finish(w, "exception", IdleWorker)

\* The runner raises for an item that is not obsolete: the error is reported.
\* (The runner raises before its first await, or not at all, so a pending
\* cancellation is not lost here.)
RunnerRaises(w) ==
    /\ worker[w].pc = "run" /\ worker[w].cancel = "no"
    /\ ~IsObsolete(worker[w].item)
    /\ worker' = [worker EXCEPT ![w].pc = "report"]
    /\ UNCHANGED <<jobs, queue, queued, running, queuedGen, runningGen, known,
                   started, producer, draining, fut, ctl>>

WorkerReported(w) ==
    /\ worker[w].pc = "report"
    /\ worker[w].cancel = "no" \/ Swallowed(worker[w])
    /\ Finish(w, "exception", IdleWorker)

WorkerCancelled(w) ==
    /\ Delivered(worker[w])
    /\ \/ /\ worker[w].pc = "get"
          /\ worker' = [worker EXCEPT ![w] = NoWorker]
          /\ UNCHANGED <<jobs, queue, queued, running, queuedGen, runningGen,
                         known, started, producer, draining, fut, ctl>>
       \/ Busy(w) /\ Finish(w, "cancelled", NoWorker)

-----------------------------------------------------------------------------
Manual(f)       == \/ \E i \in Ids, g \in Gens : RunOnce(f, i, g)
                   \/ CallerStep(f)
                   \/ CallerReturn(f)
ProducerTask(i) == ProducerTick(i) \/ ProducerReported(i) \/ ProducerCancelled(i)
WorkerTask(w)   == \/ WorkerGet(w) \/ RunnerReturns(w) \/ RunnerRaises(w)
                   \/ WorkerReported(w) \/ WorkerCancelled(w)

Next ==
    \/ Start \/ Stop \/ StopDone \/ UpdateDone
    \/ \E desired \in [Ids -> Job \cup {NoJob}] : Update(desired)
    \/ \E f \in Futures : Manual(f)
    \/ \E i \in Ids : ProducerTask(i) \/ DrainingEnds(i)
    \/ \E w \in Workers : WorkerTask(w)

Spec == Init /\ [][Next]_vars

\* asyncio resumes every task whose await is over, and the awaits here end:
\* the runner and the error callback are bounded by the timeouts of the checker
\* and of the file operations they wait for.  Nothing is assumed of the callers
\* of start, update, stop and run_once, nor of the clock that wakes producers.
Fairness ==
    /\ WF_vars(UpdateDone) /\ WF_vars(StopDone)
    /\ \A i \in Ids : /\ WF_vars(ProducerReported(i) \/ ProducerCancelled(i))
                      /\ WF_vars(DrainingEnds(i))
    /\ \A w \in Workers : WF_vars(WorkerTask(w))

FairSpec == Spec /\ Fairness

-----------------------------------------------------------------------------
TypeOK ==
    /\ jobs \in [Ids -> Job \cup {NoJob}]
    /\ queue \in Seq(Item)
    /\ queued \subseteq Ids /\ running \subseteq Ids
    /\ queuedGen \in [Ids -> Gens \cup {Unknown}]
    /\ runningGen \in [Ids -> Gens \cup {Unknown}]
    /\ known \in [Ids -> Gens \cup {Removed, Unknown}]
    /\ started \in BOOLEAN
    /\ producer \in [Ids -> Producer]
    /\ draining \in [Ids -> Producer]
    /\ worker \in [Workers -> Worker]
    /\ fut \in [Futures -> FutureState]
    /\ ctl \in {"idle", "updating", "stopping"}
    /\ \A i \in Ids : producer[i].pc # "none" <=> producer[i].job # NoJob
    /\ \A w \in Workers : Busy(w) <=> worker[w].item # NoItem

\* A check is in the scheduler at most once: never twice in the queue, never
\* on two workers, never queued while a worker still runs it ("per-check
\* overlap protection", scheduler.py line 1).
NoOverlap ==
    /\ \A k, l \in DOMAIN queue : queue[k].id = queue[l].id => k = l
    /\ \A v, w \in Workers :
          Busy(v) /\ Busy(w) /\ worker[v].item.id = worker[w].item.id => v = w
    /\ \A k \in DOMAIN queue, w \in Workers :
          Busy(w) => queue[k].id # worker[w].item.id

\* _queued, _running and the two generation maps say exactly what is in the
\* queue and on the workers, whatever was replaced, cancelled or stopped.
Bookkeeping ==
    /\ \A i \in Ids :
          /\ i \in queued <=> \E k \in DOMAIN queue : queue[k].id = i
          /\ i \in running <=> \E w \in Workers : Busy(w) /\ worker[w].item.id = i
    /\ \A k \in DOMAIN queue : queuedGen[queue[k].id] = queue[k].gen
    /\ \A w \in Workers : Busy(w) => runningGen[worker[w].item.id] = worker[w].item.gen
    /\ \A i \in Ids : /\ i \notin queued => queuedGen[i] = Unknown
                      /\ i \notin running => runningGen[i] = Unknown

\* The bounded queue never holds more than its maxsize.
QueueBounded == Len(queue) <= MaxQueue

\* _known_generations never contradicts _jobs: an entry is the generation of
\* the current job, or the tombstone of a removed one.
KnownAgreesWithJobs ==
    \A i \in Ids : known[i] # Unknown =>
        known[i] = IF jobs[i] = NoJob THEN Removed ELSE jobs[i].gen

\* A tombstone lives only as long as work of the removed check is queued or
\* running: removing checks for ever does not grow _known_generations.
NoTombstoneLeak ==
    \A i \in Ids : known[i] = Removed => i \in queued \cup running

\* After stop() has returned, and while nothing else is in progress, no task
\* of the scheduler is alive: no producer, no replaced producer, no worker.
StopLeavesNoTask ==
    /\ ~started => /\ \A i \in Ids : producer[i].pc = "none"
                   /\ \A w \in Workers : worker[w].pc = "none"
    /\ ctl # "updating" => \A i \in Ids : draining[i].pc = "none"

\* A worker starts periodic work only for the current generation of a check
\* that is still scheduled, however long the item waited in the queue.
StartsOnlyCurrentWork ==
    [][\A w \in Workers :
          LET item == worker'[w].item
          IN  worker[w].pc = "get" /\ worker'[w].pc = "run" /\ item.fut = NoFuture
              => jobs[item.id] # NoJob /\ jobs[item.id].gen = item.gen]_vars

\* update() returns: every producer it cancels ends.
UpdateTerminates == (ctl = "updating") ~> (ctl # "updating")

\* stop() waits for a task that has lost its cancellation to a failing save.
StopHangs ==
    /\ ctl = "stopping"
    /\ \/ \E i \in Ids : producer[i].pc # "none" /\ producer[i].cancel = "no"
       \/ \E w \in Workers : worker[w].pc # "none" /\ worker[w].cancel = "no"

\* A manual caller of a started scheduler is always answered: a result, an
\* exception or a cancellation, across updates and stop(), unless stop() hangs.
ManualWorkResolves ==
    \A f \in Futures :
        (fut[f] = "pending" /\ started) ~> (fut[f] # "pending" \/ StopHangs)

\* stop() returns: every producer and worker it cancels ends.
StopTerminates == (ctl = "stopping") ~> (ctl # "stopping")
=============================================================================
