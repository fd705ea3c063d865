------------------------------- MODULE Checker -------------------------------
(***************************************************************************)
(* Checker of checker.py: the cycles of several checks share one Checker   *)
(* with two semaphores.  A cycle runs its targets concurrently, then its   *)
(* egress assertions; a body matcher that is a regular expression is       *)
(* evaluated in a child process that may run for ever and is killed and    *)
(* reaped, whatever happens, when the request times out or the scheduler   *)
(* stops and cancels the cycles.  A cancelled cycle does not wait for that *)
(* (gather() raises with the first of its targets): the next checker may   *)
(* find a matcher of the last one, a stray, still on its way out.          *)
(* Throughput targets are measured once per interval: their result is      *)
(* carried from cycle to cycle, and the first one is put off to a moment   *)
(* that depends on the target, so that they do not all start at once.      *)
(*                                                                         *)
(* Of time, the model keeps the position in the interval (clock), the ages *)
(* of measurements and the time left until a first one is due; a tick is a *)
(* fraction of the interval.  The semaphores of asyncio serve their        *)
(* waiters in the order of arrival.  HTTP, redirects and body limits are   *)
(* the outcomes of one step.                                               *)
(***************************************************************************)
EXTENDS Integers, FiniteSets, Sequences, SequencesExt

CONSTANTS
    Checks,       \* checks
    Targets,      \* enabled targets and egress assertions
    Of,           \* the check of each
    Kind,         \* "plain", "regex", "throughput" or "egress"
    Quorum,       \* of each check
    Offset,       \* of each target: the hash of its name, in ticks
    Interval,     \* ticks between two measurements of throughput
    MaxParallel,  \* max_parallel_requests
    MaxThroughput,\* max_parallel_throughput_requests
    MaxRestarts,  \* bound: stops of the scheduler
    None

Throughput == {k \in Targets : Kind[k] = "throughput"}
Egress == {k \in Targets : Kind[k] = "egress"}
Health == Targets \ (Throughput \cup Egress)
TargetsOf(c) == {k \in Targets : Of[k] = c}

\* What models.py and Checker.__init__ accept
ASSUME ConfigAssumption ==
    /\ Interval \in Nat \ {0} /\ MaxParallel \in Nat \ {0} /\ MaxThroughput \in Nat \ {0}
    /\ MaxRestarts \in Nat
    /\ \A c \in Checks : Quorum[c] \in 1..Cardinality(TargetsOf(c) \cap Health)
    /\ \A k \in Targets : Offset[k] \in 0..(Interval - 1)
    /\ None \notin Nat
    /\ IsFiniteSet(Targets) /\ Of \in [Targets -> Checks]

VARIABLES
    cycle,       \* where the cycle of each check is
    scheduler,   \* does the scheduler run, or was it stopped?
    task,        \* where each target is
    late,        \* the targets whose matcher has been overtaken by a timeout or cancellation
    outcome,     \* what it found
    child,       \* the child process of its matcher
    permits,     \* _semaphore
    tpermits,    \* _throughput_semaphore
    queue,       \* the targets that wait for _semaphore
    tqueue,      \* the targets that wait for _throughput_semaphore
    answered,    \* history: the health targets with the expected answer in this cycle
    verdict,     \* what the last cycle of each check has returned
    clock,       \* the time, modulo the interval
    age,         \* the age of the carried measurement
    fresh,       \* the age of a measurement of the cycle under way
    left,        \* _throughput_initial_due
    strays,      \* the matchers that the targets of earlier checkers wait for
    restarts

vars == <<cycle, scheduler, task, late, outcome, child, permits, tpermits, queue, tqueue, answered,
          verdict, clock, age, fresh, left, strays, restarts>>
stop == <<scheduler, strays, restarts>>
semaphores == <<permits, tpermits, queue, tqueue>>
schedule == <<clock, age, fresh, left>>

Ages == 0..Interval \cup {None}

TypeOK ==
    /\ cycle \in [Checks -> {"idle", "targets", "egress"}]
    /\ scheduler \in {"running", "stopped"}
    /\ task \in [Targets -> {"off", "waitT", "waitG", "request", "spawn", "match", "reap", "done"}]
    /\ late \in SUBSET Targets
    /\ outcome \in [Targets -> {"none", "success", "failure", "error", "cached", "unknown"}]
    /\ child \in [Targets -> {"none", "alive", "exited"}]
    /\ permits \in 0..MaxParallel /\ tpermits \in 0..MaxThroughput
    /\ queue \in Seq(Targets) /\ tqueue \in Seq(Throughput)
    /\ answered \in SUBSET Targets
    /\ verdict \in [Checks -> {"none", "success", "failure", "error"}]
    /\ clock \in 0..(Interval - 1)
    /\ age \in [Throughput -> Ages] /\ fresh \in [Throughput -> Ages]
    /\ left \in [Throughput -> Ages]
    /\ strays \in SUBSET [target : Targets, checker : 0..MaxRestarts, child : {"none", "alive", "exited"}]
    /\ restarts \in 0..MaxRestarts

Init ==
    /\ cycle = [c \in Checks |-> "idle"] /\ scheduler = "running"
    /\ task = [k \in Targets |-> "off"] /\ late = {}
    /\ outcome = [k \in Targets |-> "none"]
    /\ child = [k \in Targets |-> "none"]
    /\ permits = MaxParallel /\ tpermits = MaxThroughput /\ queue = <<>> /\ tqueue = <<>>
    /\ answered = {}
    /\ verdict = [c \in Checks |-> "none"]
    /\ clock = 0
    /\ age = [k \in Throughput |-> None] /\ fresh = [k \in Throughput |-> None]
    /\ left = [k \in Throughput |-> None]
    /\ strays = {} /\ restarts = 0

-----------------------------------------------------------------------------
\* The next moment, after now, that is Offset[k] ticks into an interval
FirstDue(k) == Interval - ((clock - Offset[k]) % Interval)
Left(k) == IF left[k] = None THEN FirstDue(k) ELSE left[k]

\* What a cycle does about throughput target k
Plan(k, force) ==
    IF force THEN "run"
    ELSE IF age[k] # None THEN (IF age[k] < Interval THEN "cached" ELSE "run")
    ELSE IF Left(k) > 0 THEN "unknown" ELSE "run"

\* Mutant: a first measurement that is put off is put off anew in every cycle.
NewLeftAnew(k, force) ==
    IF ~force /\ age[k] = None THEN FirstDue(k) ELSE left[k]

NewLeft(k, force) ==
    IF ~force /\ age[k] = None THEN (IF Left(k) > 0 THEN Left(k) ELSE None) ELSE left[k]

\* check_target_set(): cached and deferred targets have their result at once, the
\* others are started together.  A manual run forces throughput targets.
Begin(c, force) ==
    /\ cycle[c] = "idle" /\ scheduler = "running"
    /\ LET mine == TargetsOf(c) \ Egress
           skip == {k \in mine \cap Throughput : Plan(k, force) # "run"}
       IN /\ task' = [k \in Targets |->
                 IF k \notin mine THEN task[k]
                 ELSE IF k \in skip THEN "done"
                 ELSE IF k \in Throughput THEN "waitT" ELSE "waitG"]
          /\ outcome' = [k \in Targets |-> IF k \in skip THEN Plan(k, force) ELSE outcome[k]]
          /\ queue' = queue \o SetToSeq(mine \ Throughput)
          /\ tqueue' = tqueue \o SetToSeq((mine \cap Throughput) \ skip)
          /\ left' = [k \in Throughput |-> IF k \in mine THEN NewLeft(k, force) ELSE left[k]]
    /\ cycle' = [cycle EXCEPT ![c] = "targets"]
    /\ answered' = answered \ TargetsOf(c) /\ verdict' = [verdict EXCEPT ![c] = "none"]
    /\ UNCHANGED <<late, child, permits, tpermits, clock, age, fresh, stop>>

-----------------------------------------------------------------------------
AcquireThroughput(k) ==
    /\ tqueue # <<>> /\ k = Head(tqueue) /\ tpermits > 0
    /\ tpermits' = tpermits - 1
    /\ tqueue' = Tail(tqueue) /\ queue' = Append(queue, k)
    /\ task' = [task EXCEPT ![k] = "waitG"]
    /\ UNCHANGED <<cycle, late, outcome, child, permits, answered, verdict, schedule, stop>>

Acquire(k) ==
    /\ queue # <<>> /\ k = Head(queue) /\ permits > 0
    /\ permits' = permits - 1 /\ queue' = Tail(queue)
    /\ task' = [task EXCEPT ![k] = "request"]
    /\ UNCHANGED <<cycle, late, outcome, child, tpermits, tqueue, answered, verdict, schedule, stop>>

\* check_target() and check_egress() give back what they hold and return.
Finish(k, result) ==
    /\ task' = [task EXCEPT ![k] = "done"]
    /\ outcome' = [outcome EXCEPT ![k] = result]
    /\ answered' = IF result = "success" /\ k \in Health THEN answered \cup {k} ELSE answered
    /\ permits' = permits + 1
    /\ tpermits' = IF k \in Throughput THEN tpermits + 1 ELSE tpermits
    /\ fresh' = [j \in Throughput |-> IF j = k THEN 0 ELSE fresh[j]]
    /\ late' = late \ {k}
    /\ UNCHANGED <<queue, tqueue>>

\* The states of _target_error_result(): what the network may have done is a
\* failure, what the prober or its configuration has done is an error.
Faults == {"failure", "error"}

\* The request has ended: with the expected answer, another one or an exception;
\* a body may have to be matched.
Respond(k) ==
    /\ task[k] = "request" /\ k \notin Egress
    /\ \/ /\ Kind[k] = "regex"
          /\ task' = [task EXCEPT ![k] = "spawn"]
          /\ UNCHANGED <<outcome, answered, semaphores, fresh, late>>
       \/ Kind[k] # "regex" /\ Finish(k, "success")
       \/ \E result \in Faults : Finish(k, result)
    /\ UNCHANGED <<cycle, child, verdict, clock, age, left, stop>>

\* check_egress(): the address seen is one of the expected ones or not, or there is
\* an error, of which the deadline is one.
EgressResponds(k) ==
    /\ task[k] = "request" /\ k \in Egress
    /\ \E result \in {"success"} \cup Faults : Finish(k, result)
    /\ UNCHANGED <<cycle, child, verdict, clock, age, left, stop>>

\* Mutant: a child that was being created when the request timed out is left to
\* itself.
SpawnedUnwatched(k) ==
    /\ task[k] = "spawn"
    /\ \/ Finish(k, "error") /\ UNCHANGED child
       \/ child' = [child EXCEPT ![k] = "alive"]
          /\ \/ k \in late /\ Finish(k, "failure")
             \/ /\ k \notin late /\ task' = [task EXCEPT ![k] = "match"]
                /\ UNCHANGED <<outcome, answered, semaphores, fresh, late>>
    /\ UNCHANGED <<cycle, verdict, clock, age, left, stop>>

\* _start_regex_process(): the child exists, or could not be created.
Spawned(k) ==
    /\ task[k] = "spawn"
    /\ \/ Finish(k, "error") /\ UNCHANGED child
       \/ /\ child' = [child EXCEPT ![k] = "alive"]
          /\ task' = [task EXCEPT ![k] = IF k \in late THEN "reap" ELSE "match"]
          /\ UNCHANGED <<outcome, answered, semaphores, fresh, late>>
    /\ UNCHANGED <<cycle, verdict, clock, age, left, stop>>

Matched(k) ==
    /\ task[k] = "match" /\ child[k] = "exited"
    /\ child' = [child EXCEPT ![k] = "none"]
    /\ \E result \in {"success"} \cup Faults : Finish(k, result)
    /\ UNCHANGED <<cycle, verdict, clock, age, left, stop>>

\* The deadline of the request: a child is killed and waited for.
Timeout(k) ==
    /\ \/ task[k] = "request" /\ k \notin Egress /\ Finish(k, "failure")
       \/ /\ task[k] \in {"spawn", "match"}
          /\ late' = late \cup {k}
          /\ task' = [task EXCEPT ![k] = IF @ = "match" THEN "reap" ELSE @]
          /\ UNCHANGED <<outcome, answered, semaphores, fresh>>
    /\ UNCHANGED <<cycle, child, verdict, clock, age, left, stop>>

\* Mutant: the child is waited for without being killed.
ReapedUnkilled(k) ==
    /\ task[k] = "reap" /\ child[k] = "none"
    /\ Finish(k, "failure")
    /\ UNCHANGED <<cycle, child, verdict, clock, age, left, stop>>

\* _wait_killed(): cancellations do not end this wait.  A cancelled target has no
\* result.
Reaped(k) ==
    /\ task[k] = "reap" /\ child[k] = "exited"
    /\ child' = [child EXCEPT ![k] = "none"]
    /\ Finish(k, IF scheduler = "running" THEN "failure" ELSE "none")
    /\ UNCHANGED <<cycle, verdict, clock, age, left, stop>>

\* The matcher ends; or it was killed.
ChildExits(k) ==
    /\ child[k] = "alive"
    /\ child' = [child EXCEPT ![k] = "exited"]
    /\ UNCHANGED <<cycle, task, late, outcome, semaphores, answered, verdict, schedule, stop>>

-----------------------------------------------------------------------------
Ended(c, kinds) == \A k \in TargetsOf(c) \cap kinds : task[k] = "done"

TargetsEnded(c) ==
    /\ cycle[c] = "targets" /\ scheduler = "running" /\ Ended(c, Targets \ Egress)
    /\ cycle' = [cycle EXCEPT ![c] = "egress"]
    /\ task' = [k \in Targets |-> IF k \in TargetsOf(c) \cap Egress THEN "waitG" ELSE task[k]]
    /\ queue' = queue \o SetToSeq(TargetsOf(c) \cap Egress)
    /\ UNCHANGED <<late, outcome, child, permits, tpermits, tqueue, answered, verdict, schedule, stop>>

\* Mutant: throughput targets count towards the quorum.
VerdictOfAll(c, found) ==
    LET mine == TargetsOf(c) \ Egress
    IN IF Cardinality({k \in mine : found[k] \in {"success", "cached"}}) >= Quorum[c] THEN "success"
       ELSE IF \E k \in mine : found[k] = "error" THEN "error" ELSE "failure"

\* The state of a cycle in which the targets found this
Verdict(c, found) ==
    LET mine == TargetsOf(c) \cap Health
    IN IF Cardinality({k \in mine : found[k] = "success"}) >= Quorum[c] THEN "success"
       ELSE IF \E k \in mine : found[k] = "error" THEN "error" ELSE "failure"

\* The cycle returns, and its measurements are carried to the next one.  When
\* the client could not be made or closed, what was run is an error instead.
End(c) ==
    /\ cycle[c] = "egress" /\ scheduler = "running" /\ Ended(c, Targets)
    /\ \E broken \in BOOLEAN :
         LET ran(k) == outcome[k] \notin {"cached", "unknown"}
             found == [k \in Targets |->
                 IF broken /\ k \in TargetsOf(c) /\ ran(k) THEN "error" ELSE outcome[k]]
         IN /\ verdict' = [verdict EXCEPT ![c] = Verdict(c, found)]
            /\ outcome' = [k \in Targets |-> IF Of[k] = c THEN "none" ELSE outcome[k]]
            /\ age' = [k \in Throughput |->
                 IF Of[k] = c /\ ran(k) THEN (IF broken THEN 0 ELSE fresh[k]) ELSE age[k]]
    /\ fresh' = [k \in Throughput |-> IF Of[k] = c THEN None ELSE fresh[k]]
    /\ cycle' = [cycle EXCEPT ![c] = "idle"]
    /\ task' = [k \in Targets |-> IF Of[k] = c THEN "off" ELSE task[k]]
    /\ UNCHANGED <<late, child, semaphores, answered, clock, left, stop>>

-----------------------------------------------------------------------------
\* Scheduler.stop(): the cycles are cancelled and all their targets with them.  Who
\* waits or asks leaves and gives back what it holds, a matcher is killed and
\* waited for.
Stop ==
    LET asking == {k \in Targets : task[k] = "request"}
        limited == {k \in Throughput : task[k] \in {"waitG", "request"}}
    IN
    /\ scheduler = "running" /\ restarts < MaxRestarts
    /\ scheduler' = "stopped" /\ restarts' = restarts + 1
    /\ late' = late \cup {k \in Targets : task[k] \in {"spawn", "match"}}
    /\ task' = [k \in Targets |->
           CASE task[k] \in {"waitT", "waitG", "request"} -> "done"
             [] task[k] = "match" -> "reap"
             [] OTHER -> task[k]]
    /\ permits' = permits + Cardinality(asking)
    /\ tpermits' = tpermits + Cardinality(limited)
    /\ queue' = <<>> /\ tqueue' = <<>>
    /\ UNCHANGED <<cycle, outcome, child, answered, verdict, schedule, strays>>

\* gather() raises once one of them has ended without a result, or all have ended.
\* The others go on alone.
Cancelled(c) ==
    /\ scheduler = "stopped" /\ cycle[c] # "idle"
    /\ \/ \E k \in TargetsOf(c) : task[k] = "done" /\ outcome[k] = "none"
       \/ \A k \in TargetsOf(c) : task[k] \in {"off", "done"}
    /\ cycle' = [cycle EXCEPT ![c] = "idle"]
    /\ outcome' = [k \in Targets |-> IF Of[k] = c THEN "none" ELSE outcome[k]]
    /\ answered' = answered \ TargetsOf(c)
    /\ fresh' = [k \in Throughput |-> IF Of[k] = c THEN None ELSE fresh[k]]
    /\ UNCHANGED <<task, late, child, semaphores, verdict, clock, age, left, stop>>

-----------------------------------------------------------------------------
\* A result without targets takes the place of the last one: _scheduler_error(),
\* or the failure to save it.
Forget(c) ==
    /\ \E k \in Throughput : Of[k] = c /\ age[k] # None
    /\ age' = [k \in Throughput |-> IF Of[k] = c THEN None ELSE age[k]]
    /\ UNCHANGED <<cycle, task, late, outcome, child, semaphores, answered, verdict, clock, fresh,
                   left, stop>>

\* _apply_config() installs a new Checker when the old scheduler has stopped; what
\* targets of the old one still wait for is none of its concern.
NewChecker ==
    /\ scheduler = "stopped" /\ \A c \in Checks : cycle[c] = "idle"
    /\ scheduler' = "running"
    /\ strays' = strays \cup {[target |-> k, checker |-> restarts, child |-> child[k]] :
                                k \in {j \in Targets : task[j] \in {"spawn", "reap"}}}
    /\ task' = [k \in Targets |-> "off"] /\ outcome' = [k \in Targets |-> "none"]
    /\ child' = [k \in Targets |-> "none"] /\ late' = {}
    /\ left' = [k \in Throughput |-> None]
    /\ permits' = MaxParallel /\ tpermits' = MaxThroughput
    /\ UNCHANGED <<cycle, queue, tqueue, answered, verdict, clock, age, fresh, restarts>>

\* The child of a stray is created, or could not be; it dies, and is reaped.
Stray(o) ==
    /\ o \in strays
    /\ strays' \in
          LET to(state) == (strays \ {o}) \cup {[o EXCEPT !.child = state]}
          IN CASE o.child = "none" -> {to("alive"), strays \ {o}}
               [] o.child = "alive" -> {to("exited")}
               [] o.child = "exited" -> {strays \ {o}}
    /\ UNCHANGED <<cycle, task, late, outcome, child, semaphores, answered, verdict, schedule,
                   scheduler, restarts>>

Tick ==
    LET older(a) == IF a = None \/ a = Interval THEN a ELSE a + 1 IN
    /\ clock' = (clock + 1) % Interval
    /\ age' = [k \in Throughput |-> older(age[k])]
    /\ fresh' = [k \in Throughput |-> older(fresh[k])]
    /\ left' = [k \in Throughput |-> IF left[k] = None \/ left[k] = 0 THEN left[k] ELSE left[k] - 1]
    /\ UNCHANGED <<cycle, task, late, outcome, child, semaphores, answered, verdict, stop>>

-----------------------------------------------------------------------------
TargetStep(k) ==
    \/ Respond(k) \/ EgressResponds(k) \/ Spawned(k) \/ Matched(k) \/ Timeout(k) \/ Reaped(k)
CycleStep(c) == TargetsEnded(c) \/ End(c) \/ Cancelled(c)

Next ==
    \/ \E c \in Checks, force \in BOOLEAN : Begin(c, force)
    \/ \E c \in Checks : CycleStep(c) \/ Forget(c)
    \/ \E k \in Targets :
          AcquireThroughput(k) \/ Acquire(k) \/ TargetStep(k) \/ ChildExits(k)
    \/ \E o \in strays : Stray(o)
    \/ Stop \/ NewChecker \/ Tick

Spec == Init /\ [][Next]_vars

\* A free permit reaches the first waiter, deadlines come and a killed child exits.
KillEnds(k) == task[k] = "reap" /\ ChildExits(k)
Fairness ==
    /\ WF_vars(\E k \in Targets : AcquireThroughput(k))
    /\ WF_vars(\E k \in Targets : Acquire(k))
    /\ \A k \in Targets : WF_vars(TargetStep(k)) /\ WF_vars(KillEnds(k))
    /\ \A c \in Checks : WF_vars(CycleStep(c))
    /\ WF_vars(\E o \in strays : Stray(o))

FairSpec == Spec /\ Fairness

-----------------------------------------------------------------------------
\* Permits are conserved on every way out of a target, and the child of a matcher
\* exists only while its target holds a permit: a timed-out or cancelled matcher
\* does not go on using the processor beside its successors.  What an earlier
\* checker has left behind is no more than it had permits for.
Holding == {k \in Targets : task[k] \in {"request", "spawn", "match", "reap"}}
HoldingThroughput == {k \in Throughput : task[k] \in {"waitG", "request"}}
NothingLeaks ==
    /\ permits + Cardinality(Holding) = MaxParallel
    /\ tpermits + Cardinality(HoldingThroughput) = MaxThroughput
    /\ \A k \in Targets : child[k] # "none" => k \in Holding
    /\ \A n \in 1..restarts : Cardinality({o \in strays : o.checker = n}) <= MaxParallel

\* A check that succeeds had the expected answer of a quorum of its health targets
\* in this very cycle; one that fails had not, and was hindered by no error of
\* its own.  What is carried over and what throughput and egress found has no part.
VerdictSound ==
    \A c \in Checks : cycle[c] = "idle" =>
        LET good == Cardinality(answered \cap TargetsOf(c))
        IN /\ verdict[c] = "success" => good >= Quorum[c]
           /\ verdict[c] = "failure" => good < Quorum[c]

\* Every cycle ends, in the presence of matchers that never do and of another check
\* whose cycles follow each other without a pause; and so does every stray.
CyclesEnd ==
    /\ \A c \in Checks : cycle[c] # "idle" ~> cycle[c] = "idle"
    /\ strays # {} ~> strays = {}

\* The moment of a first measurement comes nearer and is not put off, whatever cycles
\* begin, end or are forgotten in between, until a new checker is made.
DeferralShrinks ==
    [][\A k \in Throughput : left[k] # None /\ left'[k] # None => left'[k] <= left[k]]_vars
=============================================================================
