---------------------------- MODULE RuntimePool ----------------------------
(***************************************************************************)
(* runtime_pool.py: who owns the Xray processes.  A fresh check starts one *)
(* and stops it; persistent checks share one per key, which stays up       *)
(* between cycles and keeps its slot.  Slots bound the number of           *)
(* processes, the lock of a key serialises its start, reuse and removal,   *)
(* and a failed runtime is not started again before its backoff is over.   *)
(*                                                                         *)
(* Users are the scheduler's workers inside acquire(); the owner is the    *)
(* service, which calls reconcile() and close(), one at a time, under its  *)
(* _mutation_lock.  Everything runs on one event loop: an action is what   *)
(* happens between two awaits that suspend.  Locks and the semaphore are   *)
(* first come first served: the head of a key's queue holds its lock.      *)
(* Taking a free lock does not suspend; the walk of reconcile() over the   *)
(* keys depends on it, and is one action up to the next eviction.          *)
(*                                                                         *)
(* A key stands for entry, mode and tags, a check adds the generation.     *)
(* Time advances by Tick.  A start that fails has reaped its own process;  *)
(* stopping a runtime always succeeds.                                     *)
(***************************************************************************)
EXTENDS Queues, FiniteSets

CONSTANTS
    Users,          \* worker tasks that run checks
    Keys, Gens,     \* profiles and their generations
    Inventories,    \* the sets of enabled checks that may be published
    Limit,          \* max_active_runtimes
    InitialBackoff, MaxBackoff,   \* in ticks
    NRuntimes,      \* bound: runtimes that are remembered at a time
    Owner, NoGen, AnyGen

Check == [key : Keys, gen : Gens, life : {"fresh", "persistent"},
          profile : {"plain", "observatory"}]

Persistent(inv) == {c \in inv : c.life = "persistent"}

\* compile_inventory(): persistent profiles fit, and leave a slot to fresh checks.
Fits(inv) ==
    LET profiles == {<<c.key, c.gen>> : c \in Persistent(inv)}
    IN  /\ Cardinality(profiles) <= Limit
        /\ Persistent(inv) # inv => Cardinality(profiles) < Limit

ASSUME FiniteAssumption == IsFiniteSet(Users) /\ IsFiniteSet(Keys)
ASSUME LimitAssumption == Limit \in Nat \ {0}
ASSUME BackoffAssumption ==
    InitialBackoff \in Nat /\ MaxBackoff \in Nat /\ InitialBackoff <= MaxBackoff
ASSUME RuntimesAssumption == NRuntimes \in Nat
ASSUME InventoriesAssumption ==
    \A inv \in Inventories :
        /\ inv \subseteq Check /\ Fits(inv)
        /\ \A c, d \in inv : c.key = d.key => c.gen = d.gen
ASSUME NamesAssumption ==
    Owner \notin Users /\ NoGen \notin Gens /\ AnyGen \notin Gens /\ NoGen # AnyGen

Runtimes == 1..NRuntimes
NoRt == 0
Profiles == Keys \X Gens

VARIABLES
    inventory,   \* the checks that may be run
    status,      \* of the pool: open, closing, managerClosing, closed
    desired,     \* _desired_persistent
    slots,       \* _slots: free ones
    slotQueue,   \* users waiting for one
    persistent,  \* _persistent
    keyLocks,    \* the keys of _locks
    keyQueue,    \* its locks: holder, then waiters
    startQueue,  \* _start_locks: holder, then waiters
    backoff,     \* _restart_backoffs
    runtime,     \* the processes, with the profile each was started for
    user,        \* where each user is inside acquire()
    owner        \* where reconcile() or close() is

vars == <<inventory, status, desired, slots, slotQueue, persistent, keyLocks, keyQueue,
          startQueue, backoff, runtime, user, owner>>

NoEntry == [rt |-> NoRt, gen |-> NoGen, stable |-> 0]
Entry == [rt : Runtimes \cup {NoRt}, gen : Gens \cup {NoGen}, stable : 0..MaxBackoff]
NoBackoff == [delay |-> 0, wait |-> 0]
NoRuntime == [state |-> "none", profile |-> <<>>]
NoUser == [pc |-> "idle", check |-> <<>>, rt |-> NoRt, delay |-> 0]
NoOwner == [pc |-> "idle", key |-> <<>>, todo |-> {}]

Alive(r) == runtime[r].state = "up"
ProfileOf(c) == <<c.key, c.gen>>
IsFresh(c) == c.life = "fresh"
Closed == status # "open"

Init ==
    /\ inventory \in Inventories
    /\ status = "open"
    /\ desired = [k \in Keys |-> AnyGen]
    /\ slots = Limit /\ slotQueue = <<>>
    /\ persistent = [k \in Keys |-> NoEntry]
    /\ keyLocks = {}
    /\ keyQueue = [k \in Keys |-> <<>>]
    /\ startQueue = [p \in Profiles |-> <<>>]
    /\ backoff = [p \in Profiles |-> NoBackoff]
    /\ runtime = [r \in Runtimes |-> NoRuntime]
    /\ user = [u \in Users |-> NoUser]
    /\ owner = NoOwner

-----------------------------------------------------------------------------
Min2(a, b) == IF a <= b THEN a ELSE b

\* _record_restart_failure()
AfterFailure(b) ==
    LET delay == IF b.delay = 0 THEN InitialBackoff ELSE Min2(MaxBackoff, 2 * b.delay)
    IN  [delay |-> delay, wait |-> delay]

\* _reset_if_stable() for the profile kept under key k
AfterReset(k) ==
    IF persistent[k].stable = 0
    THEN [backoff EXCEPT ![<<k, persistent[k].gen>>] = NoBackoff]
    ELSE backoff

IsDesired(c) == desired[c.key] \in {c.gen, AnyGen}

\* Mutant: nobody waits for the end of the stop.
NotAwaited(r) == runtime

\* XrayRuntime.stop() begins, on a process that may have died or been stopped
\* by someone else, and ends.
BeginStop(rts, r) == [rts EXCEPT ![r].state = IF @ = "up" THEN "stopping" ELSE @]
Stopping(r) == BeginStop(runtime, r)
Stopped(r) == [runtime EXCEPT ![r].state = "stopped"]

\* A runtime object that has ended and that nobody refers to any more is gone.
Collected(rts) ==
    [r \in Runtimes |->
        IF \/ rts[r].state \in {"up", "stopping"}
           \/ \E k \in Keys : persistent'[k].rt = r
           \/ \E u \in Users : user'[u].rt = r
        THEN rts[r] ELSE NoRuntime]

\* The user leaves acquire(), and with it every lock it holds or waits for.
Leave(u) ==
    /\ user' = [user EXCEPT ![u] = NoUser]
    /\ keyQueue' = [k \in Keys |-> Without(keyQueue[k], u)]
    /\ startQueue' = [p \in Profiles |-> Without(startQueue[p], u)]

\* It waits for the lock of its key, which _locks.setdefault() may create.
WaitForKey(u, pc) ==
    LET k == user[u].check.key
    IN  /\ user' = [user EXCEPT ![u].pc = pc]
        /\ keyLocks' = keyLocks \cup {k}
        /\ keyQueue' = [keyQueue EXCEPT ![k] = Append(@, u)]

At(u, pc) == user[u].pc = pc
HasKey(u, pc) == At(u, pc) /\ Holds(keyQueue[user[u].check.key], u)

shared == <<inventory, status, desired, owner>>

-----------------------------------------------------------------------------
\* acquire(), up to the lock of the key or of the start
Acquire(u, c) ==
    /\ At(u, "idle") /\ c \in inventory /\ ~Closed
    /\ \/ /\ IsFresh(c)
          /\ user' = [user EXCEPT ![u] = [NoUser EXCEPT !.pc = "wantStart", !.check = c]]
          /\ startQueue' = [startQueue EXCEPT ![ProfileOf(c)] = Append(@, u)]
          /\ UNCHANGED <<keyLocks, keyQueue>>
       \/ /\ ~IsFresh(c)
          /\ user' = [user EXCEPT ![u] = [NoUser EXCEPT !.pc = "wantKey", !.check = c]]
          /\ keyLocks' = keyLocks \cup {c.key}
          /\ keyQueue' = [keyQueue EXCEPT ![c.key] = Append(@, u)]
          /\ UNCHANGED startQueue
    /\ UNCHANGED <<slots, slotQueue, persistent, backoff, runtime>> /\ UNCHANGED shared

\* _persistent_runtime() with the lock: the request is no longer current ...
Obsolete(u) ==
    /\ HasKey(u, "wantKey")
    /\ Closed \/ ~IsDesired(user[u].check)
    /\ Leave(u)
    /\ UNCHANGED <<slots, slotQueue, persistent, keyLocks, backoff, runtime>>
    /\ UNCHANGED shared

\* Mutant: whatever runtime is up is used again.
ReuseAnyGeneration(u) ==
    LET c == user[u].check IN
    /\ HasKey(u, "wantKey") /\ ~Closed /\ IsDesired(c)
    /\ persistent[c.key].rt # NoRt /\ Alive(persistent[c.key].rt)
    /\ backoff' = AfterReset(c.key)
    /\ user' = [user EXCEPT ![u].pc = "check", ![u].rt = persistent[c.key].rt]
    /\ keyQueue' = [keyQueue EXCEPT ![c.key] = Tail(@)]
    /\ UNCHANGED <<slots, slotQueue, persistent, keyLocks, startQueue, runtime>>
    /\ UNCHANGED shared

\* ... or a runtime of its generation is up and is used again ...
Reuse(u) ==
    LET c == user[u].check IN
    /\ HasKey(u, "wantKey") /\ ~Closed /\ IsDesired(c)
    /\ persistent[c.key].rt # NoRt
    /\ persistent[c.key].gen = c.gen /\ Alive(persistent[c.key].rt)
    /\ backoff' = AfterReset(c.key)
    /\ user' = [user EXCEPT ![u].pc = "check", ![u].rt = persistent[c.key].rt]
    /\ keyQueue' = [keyQueue EXCEPT ![c.key] = Tail(@)]
    /\ UNCHANGED <<slots, slotQueue, persistent, keyLocks, startQueue, runtime>>
    /\ UNCHANGED shared

\* ... or there is a dead or an older one to be removed first ...
Replace(u) ==
    LET c == user[u].check
        old == persistent[c.key]
    IN
    /\ HasKey(u, "wantKey") /\ ~Closed /\ IsDesired(c)
    /\ old.rt # NoRt
    /\ old.gen # c.gen \/ ~Alive(old.rt)
    /\ user' = [user EXCEPT ![u].pc = "replace"]
    /\ runtime' = Stopping(old.rt)
    /\ UNCHANGED <<slots, slotQueue, persistent, keyLocks, keyQueue, startQueue, backoff>>
    /\ UNCHANGED shared

\* ... or there is none, and one is started.
BeginStart(u) ==
    LET c == user[u].check IN
    /\ HasKey(u, "wantKey") /\ ~Closed /\ IsDesired(c)
    /\ persistent[c.key].rt = NoRt
    /\ user' = [user EXCEPT ![u].pc = "wantStart", ![u].delay = backoff[ProfileOf(c)].delay]
    /\ startQueue' = [startQueue EXCEPT ![ProfileOf(c)] = Append(@, u)]
    /\ UNCHANGED <<slots, slotQueue, persistent, keyLocks, keyQueue, backoff, runtime>>
    /\ UNCHANGED shared

\* _start_runtime() with its lock: _enforce_restart_backoff(), then the slot.
EnforceBackoff(u) ==
    LET p == ProfileOf(user[u].check) IN
    /\ At(u, "wantStart") /\ Holds(startQueue[p], u)
    /\ \/ backoff[p].wait > 0 /\ Leave(u) /\ UNCHANGED slotQueue
       \/ /\ backoff[p].wait = 0
          /\ user' = [user EXCEPT ![u].pc = "wantSlot"]
          /\ slotQueue' = Append(slotQueue, u)
          /\ UNCHANGED <<keyQueue, startQueue>>
    /\ UNCHANGED <<slots, persistent, keyLocks, backoff, runtime>> /\ UNCHANGED shared

TakeSlot(u) ==
    /\ At(u, "wantSlot") /\ Holds(slotQueue, u) /\ slots > 0
    /\ slots' = slots - 1 /\ slotQueue' = Tail(slotQueue)
    /\ user' = [user EXCEPT ![u].pc = "starting"]
    /\ UNCHANGED <<persistent, keyLocks, keyQueue, startQueue, backoff, runtime>>
    /\ UNCHANGED shared

-----------------------------------------------------------------------------
\* A runtime nobody remembers: the next process gets its number.
Unused == {r \in Runtimes : /\ \A k \in Keys : persistent[k].rt # r
                            /\ \A u \in Users : user[u].rt # r}
NextRuntime == CHOOSE r \in Unused : TRUE

\* manager.start_for() raises, as it does once the manager is closed.
StartFails(u) ==
    LET p == ProfileOf(user[u].check) IN
    /\ At(u, "starting")
    /\ backoff' = [backoff EXCEPT ![p] = AfterFailure(@)]
    /\ slots' = slots + 1
    /\ Leave(u)
    /\ UNCHANGED <<slotQueue, persistent, keyLocks, runtime>> /\ UNCHANGED shared

\* The start of runtime r is complete.  A fresh one is used at once; for a
\* persistent one it is asked again whether it is still wanted, and if so it is
\* published, otherwise discarded.
Complete(u, r, started) ==
    LET c == user[u].check
        p == ProfileOf(c)
    IN
    /\ startQueue' = [startQueue EXCEPT ![p] = Tail(@)]
    /\ \/ /\ IsFresh(c)
          /\ user' = [user EXCEPT ![u].pc = "using", ![u].rt = r]
          /\ backoff' = [backoff EXCEPT ![p] = NoBackoff]
          /\ runtime' = started
          /\ UNCHANGED <<persistent, keyQueue>>
       \/ /\ ~IsFresh(c) /\ ~Closed /\ IsDesired(c)
          /\ persistent' = [persistent EXCEPT ![c.key] =
                               [rt |-> r, gen |-> c.gen, stable |-> user[u].delay]]
          /\ keyQueue' = [keyQueue EXCEPT ![c.key] = Tail(@)]
          /\ user' = [user EXCEPT ![u].pc = "check", ![u].rt = r, ![u].delay = 0]
          /\ runtime' = started
          /\ UNCHANGED backoff
       \/ /\ ~IsFresh(c) /\ (Closed \/ ~IsDesired(c))
          /\ user' = [user EXCEPT ![u].pc = "discard", ![u].rt = r]
          /\ runtime' = BeginStop(started, r)
          /\ UNCHANGED <<persistent, keyQueue, backoff>>
    /\ UNCHANGED <<slots, slotQueue, keyLocks>> /\ UNCHANGED shared

\* Mutant: the manager starts a process after it has been closed.
StartSucceedsAfterClose(u) ==
    LET c == user[u].check
        r == NextRuntime
        started == [runtime EXCEPT ![r] =
                       [state |-> "up", profile |-> ProfileOf(c)]]
    IN
    /\ At(u, "starting") /\ Unused # {}
    /\ Complete(u, r, started)

\* manager.start_for() returns; a profile with an observatory warms up first.
StartSucceeds(u) ==
    LET c == user[u].check
        r == NextRuntime
        started == [runtime EXCEPT ![r] =
                       [state |-> "up", profile |-> ProfileOf(c)]]
    IN
    /\ At(u, "starting") /\ status \in {"open", "closing"} /\ Unused # {}
    /\ \/ c.profile = "plain" /\ Complete(u, r, started)
       \/ /\ c.profile = "observatory"
          /\ runtime' = started
          /\ user' = [user EXCEPT ![u].pc = "warming", ![u].rt = r]
          /\ UNCHANGED <<slots, slotQueue, persistent, keyLocks, keyQueue, startQueue, backoff>>
          /\ UNCHANGED shared

\* _warm_observatory()
WarmedUp(u) ==
    /\ At(u, "warming") /\ Alive(user[u].rt)
    /\ Complete(u, user[u].rt, runtime)

WarmUpFails(u) ==
    LET p == ProfileOf(user[u].check) IN
    /\ At(u, "warming") /\ ~Alive(user[u].rt)
    /\ backoff' = [backoff EXCEPT ![p] = AfterFailure(@)]
    /\ user' = [user EXCEPT ![u].pc = "discard"]
    /\ runtime' = Stopping(user[u].rt)
    /\ UNCHANGED <<slots, slotQueue, persistent, keyLocks, keyQueue, startQueue>>
    /\ UNCHANGED shared

\* Mutant: the slot of a discarded runtime is not given back.
DiscardedKeepingSlot(u) ==
    /\ user[u].pc \in {"discard", "stopping"}
    /\ Leave(u)
    /\ UNCHANGED <<slots, slotQueue, persistent, keyLocks, backoff>> /\ UNCHANGED shared
    /\ runtime' = Collected(Stopped(user[u].rt))

\* _discard_runtime(), or the stop of a fresh runtime, is complete.
Discarded(u) ==
    /\ user[u].pc \in {"discard", "stopping"}
    /\ slots' = slots + 1
    /\ Leave(u)
    /\ UNCHANGED <<slotQueue, persistent, keyLocks, backoff>> /\ UNCHANGED shared
    /\ runtime' = Collected(Stopped(user[u].rt))

-----------------------------------------------------------------------------
\* ensure_running() and ensure_ready() on a persistent runtime
CheckPasses(u) ==
    /\ At(u, "check") /\ Alive(user[u].rt)
    /\ user' = [user EXCEPT ![u].pc = "using"]
    /\ UNCHANGED <<slots, slotQueue, persistent, keyLocks, keyQueue, startQueue, backoff,
                   runtime>>
    /\ UNCHANGED shared

CheckFails(u) ==
    /\ At(u, "check")
    /\ WaitForKey(u, "wantRetire")
    /\ UNCHANGED <<slots, slotQueue, persistent, startQueue, backoff, runtime>>
    /\ UNCHANGED shared

\* The body of acquire() ends, normally or by an exception.
UseEnds(u) ==
    LET c == user[u].check IN
    /\ At(u, "using")
    /\ \/ /\ IsFresh(c)
          /\ user' = [user EXCEPT ![u].pc = "stopping"]
          /\ runtime' = Stopping(user[u].rt)
          /\ UNCHANGED <<keyLocks, keyQueue, startQueue>>
       \/ /\ ~IsFresh(c)
          /\ \/ WaitForKey(u, "wantFinish") /\ UNCHANGED startQueue
             \/ ~Alive(user[u].rt) /\ WaitForKey(u, "wantRetire") /\ UNCHANGED startQueue
             \/ Alive(user[u].rt) /\ Leave(u) /\ UNCHANGED keyLocks
          /\ UNCHANGED runtime
    /\ UNCHANGED <<slots, slotQueue, persistent, backoff>> /\ UNCHANGED shared

IsCurrent(u) == persistent[user[u].check.key].rt = user[u].rt

\* _retire_persistent() or _finish_persistent_cycle() with the lock: only the
\* runtime the user had is removed.
Retire(u) ==
    /\ \/ HasKey(u, "wantRetire") /\ IsCurrent(u)
       \/ HasKey(u, "wantFinish") /\ IsCurrent(u) /\ ~Alive(user[u].rt)
    /\ user' = [user EXCEPT ![u].pc = "retire"]
    /\ runtime' = Stopping(user[u].rt)
    /\ UNCHANGED <<slots, slotQueue, persistent, keyLocks, keyQueue, startQueue, backoff>>
    /\ UNCHANGED shared

Finish(u) ==
    /\ \/ /\ HasKey(u, "wantRetire") \/ HasKey(u, "wantFinish")
          /\ ~IsCurrent(u)
          /\ UNCHANGED backoff
       \/ /\ HasKey(u, "wantFinish") /\ IsCurrent(u) /\ Alive(user[u].rt)
          /\ backoff' = AfterReset(user[u].check.key)
    /\ Leave(u)
    /\ UNCHANGED <<slots, slotQueue, persistent, keyLocks>> /\ UNCHANGED shared
    /\ runtime' = Collected(runtime)

\* _remove_persistent_locked() after the runtime of key k has stopped
Removed(k, unexpected) ==
    LET e == persistent[k]
        p == <<k, e.gen>>
    IN
    /\ persistent' = [persistent EXCEPT ![k] = NoEntry]
    /\ slots' = slots + 1
    /\ runtime' = Collected(Stopped(e.rt))
    /\ backoff' = [backoff EXCEPT ![p] = IF unexpected THEN AfterFailure(@) ELSE @]

Retired(u) ==
    /\ At(u, "retire")
    /\ Leave(u)
    /\ Removed(user[u].check.key, TRUE)
    /\ UNCHANGED <<slotQueue, keyLocks>> /\ UNCHANGED shared

\* After the old runtime is gone the user starts its own, unless cancelled.
Replaced(u) ==
    LET c == user[u].check
        p == ProfileOf(c)
        unexpected == persistent[c.key].gen = c.gen
    IN
    /\ At(u, "replace")
    /\ \/ /\ user' = [user EXCEPT ![u].pc = "wantStart",
                                  ![u].delay = IF unexpected THEN AfterFailure(backoff[p]).delay
                                               ELSE backoff[p].delay]
          /\ startQueue' = [startQueue EXCEPT ![p] = Append(@, u)]
          /\ UNCHANGED keyQueue
       \/ Leave(u)
    /\ Removed(c.key, unexpected)
    /\ UNCHANGED <<slotQueue, keyLocks>> /\ UNCHANGED shared

\* The task is cancelled where it waits.  Where a process is being stopped the
\* cancellation is kept back until it has (Discarded, Retired, Replaced).
Cancelled(u) ==
    /\ UNCHANGED <<persistent, keyLocks, backoff>> /\ UNCHANGED shared
    /\ \/ /\ user[u].pc \in {"wantKey", "wantStart", "wantSlot", "check", "wantRetire",
                             "wantFinish"}
          /\ slotQueue' = Without(slotQueue, u)
          /\ Leave(u) /\ UNCHANGED slots
          /\ runtime' = Collected(runtime)
       \/ At(u, "starting") /\ slots' = slots + 1 /\ Leave(u) /\ UNCHANGED <<slotQueue, runtime>>
       \/ /\ At(u, "warming")
          /\ user' = [user EXCEPT ![u].pc = "discard"]
          /\ runtime' = Stopping(user[u].rt)
          /\ UNCHANGED <<slots, slotQueue, keyQueue, startQueue>>

-----------------------------------------------------------------------------
\* The owner's walk over the keys, from the view v: the inventory, the status,
\* the desired map, and entries, locks, backoffs and processes as it finds them.
View == [inv |-> inventory, status |-> status, desired |-> desired,
         entries |-> persistent, queues |-> keyQueue, backoff |-> backoff,
         runtime |-> runtime]

\* Mutant: the generation is not compared.
KeptWhateverGeneration(k, v) ==
    /\ v.entries[k].rt # NoRt
    /\ v.desired[k] # NoGen
    /\ v.runtime[v.entries[k].rt].state = "up"

Kept(k, v) == /\ v.entries[k].rt # NoRt
              /\ v.desired[k] = v.entries[k].gen
              /\ v.runtime[v.entries[k].rt].state = "up"

NothingToDo(k, v) == v.entries[k].rt = NoRt \/ Kept(k, v)

\* _reset_if_stable() for the keys in K
ResetStable(K, v) ==
    LET reset == {<<k, v.entries[k].gen>> : k \in {j \in K : /\ v.entries[j].rt # NoRt
                                                            /\ v.entries[j].stable = 0}}
    IN  [p \in Profiles |-> IF p \in reset THEN NoBackoff ELSE v.backoff[p]]

\* The rest of reconcile() after the walk, and of close() up to the manager's.
EndOfWalk(v, after) ==
    /\ owner' = NoOwner
    /\ \/ /\ v.status = "open"
          /\ backoff' = [p \in Profiles |->
                           IF \E c \in v.inv : ProfileOf(c) = p THEN after[p] ELSE NoBackoff]
          /\ status' = "open" /\ UNCHANGED keyLocks
       \/ /\ v.status = "closing"
          /\ backoff' = [p \in Profiles |-> NoBackoff]
          /\ status' = "managerClosing" /\ keyLocks' = {}

\* It passes over keys whose lock is free and that need nothing, in any order,
\* and suspends at the first one that is locked or has a runtime to be stopped.
Walk(todo, v) ==
    \E passed \in SUBSET {k \in todo : v.queues[k] = <<>> /\ NothingToDo(k, v)} :
        \/ /\ passed = todo
           /\ EndOfWalk(v, ResetStable(passed, v))
           /\ keyQueue' = v.queues /\ runtime' = Collected(v.runtime)
        \/ \E k \in todo \ passed :
              /\ v.queues[k] # <<>> \/ ~NothingToDo(k, v)
              /\ keyQueue' = [v.queues EXCEPT ![k] = Append(@, Owner)]
              /\ backoff' = ResetStable(passed, v)
              /\ status' = v.status /\ UNCHANGED keyLocks
              /\ owner' = [pc |-> IF v.queues[k] = <<>> THEN "evicting" ELSE "waiting",
                           key |-> k, todo |-> todo \ (passed \cup {k})]
              /\ runtime' = Collected(IF v.queues[k] # <<>> THEN v.runtime
                                      ELSE BeginStop(v.runtime, v.entries[k].rt))

KeysToVisit == keyLocks \cup {k \in Keys : persistent[k].rt # NoRt}

\* What the inventory wants kept under each key
DesiredBy(inv) ==
    [k \in Keys |-> IF \E c \in Persistent(inv) : c.key = k
                    THEN (CHOOSE c \in Persistent(inv) : c.key = k).gen
                    ELSE NoGen]

\* The service publishes an inventory and calls reconcile().
Reconcile(inv) ==
    /\ owner.pc = "idle" /\ ~Closed
    /\ inventory' = inv
    /\ desired' = DesiredBy(inv)
    /\ UNCHANGED <<slots, slotQueue, persistent, startQueue, user>>
    /\ Walk(KeysToVisit, [View EXCEPT !.inv = inv, !.desired = DesiredBy(inv)])

\* close()
Close ==
    /\ owner.pc = "idle" /\ ~Closed
    /\ desired' = [k \in Keys |-> NoGen]
    /\ UNCHANGED <<inventory, slots, slotQueue, persistent, startQueue, user>>
    /\ Walk(KeysToVisit, [View EXCEPT !.status = "closing",
                                      !.desired = [k \in Keys |-> NoGen]])

\* Mutant: the owner does not let go of a lock it had to wait for.
OwnerLockedForGood ==
    LET k == owner.key IN
    /\ owner.pc = "waiting" /\ Holds(keyQueue[k], Owner)
    /\ UNCHANGED <<inventory, desired, slots, slotQueue, persistent, startQueue, user>>
    /\ \/ /\ NothingToDo(k, View)
          /\ Walk(owner.todo, [View EXCEPT !.backoff = ResetStable({k}, View)])
       \/ /\ ~NothingToDo(k, View)
          /\ owner' = [owner EXCEPT !.pc = "evicting"]
          /\ runtime' = Stopping(persistent[k].rt)
          /\ UNCHANGED <<status, keyLocks, keyQueue, backoff>>

\* The owner gets the lock it has waited for.
OwnerLocked ==
    LET k == owner.key IN
    /\ owner.pc = "waiting" /\ Holds(keyQueue[k], Owner)
    /\ UNCHANGED <<inventory, desired, slots, slotQueue, persistent, startQueue, user>>
    /\ \/ /\ NothingToDo(k, View)
          /\ Walk(owner.todo, [View EXCEPT !.queues[k] = Tail(@),
                                           !.backoff = ResetStable({k}, View)])
       \/ /\ ~NothingToDo(k, View)
          /\ owner' = [owner EXCEPT !.pc = "evicting"]
          /\ runtime' = Stopping(persistent[k].rt)
          /\ UNCHANGED <<status, keyLocks, keyQueue, backoff>>

\* The runtime the owner removes has stopped.
OwnerEvicted ==
    LET k == owner.key
        e == persistent[k]
        unexpected == desired[k] = e.gen
        p == <<k, e.gen>>
        stopped == Stopped(e.rt)
    IN
    /\ owner.pc = "evicting"
    /\ persistent' = [persistent EXCEPT ![k] = NoEntry]
    /\ slots' = slots + 1
    /\ UNCHANGED <<inventory, desired, slotQueue, startQueue, user>>
    /\ Walk(owner.todo,
            [View EXCEPT
               !.entries[k] = NoEntry,
               !.queues[k] = Tail(@),
               !.backoff[p] = IF unexpected THEN AfterFailure(@) ELSE @,
               !.runtime = stopped])

\* manager.close() waits for a start in progress and stops what is registered.
ManagerClosed ==
    /\ status = "managerClosing"
    /\ \A u \in Users : ~At(u, "starting")
    /\ status' = "closed"
    /\ runtime' = [r \in Runtimes |-> IF runtime[r].state \in {"up", "exited", "stopping"}
                                      THEN [runtime[r] EXCEPT !.state = "stopped"]
                                      ELSE runtime[r]]
    /\ UNCHANGED <<inventory, desired, slots, slotQueue, persistent, keyLocks, keyQueue,
                   startQueue, backoff, user, owner>>

-----------------------------------------------------------------------------
\* A process dies by itself.
Exit(r) ==
    /\ runtime[r].state = "up"
    /\ runtime' = [runtime EXCEPT ![r].state = "exited"]
    /\ UNCHANGED <<slots, slotQueue, persistent, keyLocks, keyQueue, startQueue, backoff, user>>
    /\ UNCHANGED shared

Pred(n) == IF n = 0 THEN 0 ELSE n - 1

\* The clock of the event loop advances.
Tick ==
    /\ backoff' = [p \in Profiles |-> [backoff[p] EXCEPT !.wait = Pred(@)]]
    /\ persistent' = [k \in Keys |-> [persistent[k] EXCEPT !.stable = Pred(@)]]
    /\ UNCHANGED <<slots, slotQueue, keyLocks, keyQueue, startQueue, runtime, user>>
    /\ UNCHANGED shared

UserStep(u) ==
    \/ Obsolete(u) \/ Reuse(u) \/ Replace(u) \/ BeginStart(u) \/ EnforceBackoff(u)
    \/ TakeSlot(u) \/ StartFails(u) \/ StartSucceeds(u) \/ WarmedUp(u) \/ WarmUpFails(u)
    \/ Discarded(u) \/ CheckPasses(u) \/ CheckFails(u) \/ UseEnds(u) \/ Retire(u)
    \/ Finish(u) \/ Retired(u) \/ Replaced(u)

OwnerStep == OwnerLocked \/ OwnerEvicted \/ ManagerClosed

Next ==
    \/ \E u \in Users : UserStep(u) \/ Cancelled(u) \/ \E c \in inventory : Acquire(u, c)
    \/ OwnerStep \/ Close \/ \E inv \in Inventories : Reconcile(inv)
    \/ \E r \in Runtimes : Exit(r)
    \/ Tick

Spec == Init /\ [][Next]_vars

\* Starts, uses and stops of processes end, and the owner goes on when it can.
FairSpec == Spec /\ WF_vars(OwnerStep) /\ \A u \in Users : WF_vars(UserStep(u))

-----------------------------------------------------------------------------
UserPcs == {"idle", "wantKey", "replace", "wantStart", "wantSlot", "starting", "warming",
            "discard", "check", "using", "stopping", "wantRetire", "wantFinish", "retire"}

TypeOK ==
    /\ inventory \in Inventories
    /\ status \in {"open", "closing", "managerClosing", "closed"}
    /\ desired \in [Keys -> Gens \cup {NoGen, AnyGen}]
    /\ slots \in 0..Limit /\ slotQueue \in Seq(Users)
    /\ persistent \in [Keys -> Entry]
    /\ keyLocks \subseteq Keys
    /\ keyQueue \in [Keys -> Seq(Users \cup {Owner})]
    /\ startQueue \in [Profiles -> Seq(Users)]
    /\ backoff \in [Profiles -> [delay : 0..MaxBackoff, wait : 0..MaxBackoff]]
    /\ \A r \in Runtimes : runtime[r].state \in {"none", "up", "exited", "stopping", "stopped"}
    /\ \A u \in Users : user[u].pc \in UserPcs /\ user[u].rt \in Runtimes \cup {NoRt}
    /\ owner.pc \in {"idle", "waiting", "evicting"}

\* The users whose start or fresh runtime occupies a slot
HoldsSlot(u) ==
    \/ user[u].pc \in {"starting", "warming", "discard", "stopping"}
    \/ At(u, "using") /\ IsFresh(user[u].check)

Held == {k \in Keys : persistent[k].rt # NoRt}

\* No slot is lost or given back twice, by whichever path a start, an eviction
\* or a cancellation leaves acquire(), reconcile() or close().
SlotsConserved ==
    slots + Cardinality(Held) + Cardinality({u \in Users : HoldsSlot(u)}) = Limit

Running(r) == runtime[r].state \in {"up", "stopping"}

\* Every running process is kept under a key or belongs to a user with a slot,
\* so that with SlotsConserved there are at most Limit of them.
EveryProcessOwned ==
    \A r \in Runtimes : Running(r) =>
        \/ \E k \in Keys : persistent[k].rt = r
        \/ \E u \in Users : HoldsSlot(u) /\ user[u].rt = r

\* A check is run on a process started for its own profile and generation.
UsesOwnGeneration ==
    \A u \in Users : user[u].pc \in {"check", "using"} =>
        runtime[user[u].rt].profile = ProfileOf(user[u].check)

\* Once reconcile() has returned, only profiles of the published inventory are
\* kept, also when a start was under way while it ran.
OnlyDesiredKept ==
    owner.pc = "idle" => \A k \in Held : desired[k] \in {persistent[k].gen, AnyGen}

\* When close() returns no process is running, and no slot is kept by a key.
ClosedLeavesNothing ==
    status = "closed" => Held = {} /\ \A r \in Runtimes : ~Running(r)

\* A published inventory, or a shutdown, is dealt with: reconcile() and close()
\* return, and with them everyone who needs the mutation lock goes on.
OwnerBusy == owner.pc # "idle" \/ status \in {"closing", "managerClosing"}
OwnerReturns == OwnerBusy ~> ~OwnerBusy

UsersReturn == \A u \in Users : (user[u].pc # "idle") ~> At(u, "idle")

\* Every check gets a runtime or an error, and reconcile() and close() return.
CallersReturn == OwnerReturns /\ UsersReturn
=============================================================================
