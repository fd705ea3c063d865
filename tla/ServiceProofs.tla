---------------------------- MODULE ServiceProofs ----------------------------
(***************************************************************************)
(* OneExecutor and DataLockCoversWork of Service, for any number of        *)
(* callers, connections and executors.                                     *)
(***************************************************************************)
EXTENDS Service, TLAPS

\* The part of the type invariant that the proofs need
Shapes ==
    /\ lifecycle \in Seq(Starters \cup {StopTask})
    /\ mutation \in Seq(Mutators \cup Executors \cup {Down})
    /\ dataLock \in {"free", "daemon", "other"}
    /\ control \in {"none", "up", "closing"}
    /\ pc \in [Agents -> StartSteps]
    /\ cand \in [Agents -> Executors \cup {None}]
    /\ old \in [Agents -> Executors \cup {None}]
    /\ exec \in [Executors -> {"none", "built", "running", "halted"}]
    /\ installed \in Executors \cup {None} /\ listed \in Executors \cup {None}
    /\ refresh \in [Executors -> {"none", "queued", "fetch", "commit", "sleep"}]
    /\ down \in DownSteps
    /\ stopTask \in {"none", "created", "queued", "running"}

Waits(q, p) == \E i \in 1..Len(q) : q[i] = p
Applying(a) == pc[a] \in ApplySteps
Starting(a) == pc[a] \in {"load", "control"} \cup ApplySteps

\* A start, and whoever tears down, has the lifecycle lock.
LifecycleInv ==
    /\ \A a \in Starters : pc[a] \notin {"out", "queued"} => Holds(lifecycle, a)
    /\ stopTask = "running" => Holds(lifecycle, StopTask) /\ down # "idle"
    /\ stopTask \in {"queued", "running"} => Waits(lifecycle, StopTask)
    /\ \A a \in Starters : pc[a] = "cleanup" => down # "idle"
    /\ down # "idle" => stopTask = "running" \/ \E a \in Starters : pc[a] = "cleanup"

\* A mutator that applies, a refresh that fetches or commits, and the teardown of the
\* executor have the mutation lock.
MutationInv ==
    /\ \A a \in Mutators : /\ pc[a] \in {"out", "queued"} \cup ApplySteps
                           /\ Applying(a) => Holds(mutation, a)
    /\ \A e \in Executors : refresh[e] \in {"fetch", "commit"} => Holds(mutation, e)
    /\ down \in {"drainAgain", "teardown"} => Holds(mutation, Down)

\* A start applies its configuration without the mutation lock: nobody else works then.
StartInv ==
    \A a \in Starters :
        /\ Starting(a) => /\ dataLock = "daemon" /\ control = "none"
                          /\ \A b \in Mutators : pc[b] = "out"
                          /\ stopping \/ alive
        /\ pc[a] = "load" \/ Applying(a) => listed = None /\ \A e \in Executors : refresh[e] = "none"

\* The executor that a builds is not installed before the one it found is gone.
ApplyInv(a) ==
    /\ cand[a] # None => Applying(a)
    /\ pc[a] = "build" /\ cand[a] # None => exec[cand[a]] = "built" /\ cand[a] # installed
    /\ pc[a] \in {"drain", "quiesce"} =>
          /\ cand[a] # None /\ exec[cand[a]] = "built" /\ cand[a] # installed
          /\ old[a] = installed /\ ~ready
    /\ pc[a] = "prune" => cand[a] # None /\ cand[a] = installed /\ exec[cand[a]] = "built" /\ ~ready
    /\ pc[a] \in {"quiesce", "prune"} => listed = None

ExecInv ==
    /\ installed # None => exec[installed] # "none"
    /\ \A e \in Executors : exec[e] \in {"running", "halted"} => e = installed
    /\ \A e \in Executors : exec[e] # "none" => e = installed \/ \E a \in Agents : cand[a] = e
    /\ ready => installed # None /\ exec[installed] = "running" /\ ~stopping

\* What the shutdown has left of the service at each of its steps
DownInv ==
    /\ down # "idle" => stopping
    /\ down \notin {"idle", "control", "handlers"} => control = "none"
    /\ down # "drain" => \A e \in Executors : refresh[e] # "none" => e = listed
    /\ down \in {"drainAgain", "teardown", "release"} =>
          listed = None /\ \A e \in Executors : refresh[e] = "none"
    /\ down = "release" => /\ installed = None /\ \A e \in Executors : exec[e] = "none"
                           /\ \A a \in Mutators : ~Applying(a)

\* Without the lock file there is nothing.
OffInv ==
    dataLock # "daemon" =>
        /\ installed = None /\ listed = None /\ control = "none"
        /\ \A e \in Executors : exec[e] = "none" /\ refresh[e] = "none"
        /\ \A a \in Mutators : pc[a] = "out"
        /\ \A a \in Starters : ~Starting(a)

\* With it, and the service not up, somebody is there who will give it back.
UpInv ==
    dataLock = "daemon" =>
        \/ alive
        \/ stopTask \in {"queued", "running"}
        \/ \E a \in Starters : pc[a] \notin {"out", "queued"}

ServiceInv ==
    /\ Shapes /\ LifecycleInv /\ MutationInv /\ StartInv
    /\ \A a \in Agents : ApplyInv(a)
    /\ ExecInv /\ DownInv /\ OffInv /\ UpInv

-----------------------------------------------------------------------------
\* r is the queue q after p has joined it, left it or, as its head, released it: who
\* holds the lock holds it still, and who waits waits still.
Passes(q, r, p) ==
    \A h : h # p => (Holds(q, h) => Holds(r, h)) /\ (Waits(q, h) => Waits(r, h))

LEMMA PassesByJoining ==
    ASSUME NEW S, NEW q \in Seq(S), NEW p \in S
    PROVE  /\ Append(q, p) \in Seq(S) /\ Passes(q, Append(q, p), p)
           /\ Waits(Append(q, p), p) /\ (\A h : Holds(q, h) => Holds(Append(q, p), h))
BY DEF Passes, Holds, Waits

LEMMA PassesByReleasing ==
    ASSUME NEW S, NEW q \in Seq(S), NEW p, Holds(q, p)
    PROVE  Tail(q) \in Seq(S) /\ Passes(q, Tail(q), p)
<1>1. Tail(q) \in Seq(S) /\ q # <<>> /\ Head(q) = p /\ Len(Tail(q)) = Len(q) - 1
  BY DEF Holds
<1>2. ASSUME NEW h, h # p, NEW i \in 1..Len(q), q[i] = h
      PROVE  \E j \in 1..Len(Tail(q)) : Tail(q)[j] = h
  <2>1. i # 1 /\ i - 1 \in 1..Len(Tail(q)) /\ Tail(q)[i - 1] = q[i]
    BY <1>1, <1>2
  <2> QED
    BY <1>2, <2>1
<1> QED
  BY <1>1, <1>2 DEF Passes, Holds, Waits

LEMMA PassesByLeaving ==
    ASSUME NEW S, NEW q \in Seq(S), NEW p
    PROVE  Without(q, p) \in Seq(S) /\ Passes(q, Without(q, p), p)
<1>1. CASE \E i \in DOMAIN q : q[i] = p
  <2> DEFINE i == CHOOSE i \in DOMAIN q : q[i] = p
             r == SubSeq(q, 1, i - 1)
             t == SubSeq(q, i + 1, Len(q))
  <2>1. i \in 1..Len(q) /\ q[i] = p
    BY <1>1
  <2>2. Without(q, p) = r \o t
    BY <1>1 DEF Without
  <2> HIDE DEF i
  <2>3. r \in Seq(S) /\ t \in Seq(S) /\ Len(r) = i - 1 /\ Len(t) = Len(q) - i
    BY <2>1
  <2>4. ASSUME q # <<>>, Head(q) # p
        PROVE  r # <<>> /\ Head(r) = Head(q)
    BY <2>1, <2>4
  <2>5. ASSUME NEW h, h # p, NEW j \in 1..Len(q), q[j] = h
        PROVE  \E l \in 1..Len(r \o t) : (r \o t)[l] = h
    <3>1. j # i
      BY <2>1, <2>5
    <3>2. CASE j < i
      <4>1. j \in 1..Len(r) /\ r[j] = q[j]
        BY <2>1, <2>3, <3>2
      <4>2. j \in 1..Len(r \o t) /\ (r \o t)[j] = r[j]
        <5> HIDE DEF r, t
        <5> QED BY <2>3, <4>1
      <4> QED BY <2>5, <4>1, <4>2
    <3>3. CASE j > i
      <4>1. j - i \in 1..Len(t) /\ t[j - i] = q[j]
        BY <2>1, <2>3, <3>3
      <4>2. j - 1 \in 1..Len(r \o t) /\ (r \o t)[j - 1] = t[j - i]
        <5> HIDE DEF r, t
        <5> QED BY <2>1, <2>3, <3>3, <4>1
      <4> QED BY <2>5, <4>1, <4>2
    <3>4. j < i \/ j > i
      BY <2>1, <3>1
    <3> HIDE DEF r, t
    <3> QED BY <3>2, <3>3, <3>4
  <2>6. r \o t \in Seq(S) /\ (r # <<>> => r \o t # <<>> /\ Head(r \o t) = Head(r))
    <3> HIDE DEF r, t
    <3> QED BY <2>3
  <2> HIDE DEF r, t
  <2> QED
    BY <2>2, <2>4, <2>5, <2>6 DEF Passes, Holds, Waits
<1>2. CASE ~\E i \in DOMAIN q : q[i] = p
  BY <1>2 DEF Without, Passes
<1> QED
  BY <1>1, <1>2

LEMMA HoldsOne ==
    ASSUME NEW q, NEW g, NEW h, Holds(q, g), Holds(q, h)
    PROVE  g = h
BY DEF Holds

-----------------------------------------------------------------------------
\* Who works, works alone: one agent applies a configuration, no loop fetches or commits
\* meanwhile, and the shutdown neither begins nor ends while a start is on its way.
Alone ==
    /\ \A a, b \in Agents : Applying(a) /\ Applying(b) => a = b
    /\ \A a, b \in Starters : pc[a] \notin {"out", "queued"} /\ pc[b] \notin {"out", "queued"} => a = b
    /\ \A a \in Starters : pc[a] \notin {"out", "queued", "cleanup"} => down = "idle"
    /\ \A e \in Executors : refresh[e] \in {"fetch", "commit"} =>
          /\ \A a \in Agents : ~Applying(a)
          /\ down \notin {"drainAgain", "teardown", "release"}
          /\ \A f \in Executors : refresh[f] \in {"fetch", "commit"} => f = e
    /\ down \in {"drainAgain", "teardown", "release"} => \A a \in Agents : ~Applying(a)
    /\ \A a \in Agents : Applying(a) => dataLock = "daemon"
    /\ stopTask = "running" => \A a \in Starters : pc[a] \in {"out", "queued"}

LEMMA WorksAlone ==
    ASSUME ServiceInv
    PROVE  Alone
<1> USE DistinctAssumption DEF Agents
<1>1. \A a, b \in Starters : pc[a] \notin {"out", "queued"} /\ pc[b] \notin {"out", "queued"} => a = b
  BY HoldsOne DEF ServiceInv, LifecycleInv
<1>2. stopTask = "running" => \A a \in Starters : pc[a] \in {"out", "queued"}
  BY HoldsOne DEF ServiceInv, LifecycleInv
<1>3. \A a \in Starters : pc[a] \notin {"out", "queued", "cleanup"} => down = "idle"
  BY <1>1, <1>2 DEF ServiceInv, LifecycleInv
<1>4. \A a \in Agents : Applying(a) => dataLock = "daemon"
  BY DEF ServiceInv, StartInv, OffInv, Applying, Starting, ApplySteps
<1>5. \A a, b \in Mutators : Applying(a) /\ Applying(b) => a = b
  BY HoldsOne DEF ServiceInv, MutationInv
<1>6. \A a \in Starters, b \in Mutators : ~(Applying(a) /\ Applying(b))
  BY DEF ServiceInv, StartInv, Applying, Starting, ApplySteps
<1>7. \A a, b \in Agents : Applying(a) /\ Applying(b) => a = b
  BY <1>1, <1>5, <1>6 DEF Applying, ApplySteps
<1>8. ASSUME NEW e \in Executors, refresh[e] \in {"fetch", "commit"}
      PROVE  /\ \A a \in Agents : ~Applying(a)
             /\ down \notin {"drainAgain", "teardown", "release"}
             /\ \A f \in Executors : refresh[f] \in {"fetch", "commit"} => f = e
  <2>1. Holds(mutation, e)
    BY <1>8 DEF ServiceInv, MutationInv
  <2>2. \A a \in Mutators : ~Applying(a)
    BY <2>1, HoldsOne DEF ServiceInv, MutationInv
  <2>3. \A a \in Starters : ~Applying(a)
    BY <1>8 DEF ServiceInv, StartInv
  <2>4. down \notin {"drainAgain", "teardown", "release"}
    BY <1>8 DEF ServiceInv, DownInv
  <2>5. \A f \in Executors : refresh[f] \in {"fetch", "commit"} => f = e
    BY <2>1, HoldsOne DEF ServiceInv, MutationInv
  <2> QED
    BY <2>2, <2>3, <2>4, <2>5
<1>9. ASSUME down \in {"drainAgain", "teardown", "release"}
      PROVE  \A a \in Agents : ~Applying(a)
  <2>1. \A a \in Starters : ~Applying(a)
    BY <1>3, <1>9 DEF Applying, ApplySteps
  <2>2. CASE down \in {"drainAgain", "teardown"}
    BY <2>1, <2>2, HoldsOne DEF ServiceInv, MutationInv
  <2>3. CASE down = "release"
    BY <2>1, <2>3 DEF ServiceInv, DownInv
  <2> QED
    BY <1>9, <2>2, <2>3
<1> QED
  BY <1>1, <1>2, <1>3, <1>4, <1>7, <1>8, <1>9 DEF Alone

\* What a step of p, or of a task that p cancels, does to the queues of the locks
QueueStep(p) ==
    /\ lifecycle' \in Seq(Starters \cup {StopTask})
    /\ mutation' \in Seq(Mutators \cup Executors \cup {Down})
    /\ Passes(lifecycle, lifecycle', p) /\ Passes(mutation, mutation', p)

-----------------------------------------------------------------------------
\* An agent that does not work yet waits, or waits no longer.
LEMMA WaitingSafe ==
    ASSUME ServiceInv, NEW a \in Agents, NEW s \in {"out", "queued"},
           pc[a] \in {"out", "queued"}, Goto(a, s), QueueStep(a),
           a \in Mutators /\ s = "queued" =>
               dataLock = "daemon" /\ \A b \in Starters : ~Starting(b),
           UNCHANGED <<dataLock, control, flags, applying, executor, loops, shutdown>>
    PROVE  ServiceInv'
<1> USE DistinctAssumption DEF Agents
<1> USE DEF flags, applying, executor, loops, shutdown
<1>a. Alone
  BY WorksAlone
<1>b. /\ pc'[a] = s /\ pc' \in [Agents -> StartSteps]
      /\ \A b \in Agents : b # a => pc'[b] = pc[b]
  BY DEF ServiceInv, Shapes, Goto, StartSteps
<1>c. \A b \in Agents : /\ Applying(b)' <=> Applying(b)
                        /\ Starting(b)' <=> Starting(b)
                        /\ pc'[b] # pc[b] => pc[b] \in {"out", "queued"} /\ pc'[b] \in {"out", "queued"}
  BY <1>b DEF Applying, Starting, ApplySteps
<1>1. Shapes'
  BY <1>b DEF ServiceInv, Shapes, QueueStep
<1>2. LifecycleInv'
  BY <1>b DEF ServiceInv, LifecycleInv, QueueStep, Passes
<1>3. MutationInv'
  <2>1. \A h : h # a /\ Holds(mutation, h) => Holds(mutation', h)
    BY DEF QueueStep, Passes
  <2>2. ~Applying(a)
    BY DEF Applying, ApplySteps
  <2>3. \A b \in Mutators : pc'[b] \in {"out", "queued"} \cup ApplySteps
    BY <1>b DEF ServiceInv, MutationInv
  <2>4. \A b \in Mutators : Applying(b)' => Holds(mutation', b)
    BY <1>c, <2>1, <2>2 DEF ServiceInv, MutationInv
  <2>5. a \notin Executors /\ a # Down
    OBVIOUS
  <2> QED
    BY <2>1, <2>3, <2>4, <2>5 DEF ServiceInv, MutationInv
<1>4. StartInv'
  BY <1>b, <1>c DEF ServiceInv, StartInv
<1>5. (\A b \in Agents : ApplyInv(b))'
  BY <1>b, <1>c DEF ServiceInv, ApplyInv
<1>6. ExecInv'
  BY DEF ServiceInv, ExecInv
<1>7. DownInv'
  BY <1>c DEF ServiceInv, DownInv
<1>8. OffInv'
  BY <1>b, <1>c DEF ServiceInv, OffInv
<1>9. UpInv'
  BY <1>b, <1>c DEF ServiceInv, UpInv
<1> QED
  BY <1>1, <1>2, <1>3, <1>4, <1>5, <1>6, <1>7, <1>8, <1>9 DEF ServiceInv

\* start() has the lifecycle lock: no other start is on its way, and no shutdown.
LEMMA StartBeginsSafe ==
    ASSUME ServiceInv, NEW a \in Starters, pc[a] \in {"out", "queued"},
           lifecycle = <<>> \/ Holds(lifecycle, a),
           Goto(a, "lock"), QueueStep(a), Holds(lifecycle', a), stopping' = FALSE,
           UNCHANGED <<mutation, dataLock, control, ready, alive, applying, executor, loops, shutdown>>
    PROVE  ServiceInv'
<1> USE DistinctAssumption DEF Agents
<1> USE DEF applying, executor, loops, shutdown
<1>a. /\ \A b \in Starters : pc[b] \in {"out", "queued"}
      /\ stopTask # "running" /\ down = "idle"
  <2>1. \A h : Holds(lifecycle, h) => h = a
    BY HoldsOne DEF Holds
  <2> QED
    BY <2>1 DEF ServiceInv, LifecycleInv
<1>b. /\ pc'[a] = "lock" /\ pc' \in [Agents -> StartSteps]
      /\ \A b \in Agents : b # a => pc'[b] = pc[b]
  BY DEF ServiceInv, Shapes, Goto, StartSteps
<1>c. \A b \in Agents : /\ Applying(b)' <=> Applying(b)
                        /\ Starting(b)' <=> Starting(b)
  BY <1>b DEF Applying, Starting, ApplySteps
<1>d. \A b \in Starters : ~Starting(b)
  BY <1>a DEF Starting, ApplySteps
<1>1. Shapes'
  BY <1>b DEF ServiceInv, Shapes, QueueStep
<1>2. LifecycleInv'
  BY <1>a, <1>b DEF ServiceInv, LifecycleInv, QueueStep, Passes
<1>3. MutationInv'
  BY <1>b, <1>c DEF ServiceInv, MutationInv
<1>4. StartInv'
  BY <1>b, <1>c, <1>d DEF ServiceInv, StartInv, Starting
<1>5. (\A b \in Agents : ApplyInv(b))'
  BY <1>b, <1>c DEF ServiceInv, ApplyInv
<1>6. ExecInv'
  BY DEF ServiceInv, ExecInv
<1>7. DownInv'
  BY <1>a, <1>c DEF ServiceInv, DownInv
<1>8. OffInv'
  BY <1>b, <1>c DEF ServiceInv, OffInv
<1>9. UpInv'
  BY <1>b, <1>c DEF ServiceInv, UpInv
<1> QED
  BY <1>1, <1>2, <1>3, <1>4, <1>5, <1>6, <1>7, <1>8, <1>9 DEF ServiceInv

\* A mutator has the mutation lock: no start is on its way, and no shutdown announced.
LEMMA MutateBeginsSafe ==
    ASSUME ServiceInv, NEW a \in Mutators, pc[a] \in {"out", "queued"}, ~stopping,
           dataLock = "daemon", \A b \in Starters : ~Starting(b),
           Goto(a, "build"), QueueStep(a), Holds(mutation', a),
           UNCHANGED <<lifecycle, dataLock, control, flags, applying, executor, loops, shutdown>>
    PROVE  ServiceInv'
<1> USE DistinctAssumption DEF Agents
<1> USE DEF flags, applying, executor, loops, shutdown
<1>b. /\ pc'[a] = "build" /\ pc' \in [Agents -> StartSteps]
      /\ \A b \in Agents : b # a => pc'[b] = pc[b]
  BY DEF ServiceInv, Shapes, Goto, StartSteps, ApplySteps
<1>c. /\ \A b \in Agents : b # a => (Applying(b)' <=> Applying(b))
      /\ \A b \in Starters : Starting(b)' <=> Starting(b)
      /\ ~Applying(a) /\ Applying(a)'
  BY <1>b DEF Applying, Starting, ApplySteps
<1>d. \A h : h # a /\ Holds(mutation, h) => Holds(mutation', h)
  BY DEF QueueStep, Passes
<1>1. Shapes'
  BY <1>b DEF ServiceInv, Shapes, QueueStep
<1>2. LifecycleInv'
  BY <1>b DEF ServiceInv, LifecycleInv
<1>3. MutationInv'
  <2>1. \A b \in Mutators : pc'[b] \in {"out", "queued"} \cup ApplySteps
    BY <1>b DEF ServiceInv, MutationInv, ApplySteps
  <2>2. \A b \in Mutators : Applying(b)' => Holds(mutation', b)
    BY <1>c, <1>d DEF ServiceInv, MutationInv
  <2>3. a \notin Executors /\ a # Down
    OBVIOUS
  <2> QED
    BY <1>d, <2>1, <2>2, <2>3 DEF ServiceInv, MutationInv
<1>4. StartInv'
  BY <1>b, <1>c DEF ServiceInv, StartInv
<1>5. (\A b \in Agents : ApplyInv(b))'
  BY <1>b, <1>c DEF ServiceInv, ApplyInv
<1>6. ExecInv'
  BY DEF ServiceInv, ExecInv
<1>7. DownInv'
  BY <1>c DEF ServiceInv, DownInv
<1>8. OffInv'
  BY DEF ServiceInv, OffInv
<1>9. UpInv'
  BY <1>b DEF ServiceInv, UpInv
<1> QED
  BY <1>1, <1>2, <1>3, <1>4, <1>5, <1>6, <1>7, <1>8, <1>9 DEF ServiceInv

LEMMA NobodyMoves ==
    ASSUME NEW q, NEW p
    PROVE  Passes(q, q, p)
BY DEF Passes

LEMMA EmptyQueue ==
    ASSUME NEW S, NEW p, NEW h \in S
    PROVE  /\ <<h>> \in Seq(S) /\ Holds(<<h>>, h) /\ Passes(<<>>, <<h>>, p)
           /\ Tail(<<h>>) = <<>>
BY DEF Passes, Holds, Waits

LEMMA StartSafe ==
    ASSUME ServiceInv, NEW a \in Starters, Start(a) \/ StartEnter(a)
    PROVE  ServiceInv'
<1> USE DEF Agents
<1>a. /\ lifecycle \in Seq(Starters \cup {StopTask})
      /\ mutation \in Seq(Mutators \cup Executors \cup {Down})
      /\ a \notin Mutators
  BY DistinctAssumption DEF ServiceInv, Shapes
<1>b. mutation' = mutation /\ Passes(mutation, mutation', a)
  BY NobodyMoves DEF Start, StartEnter
<1>1. CASE pc[a] = "out" /\ lifecycle # <<>> /\ Start(a)
  <2>1. lifecycle' = Append(lifecycle, a) /\ Goto(a, "queued")
    BY <1>1 DEF Start
  <2>2. QueueStep(a)
    BY <1>a, <1>b, <2>1, PassesByJoining DEF QueueStep
  <2> QED
    BY <1>1, <1>a, <2>1, <2>2, WaitingSafe DEF Start
<1>2. ASSUME NEW q, EnterStart(a, q), pc[a] \in {"out", "queued"}, Holds(q, a),
             q \in Seq(Starters \cup {StopTask}), Passes(lifecycle, q, a),
             (lifecycle = <<>> /\ q = <<a>>) \/ q = lifecycle,
             UNCHANGED <<mutation, dataLock, control, pend, applying, executor, loops, shutdown>>
      PROVE  ServiceInv'
  <2>1. CASE alive
    <3>1. lifecycle' = Tail(q) /\ Goto(a, "out") /\ UNCHANGED flags
      BY <1>2, <2>1 DEF EnterStart
    <3>2. lifecycle' \in Seq(Starters \cup {StopTask}) /\ Passes(lifecycle, lifecycle', a)
      BY <1>2, <3>1, <1>a, PassesByReleasing, EmptyQueue DEF Passes
    <3> QED
      BY <1>2, <1>a, <1>b, <3>1, <3>2, WaitingSafe DEF QueueStep
  <2>2. CASE ~alive
    <3>1. lifecycle' = q /\ Goto(a, "lock") /\ stopping' = FALSE /\ UNCHANGED <<ready, alive>>
      BY <1>2, <2>2 DEF EnterStart
    <3>2. lifecycle = <<>> \/ Holds(lifecycle, a)
      BY <1>2
    <3> QED
      BY <1>2, <1>a, <1>b, <3>1, <3>2, StartBeginsSafe DEF QueueStep
  <2> QED
    BY <2>1, <2>2
<1>3. CASE lifecycle = <<>> /\ Start(a)
  BY <1>2, <1>3, EmptyQueue DEF Start
<1>4. CASE StartEnter(a)
  BY <1>2, <1>4, <1>a, NobodyMoves DEF StartEnter
<1> QED
  BY <1>1, <1>3, <1>4 DEF Start

LEMMA MutateSafe ==
    ASSUME ServiceInv, NEW a \in Mutators, Mutate(a) \/ MutateEnter(a)
    PROVE  ServiceInv'
<1> USE DEF Agents
<1>a. /\ lifecycle \in Seq(Starters \cup {StopTask})
      /\ mutation \in Seq(Mutators \cup Executors \cup {Down})
  BY DEF ServiceInv, Shapes
<1>b. lifecycle' = lifecycle /\ Passes(lifecycle, lifecycle', a)
  BY NobodyMoves DEF Mutate, MutateEnter
<1>c. dataLock = "daemon" /\ \A b \in Starters : ~Starting(b)
  <2>1. CASE pc[a] = "queued"
    BY <2>1 DEF ServiceInv, StartInv, OffInv
  <2>2. CASE Mutate(a) /\ control = "up"
    BY <2>2 DEF ServiceInv, StartInv, OffInv
  <2>3. CASE /\ Mutate(a) /\ dataLock = "daemon"
             /\ \A b \in Starters : pc[b] \in {"out", "queued"}
    BY <2>3 DEF Starting, ApplySteps
  <2> QED
    BY <2>1, <2>2, <2>3 DEF Mutate, MutateEnter
<1>1. CASE pc[a] = "out" /\ mutation # <<>> /\ Mutate(a)
  <2>1. mutation' = Append(mutation, a) /\ Goto(a, "queued")
    BY <1>1 DEF Mutate
  <2>2. QueueStep(a)
    BY <1>a, <1>b, <2>1, PassesByJoining DEF QueueStep
  <2> QED
    BY <1>1, <1>c, <2>1, <2>2, WaitingSafe DEF Mutate
<1>2. ASSUME NEW q, EnterMutate(a, q), pc[a] \in {"out", "queued"}, Holds(q, a),
             q \in Seq(Mutators \cup Executors \cup {Down}), Passes(mutation, q, a),
             (mutation = <<>> /\ q = <<a>>) \/ q = mutation,
             UNCHANGED <<lifecycle, dataLock, control, flags, applying, executor, loops, shutdown>>
      PROVE  ServiceInv'
  <2>1. CASE stopping
    <3>1. mutation' = Tail(q) /\ Goto(a, "out")
      BY <1>2, <2>1 DEF EnterMutate
    <3>2. /\ mutation' \in Seq(Mutators \cup Executors \cup {Down})
          /\ Passes(mutation, mutation', a)
      BY <1>2, <3>1, <1>a, PassesByReleasing, EmptyQueue DEF Passes
    <3> QED
      BY <1>2, <1>a, <1>b, <3>1, <3>2, WaitingSafe DEF QueueStep
  <2>2. CASE ~stopping
    <3>1. mutation' = q /\ Goto(a, "build")
      BY <1>2, <2>2 DEF EnterMutate
    <3> QED
      BY <1>2, <1>a, <1>b, <1>c, <2>2, <3>1, MutateBeginsSafe DEF QueueStep
  <2> QED
    BY <2>1, <2>2
<1>3. CASE mutation = <<>> /\ Mutate(a)
  BY <1>2, <1>3, EmptyQueue DEF Mutate
<1>4. CASE MutateEnter(a)
  BY <1>2, <1>4, <1>a, NobodyMoves DEF MutateEnter
<1> QED
  BY <1>1, <1>3, <1>4 DEF Mutate

LEMMA MutateCancelledSafe ==
    ASSUME ServiceInv, NEW a \in Mutators, MutateCancelled(a)
    PROVE  ServiceInv'
<1>1. QueueStep(a)
  BY PassesByLeaving, NobodyMoves DEF ServiceInv, Shapes, MutateCancelled, QueueStep
<1> QED
  BY <1>1, WaitingSafe DEF MutateCancelled, Agents

LEMMA CancelSafe ==
    ASSUME ServiceInv, NEW a \in Agents, Cancel(a)
    PROVE  ServiceInv'
<1>1. CASE pc[a] = "queued"
  <2>1. QueueStep(a)
    BY <1>1, PassesByLeaving DEF ServiceInv, Shapes, Cancel, CancelledNow, QueueStep
  <2>2. Goto(a, "out")
    BY <1>1 DEF Cancel, CancelledNow
  <2> QED
    BY <1>1, <2>1, <2>2, WaitingSafe DEF Cancel
<1>2. CASE pc[a] # "queued"
  BY <1>2 DEF Cancel, CancelledNow, flags, applying, executor, loops, shutdown, ServiceInv, Shapes,
              LifecycleInv, MutationInv, StartInv, ApplyInv, ExecInv, DownInv, OffInv, UpInv,
              Applying, Starting
<1> QED
  BY <1>1, <1>2

\* start() fails before or after it applies a configuration, perhaps with a control server
\* half up: the shutdown begins under its lifecycle lock.
LEMMA FailStartSafe ==
    ASSUME ServiceInv, NEW a \in Starters, pc[a] \in {"lock", "load", "control"}, FailStart(a),
           control' = control \/ (dataLock = "daemon" /\ control' = "up"),
           UNCHANGED <<lifecycle, mutation, dataLock, applying, executor, loops, stopTask>>
    PROVE  ServiceInv'
<1> USE DistinctAssumption DEF Agents
<1> USE DEF applying, executor, loops
<1>a. /\ \A b \in Starters : b # a => pc[b] \in {"out", "queued"}
      /\ stopTask # "running" /\ down = "idle" /\ a \notin Mutators
  BY WorksAlone DEF Alone
<1>b. /\ pc'[a] = "cleanup" /\ pc' \in [Agents -> StartSteps]
      /\ \A b \in Agents : b # a => pc'[b] = pc[b]
      /\ stopping' /\ ~ready' /\ ~alive' /\ down' = "control"
  BY DEF ServiceInv, Shapes, FailStart, Goto, StartSteps
<1>c. /\ \A b \in Agents : (Applying(b)' <=> Applying(b)) /\ (Starting(b)' => Starting(b))
      /\ ~Starting(a)'
  BY <1>b DEF Applying, Starting, ApplySteps
<1>d. \A b \in Starters : ~Starting(b)'
  BY <1>a, <1>b, <1>c DEF Starting, ApplySteps
<1>1. Shapes'
  BY <1>b DEF ServiceInv, Shapes, DownSteps
<1>2. LifecycleInv'
  BY <1>a, <1>b DEF ServiceInv, LifecycleInv
<1>3. MutationInv'
  BY <1>a, <1>b, <1>c DEF ServiceInv, MutationInv
<1>4. StartInv'
  BY <1>b, <1>d DEF StartInv, Starting, Applying
<1>5. (\A b \in Agents : ApplyInv(b))'
  BY <1>b, <1>c DEF ServiceInv, ApplyInv
<1>6. ExecInv'
  BY <1>b DEF ServiceInv, ExecInv
<1>7. DownInv'
  BY <1>a, <1>b, <1>c DEF ServiceInv, DownInv
<1>8. OffInv'
  BY <1>a, <1>b, <1>d DEF ServiceInv, OffInv
<1>9. UpInv'
  BY <1>b DEF ServiceInv, UpInv
<1> QED
  BY <1>1, <1>2, <1>3, <1>4, <1>5, <1>6, <1>7, <1>8, <1>9 DEF ServiceInv

\* start() goes on: it has the lock file, finds a configuration to apply, or finds none.
LEMMA StartGoesOnSafe ==
    ASSUME ServiceInv, NEW a \in Starters, NEW s \in {"load", "build", "control"}, Goto(a, s),
           \/ pc[a] = "lock" /\ dataLock = "free" /\ dataLock' = "daemon" /\ alive' = TRUE
           \/ pc[a] = "load" /\ ~stopping /\ UNCHANGED <<dataLock, alive>>,
           UNCHANGED <<lifecycle, mutation, stopping, ready, control, applying, executor, loops,
                       shutdown>>
    PROVE  ServiceInv'
<1> USE DistinctAssumption DEF Agents
<1> USE DEF applying, executor, loops, shutdown
<1>a. /\ \A b \in Starters : b # a => pc[b] \in {"out", "queued"}
      /\ stopTask # "running" /\ down = "idle" /\ a \notin Mutators
  BY WorksAlone DEF Alone
<1>b. /\ pc'[a] = s /\ pc' \in [Agents -> StartSteps]
      /\ \A b \in Agents : b # a => pc'[b] = pc[b]
  BY DEF ServiceInv, Shapes, Goto, StartSteps, ApplySteps
<1>c. /\ \A b \in Agents : b # a => (Applying(b)' <=> Applying(b)) /\ (Starting(b)' <=> Starting(b))
      /\ ~Applying(a)
  BY <1>b DEF Applying, Starting, ApplySteps
<1>d. /\ dataLock' = "daemon" /\ control = "none" /\ (stopping \/ alive')
      /\ \A b \in Mutators : pc[b] = "out"
      /\ listed = None /\ \A e \in Executors : refresh[e] = "none"
  <2>1. CASE pc[a] = "lock"
    BY <2>1 DEF ServiceInv, OffInv
  <2>2. CASE pc[a] = "load"
    BY <2>2 DEF ServiceInv, StartInv, Starting
  <2> QED
    BY <2>1, <2>2
<1>1. Shapes'
  BY <1>b, <1>d DEF ServiceInv, Shapes
<1>2. LifecycleInv'
  BY <1>a, <1>b DEF ServiceInv, LifecycleInv
<1>3. MutationInv'
  BY <1>a, <1>b, <1>c DEF ServiceInv, MutationInv
<1>4. StartInv'
  BY <1>a, <1>b, <1>d DEF StartInv, Starting, Applying, ApplySteps
<1>5. (\A b \in Agents : ApplyInv(b))'
  BY <1>b, <1>c DEF ServiceInv, ApplyInv
<1>6. ExecInv'
  BY DEF ServiceInv, ExecInv
<1>7. DownInv'
  BY <1>a DEF ServiceInv, DownInv
<1>8. OffInv'
  BY <1>d DEF OffInv
<1>9. UpInv'
  BY <1>b DEF UpInv
<1> QED
  BY <1>1, <1>2, <1>3, <1>4, <1>5, <1>6, <1>7, <1>8, <1>9 DEF ServiceInv

LEMMA StartLockSafe ==
    ASSUME ServiceInv, NEW a \in Starters, StartLock(a) \/ StartLoad(a)
    PROVE  ServiceInv'
<1> USE DEF flags, shutdown
<1>1. CASE StartLock(a) /\ (dataLock # "free" \/ a \in pend)
  BY <1>1, FailStartSafe DEF StartLock
<1>2. CASE StartLock(a) /\ ~(dataLock # "free" \/ a \in pend)
  BY <1>2, StartGoesOnSafe DEF StartLock
<1>3. CASE StartLoad(a) /\ FailStart(a)
  BY <1>3, FailStartSafe DEF StartLoad
<1>4. CASE StartLoad(a) /\ ~FailStart(a)
  BY <1>4, StartGoesOnSafe DEF StartLoad
<1> QED
  BY <1>1, <1>2, <1>3, <1>4

\* The control server is up and start() returns: the lifecycle lock is released.
LEMMA StartControlSafe ==
    ASSUME ServiceInv, NEW a \in Starters, StartControl(a)
    PROVE  ServiceInv'
<1> USE DistinctAssumption DEF Agents
<1> USE DEF applying, executor, loops, flags
<1>f. CASE FailStart(a) /\ control' \in {control, "up"} /\ UNCHANGED lifecycle
  BY <1>f, FailStartSafe DEF StartControl, ServiceInv, StartInv, Starting
<1>s. CASE ~(FailStart(a) /\ control' \in {control, "up"} /\ UNCHANGED lifecycle)
  <2>a. /\ \A b \in Starters : b # a => pc[b] \in {"out", "queued"}
        /\ stopTask # "running" /\ down = "idle" /\ a \notin Mutators
    BY WorksAlone DEF Alone, StartControl
  <2>b. /\ pc'[a] = "out" /\ pc' \in [Agents -> StartSteps] /\ control' = "up"
        /\ \A b \in Agents : b # a => pc'[b] = pc[b]
        /\ UNCHANGED <<mutation, flags, dataLock, applying, executor, loops, shutdown>>
    BY <1>s DEF ServiceInv, Shapes, StartControl, Goto, StartSteps, shutdown
  <2>c. \A b \in Agents : (Applying(b)' <=> Applying(b)) /\ (Starting(b)' => Starting(b))
    BY <2>b DEF Applying, Starting, ApplySteps, StartControl
  <2>d. \A b \in Starters : ~Starting(b)'
    BY <2>a, <2>b DEF Starting, ApplySteps
  <2>e. dataLock = "daemon" /\ alive
    BY <1>s DEF ServiceInv, StartInv, Starting, StartControl
  <2>q. QueueStep(a)
    <3>1. lifecycle' = Tail(lifecycle) /\ Holds(lifecycle, a)
      BY <1>s DEF StartControl, ServiceInv, LifecycleInv
    <3> QED
      BY <2>b, <3>1, PassesByReleasing, NobodyMoves DEF ServiceInv, Shapes, QueueStep
  <2> USE DEF shutdown
  <2>1. Shapes'
    BY <2>b, <2>q DEF ServiceInv, Shapes, QueueStep
  <2>2. LifecycleInv'
    BY <2>a, <2>b, <2>q DEF ServiceInv, LifecycleInv, QueueStep, Passes
  <2>3. MutationInv'
    BY <2>a, <2>b, <2>c DEF ServiceInv, MutationInv
  <2>4. StartInv'
    BY <2>b, <2>d DEF StartInv, Starting, Applying
  <2>5. (\A b \in Agents : ApplyInv(b))'
    BY <2>b, <2>c DEF ServiceInv, ApplyInv
  <2>6. ExecInv'
    BY <2>b DEF ServiceInv, ExecInv
  <2>7. DownInv'
    BY <2>a, <2>b DEF ServiceInv, DownInv
  <2>8. OffInv'
    BY <2>b, <2>e DEF OffInv
  <2>9. UpInv'
    BY <2>b, <2>e DEF UpInv
  <2> QED
    BY <2>1, <2>2, <2>3, <2>4, <2>5, <2>6, <2>7, <2>8, <2>9 DEF ServiceInv
<1> QED
  BY <1>f, <1>s

-----------------------------------------------------------------------------
\* Nobody else works while a applies a configuration.
Undisturbed(a) ==
    /\ Applying(a) /\ dataLock = "daemon"
    /\ \A b \in Agents : b # a => ~Applying(b) /\ cand[b] = None
    /\ a \in Mutators => \A b \in Starters : ~Starting(b)
    /\ down \notin {"drainAgain", "teardown", "release"}
    /\ a \in Starters => /\ down = "idle" /\ stopTask # "running" /\ control = "none"
                         /\ listed = None /\ \A e \in Executors : refresh[e] = "none"
                         /\ \A b \in Mutators : pc[b] = "out"
                         /\ \A b \in Starters : b # a => pc[b] \in {"out", "queued"}
    /\ \A e \in Executors : refresh[e] \notin {"fetch", "commit"}
    /\ \A e \in Executors : exec[e] # "none" => e = installed \/ e = cand[a]

LEMMA ApplierUndisturbed ==
    ASSUME ServiceInv, NEW a \in Agents, Applying(a)
    PROVE  Undisturbed(a)
<1> USE DistinctAssumption DEF Agents
<1>a. Alone
  BY WorksAlone
<1>1. \A b \in Agents : b # a => ~Applying(b) /\ cand[b] = None
  BY <1>a DEF Alone, ServiceInv, ApplyInv
<1>2. a \in Mutators => \A b \in Starters : ~Starting(b)
  BY DEF ServiceInv, StartInv, Applying, ApplySteps
<1>3. a \in Starters => /\ down = "idle" /\ stopTask # "running" /\ control = "none"
                        /\ listed = None /\ \A e \in Executors : refresh[e] = "none"
                        /\ \A b \in Mutators : pc[b] = "out"
                        /\ \A b \in Starters : b # a => pc[b] \in {"out", "queued"}
  BY <1>a DEF Alone, ServiceInv, StartInv, Applying, Starting, ApplySteps
<1>4. \A e \in Executors : exec[e] # "none" => e = installed \/ e = cand[a]
  BY <1>1 DEF ServiceInv, ExecInv
<1> QED
  BY <1>a, <1>1, <1>2, <1>3, <1>4 DEF Alone, Undisturbed

\* What every step does that a takes within _apply_config(): the parts of the invariant
\* that are not about the executors
LEMMA ApplyGoesOn ==
    ASSUME ServiceInv, NEW a \in Agents, Applying(a), NEW s \in ApplySteps, Goto(a, s),
           mutation' \in Seq(Mutators \cup Executors \cup {Down}),
           \A h \in Mutators \cup {Down} : Holds(mutation, h) => Holds(mutation', h),
           cand' \in [Agents -> Executors \cup {None}], old' \in [Agents -> Executors \cup {None}],
           exec' \in [Executors -> {"none", "built", "running", "halted"}],
           installed' \in Executors \cup {None}, listed' \in {listed, None},
           refresh' \in [Executors -> {"none", "queued", "fetch", "commit", "sleep"}],
           \A e \in Executors : refresh'[e] \in {refresh[e], "none"},
           UNCHANGED <<lifecycle, dataLock, control, stopping, alive, shutdown>>
    PROVE  /\ Shapes' /\ LifecycleInv' /\ MutationInv' /\ StartInv' /\ OffInv' /\ UpInv'
           /\ pc'[a] = s /\ \A b \in Agents : b # a => pc'[b] = pc[b]
<1> USE DistinctAssumption DEF Agents, shutdown
<1>a. Undisturbed(a)
  BY ApplierUndisturbed
<1>b. /\ pc'[a] = s /\ pc' \in [Agents -> StartSteps]
      /\ \A b \in Agents : b # a => pc'[b] = pc[b]
  BY DEF ServiceInv, Shapes, Goto, StartSteps
<1>c. \A b \in Agents : /\ Applying(b)' <=> Applying(b)
                        /\ Starting(b)' <=> Starting(b)
                        /\ pc'[b] \in {"load", "out", "queued", "cleanup"} <=> pc[b] \in {"load", "out", "queued", "cleanup"}
  BY <1>b DEF Applying, Starting, ApplySteps
<1>1. Shapes'
  BY <1>b DEF ServiceInv, Shapes
<1>2. LifecycleInv'
  BY <1>b DEF ServiceInv, LifecycleInv, Applying, ApplySteps
<1>3. MutationInv'
  <2>1. \A b \in Mutators : pc'[b] \in {"out", "queued"} \cup ApplySteps
    BY <1>b DEF ServiceInv, MutationInv
  <2>2. \A b \in Mutators : Applying(b)' => Holds(mutation', b)
    BY <1>c DEF ServiceInv, MutationInv
  <2>3. \A e \in Executors : refresh'[e] \notin {"fetch", "commit"}
    BY <1>a DEF Undisturbed
  <2> QED
    BY <2>1, <2>2, <2>3 DEF ServiceInv, MutationInv
<1>4. StartInv'
  <2> SUFFICES ASSUME NEW b \in Starters, Starting(b)'
               PROVE  /\ (dataLock = "daemon" /\ control = "none")'
                      /\ (\A c \in Mutators : pc[c] = "out")'
                      /\ (stopping \/ alive)'
                      /\ (pc[b] = "load" \/ Applying(b) =>
                             listed = None /\ \A e \in Executors : refresh[e] = "none")'
    BY DEF StartInv, Starting, Applying
  <2>1. Starting(b) /\ b = a
    BY <1>a, <1>c DEF Undisturbed, Starting, ApplySteps
  <2>2. stopping \/ alive
    BY <2>1 DEF ServiceInv, StartInv
  <2> QED
    BY <1>a, <1>b, <2>1, <2>2 DEF Undisturbed
<1>5. OffInv'
  BY <1>a DEF OffInv, Undisturbed
<1>6. UpInv'
  BY <1>b DEF ServiceInv, UpInv, Applying, ApplySteps
<1> QED
  BY <1>b, <1>1, <1>2, <1>3, <1>4, <1>5, <1>6

LEMMA ApplyBuildSafe ==
    ASSUME ServiceInv, NEW a \in Agents, ApplyBuild(a)
    PROVE  ServiceInv'
<1> USE DEF flags, loops
<1>a. Applying(a) /\ pc[a] = "build" /\ cand[a] = None
  BY DEF ApplyBuild, Applying, ApplySteps
<1>b. Undisturbed(a)
  BY <1>a, ApplierUndisturbed
<1>c. PICK e \in Executors : /\ exec[e] = "none" /\ refresh[e] = "none"
                             /\ exec' = [exec EXCEPT ![e] = "built"] /\ cand' = [cand EXCEPT ![a] = e]
  BY DEF ApplyBuild
<1>d. /\ exec' \in [Executors -> {"none", "built", "running", "halted"}]
      /\ cand' \in [Agents -> Executors \cup {None}]
      /\ exec'[e] = "built" /\ \A f \in Executors : f # e => exec'[f] = exec[f]
      /\ cand'[a] = e /\ \A b \in Agents : b # a => cand'[b] = cand[b]
      /\ e # installed /\ e # None
  BY <1>c, DistinctAssumption DEF ServiceInv, Shapes, ExecInv
<1>e. Goto(a, "build")
  BY <1>a DEF ApplyBuild, Goto, ServiceInv, Shapes
<1>1. /\ Shapes' /\ LifecycleInv' /\ MutationInv' /\ StartInv' /\ OffInv' /\ UpInv'
      /\ pc'[a] = "build" /\ \A b \in Agents : b # a => pc'[b] = pc[b]
  BY <1>a, <1>d, <1>e, ApplyGoesOn DEF ApplyBuild, ServiceInv, Shapes, ApplySteps
<1>2. (\A b \in Agents : ApplyInv(b))'
  BY <1>a, <1>b, <1>d, <1>1 DEF ServiceInv, ApplyInv, Undisturbed, Applying, ApplyBuild, ApplySteps
<1>3. ExecInv'
  <2>1. installed' = installed /\ ready' = ready /\ stopping' = stopping
    BY DEF ApplyBuild
  <2>2. ASSUME NEW f \in Executors, exec'[f] # "none"
        PROVE  f = installed' \/ \E b \in Agents : cand'[b] = f
    <3>1. CASE f = e
      BY <3>1, <1>d
    <3>2. CASE f # e
      <4>1. f = installed \/ \E b \in Agents : cand[b] = f
        BY <2>2, <3>2, <1>d DEF ServiceInv, ExecInv
      <4> QED
        BY <4>1, <2>1, <1>a, <1>d, DistinctAssumption
    <3> QED
      BY <3>1, <3>2
  <2>3. \A f \in Executors : exec'[f] \in {"running", "halted"} => f = installed'
    BY <1>d, <2>1 DEF ServiceInv, ExecInv
  <2>4. installed' # None => exec'[installed'] # "none"
    BY <1>d, <2>1 DEF ServiceInv, ExecInv, Shapes
  <2>5. ready' => installed' # None /\ exec'[installed'] = "running" /\ ~stopping'
    BY <1>d, <2>1 DEF ServiceInv, ExecInv, Shapes
  <2> QED
    BY <2>2, <2>3, <2>4, <2>5 DEF ExecInv
<1>4. DownInv'
  BY <1>b DEF ServiceInv, DownInv, Undisturbed, ApplyBuild, shutdown
<1> QED
  BY <1>1, <1>2, <1>3, <1>4 DEF ServiceInv

LEMMA ApplyQuiesceSafe ==
    ASSUME ServiceInv, NEW a \in Agents, ApplyQuiesce(a)
    PROVE  ServiceInv'
<1> USE DEF executor
<1>a. Applying(a) /\ pc[a] = "build" /\ cand[a] # None
  BY DEF ApplyQuiesce, Applying, ApplySteps
<1>b. Undisturbed(a)
  BY <1>a, ApplierUndisturbed
<1>c. /\ old' \in [Agents -> Executors \cup {None}] /\ old'[a] = installed
      /\ \A b \in Agents : b # a => old'[b] = old[b]
  BY DEF ServiceInv, Shapes, ApplyQuiesce
<1>d. /\ refresh' \in [Executors -> {"none", "queued", "fetch", "commit", "sleep"}]
      /\ \A e \in Executors : refresh'[e] \in {refresh[e], "none"}
      /\ mutation' \in Seq(Mutators \cup Executors \cup {Down})
      /\ \A h \in Mutators \cup {Down} : Holds(mutation, h) => Holds(mutation', h)
  <2>1. CASE listed = None
    BY <2>1 DEF ApplyQuiesce, ServiceInv, Shapes
  <2>2. CASE listed # None
    <3>1. listed \in Executors /\ listed \notin Mutators \cup {Down}
      BY <2>2, DistinctAssumption DEF ServiceInv, Shapes, Agents
    <3>2. refresh' = [refresh EXCEPT ![listed] = IF @ = "commit" THEN @ ELSE "none"]
      BY <2>2 DEF ApplyQuiesce, CancelLoop
    <3>3. mutation' = Without(mutation, listed)
      BY <1>b, <2>2, <3>1 DEF ApplyQuiesce, Undisturbed
    <3>4. /\ mutation' \in Seq(Mutators \cup Executors \cup {Down})
          /\ Passes(mutation, mutation', listed)
      BY <3>3, PassesByLeaving DEF ServiceInv, Shapes
    <3>5. \A h \in Mutators \cup {Down} : Holds(mutation, h) => Holds(mutation', h)
      BY <3>1, <3>4 DEF Passes
    <3> QED
      BY <3>1, <3>2, <3>4, <3>5 DEF ServiceInv, Shapes
  <2> QED
    BY <2>1, <2>2
<1>1. /\ Shapes' /\ LifecycleInv' /\ MutationInv' /\ StartInv' /\ OffInv' /\ UpInv'
      /\ pc'[a] = "drain" /\ \A b \in Agents : b # a => pc'[b] = pc[b]
  BY <1>a, <1>c, <1>d, ApplyGoesOn DEF ApplyQuiesce, ServiceInv, Shapes, ApplySteps
<1>2. (\A b \in Agents : ApplyInv(b))'
  BY <1>a, <1>b, <1>c, <1>1 DEF ServiceInv, ApplyInv, Undisturbed, Applying, ApplyQuiesce, ApplySteps
<1>3. ExecInv'
  BY DEF ServiceInv, ExecInv, ApplyQuiesce
<1>4. DownInv'
  BY <1>b, <1>d DEF ServiceInv, DownInv, Undisturbed, ApplyQuiesce, shutdown
<1> QED
  BY <1>1, <1>2, <1>3, <1>4 DEF ServiceInv

LEMMA ApplyDrainedSafe ==
    ASSUME ServiceInv, NEW a \in Agents, ApplyDrained(a)
    PROVE  ServiceInv'
<1> USE DEF executor, applying, flags
<1>a. Applying(a) /\ pc[a] = "drain"
  BY DEF ApplyDrained, Applying, ApplySteps
<1>b. Undisturbed(a)
  BY <1>a, ApplierUndisturbed
<1>1. /\ Shapes' /\ LifecycleInv' /\ MutationInv' /\ StartInv' /\ OffInv' /\ UpInv'
      /\ pc'[a] = "quiesce" /\ \A b \in Agents : b # a => pc'[b] = pc[b]
  BY <1>a, ApplyGoesOn DEF ApplyDrained, ServiceInv, Shapes, ApplySteps
<1>2. (\A b \in Agents : ApplyInv(b))'
  BY <1>a, <1>b, <1>1 DEF ServiceInv, ApplyInv, Undisturbed, Applying, ApplyDrained, ApplySteps
<1>3. ExecInv'
  BY DEF ServiceInv, ExecInv, ApplyDrained
<1>4. DownInv'
  BY <1>b DEF ServiceInv, DownInv, Undisturbed, ApplyDrained, shutdown
<1> QED
  BY <1>1, <1>2, <1>3, <1>4 DEF ServiceInv

LEMMA ApplySwapSafe ==
    ASSUME ServiceInv, NEW a \in Agents, ApplySwap(a)
    PROVE  ServiceInv'
<1> USE DEF applying, flags, loops
<1>a. Applying(a) /\ pc[a] = "quiesce"
  BY DEF ApplySwap, Applying, ApplySteps
<1>b. Undisturbed(a)
  BY <1>a, ApplierUndisturbed
<1>c. /\ cand[a] \in Executors /\ cand[a] # installed /\ exec[cand[a]] = "built"
      /\ old[a] = installed /\ ~ready /\ listed = None
  BY <1>a DEF ServiceInv, ApplyInv, Shapes
<1>d. /\ exec' \in [Executors -> {"none", "built", "running", "halted"}]
      /\ \A e \in Executors : exec'[e] = IF e = installed THEN "none" ELSE exec[e]
      /\ installed' = cand[a]
  BY <1>c DEF ServiceInv, Shapes, ApplySwap
<1>1. /\ Shapes' /\ LifecycleInv' /\ MutationInv' /\ StartInv' /\ OffInv' /\ UpInv'
      /\ pc'[a] = "prune" /\ \A b \in Agents : b # a => pc'[b] = pc[b]
  BY <1>a, <1>c, <1>d, ApplyGoesOn DEF ApplySwap, ServiceInv, Shapes, ApplySteps
<1>2. (\A b \in Agents : ApplyInv(b))'
  BY <1>a, <1>b, <1>c, <1>d, <1>1, DistinctAssumption
     DEF ServiceInv, ApplyInv, Undisturbed, Applying, ApplySwap, ApplySteps
<1>3. ExecInv'
  BY <1>b, <1>c, <1>d DEF ServiceInv, ExecInv, ApplySwap, Undisturbed
<1>4. DownInv'
  BY <1>b DEF ServiceInv, DownInv, Undisturbed, ApplySwap, shutdown
<1> QED
  BY <1>1, <1>2, <1>3, <1>4 DEF ServiceInv

\* What the end of _apply_config() does, for a mutator, a start and a cancelled start: the
\* same parts, and what the rest of the invariant needs
LEMMA ApplyEnds ==
    ASSUME ServiceInv, NEW a \in Agents, Applying(a), AfterApply(a),
           exec' \in [Executors -> {"none", "built", "running", "halted"}],
           installed' = installed, listed' \in Executors \cup {None},
           refresh' \in [Executors -> {"none", "queued", "fetch", "commit", "sleep"}],
           \A e \in Executors : refresh'[e] \notin {"fetch", "commit"},
           UNCHANGED <<lifecycle, dataLock, control, stopTask>>
    PROVE  /\ Shapes' /\ LifecycleInv' /\ MutationInv' /\ StartInv' /\ OffInv' /\ UpInv'
           /\ ~Applying(a)' /\ \A b \in Agents : b # a => pc'[b] = pc[b]
           /\ cand'[a] = None /\ \A b \in Agents : b # a => cand'[b] = cand[b]
           /\ \A b \in Agents : b # a => old'[b] = old[b]
           /\ \/ /\ down' = down /\ (stopping' <=> stopping) /\ a \notin Starters \cap pend
              \/ /\ a \in Starters \cap pend /\ down = "idle" /\ down' = "control" /\ stopping'
<1> USE DistinctAssumption DEF Agents
<1>a. Undisturbed(a)
  BY ApplierUndisturbed
<1>b. /\ cand' = [cand EXCEPT ![a] = None] /\ old' = [old EXCEPT ![a] = None]
      /\ cand' \in [Agents -> Executors \cup {None}] /\ old' \in [Agents -> Executors \cup {None}]
  BY DEF AfterApply, ServiceInv, Shapes
<1>c. /\ cand'[a] = None /\ \A b \in Agents : b # a => cand'[b] = cand[b]
      /\ \A b \in Agents : b # a => old'[b] = old[b]
  BY <1>b DEF ServiceInv, Shapes
<1>o. OffInv'
  BY <1>a DEF OffInv, Undisturbed
<1>m. CASE a \in Mutators
  <2>1. Goto(a, "out") /\ mutation' = Tail(mutation) /\ UNCHANGED <<stopping, alive, down>>
    BY <1>m DEF AfterApply
  <2>2. /\ pc'[a] = "out" /\ pc' \in [Agents -> StartSteps]
        /\ \A b \in Agents : b # a => pc'[b] = pc[b]
    BY <2>1 DEF ServiceInv, Shapes, Goto, StartSteps
  <2>3. /\ mutation' \in Seq(Mutators \cup Executors \cup {Down})
        /\ Passes(mutation, mutation', a)
    BY <1>m, <2>1, PassesByReleasing DEF ServiceInv, Shapes, MutationInv
  <2>4. ~Applying(a)' /\ \A b \in Agents : b # a => (Applying(b)' <=> Applying(b)) /\ (Starting(b)' <=> Starting(b))
    BY <2>2 DEF Applying, Starting, ApplySteps
  <2>5. Shapes'
    BY <1>b, <2>1, <2>2, <2>3 DEF ServiceInv, Shapes
  <2>6. LifecycleInv'
    BY <1>m, <2>1, <2>2 DEF ServiceInv, LifecycleInv
  <2>7. MutationInv'
    <3>1. \A b \in Agents : ~Applying(b)'
      BY <1>a, <2>4 DEF Undisturbed
    <3> QED
      BY <1>a, <2>1, <2>2, <3>1 DEF ServiceInv, MutationInv, Undisturbed
  <2>8. StartInv'
    <3>1. \A b \in Starters : ~Starting(b)'
      BY <1>a, <1>m, <2>4 DEF Undisturbed
    <3> QED
      BY <3>1 DEF StartInv, Starting, Applying
  <2>9. UpInv'
    BY <1>m, <2>1, <2>2 DEF ServiceInv, UpInv
  <2> QED
    BY <1>c, <1>m, <1>o, <2>1, <2>2, <2>4, <2>5, <2>6, <2>7, <2>8, <2>9
<1>s. CASE a \in Starters
  <2>1. /\ mutation' = mutation
        /\ \/ /\ Goto(a, "control") /\ a \notin pend /\ UNCHANGED <<stopping, alive, down>>
           \/ Goto(a, "cleanup") /\ a \in pend /\ stopping' /\ down' = "control"
    BY <1>s DEF AfterApply
  <2>2. /\ pc'[a] \in {"control", "cleanup"} /\ pc' \in [Agents -> StartSteps]
        /\ \A b \in Agents : b # a => pc'[b] = pc[b]
        /\ pc'[a] = "control" => a \notin pend /\ UNCHANGED <<stopping, alive, down>>
        /\ pc'[a] = "cleanup" => a \in pend /\ stopping' /\ down' = "control"
    BY <2>1 DEF ServiceInv, Shapes, Goto, StartSteps
  <2>3. ~Applying(a)' /\ \A b \in Agents : b # a => (Applying(b)' <=> Applying(b)) /\ (Starting(b)' <=> Starting(b))
    BY <2>2 DEF Applying, Starting, ApplySteps
  <2>4. down' \in DownSteps
    BY <2>2 DEF ServiceInv, Shapes, DownSteps
  <2>5. Shapes'
    BY <1>b, <2>1, <2>2, <2>4 DEF ServiceInv, Shapes
  <2>6. LifecycleInv'
    BY <1>a, <1>s, <2>2 DEF ServiceInv, LifecycleInv, Undisturbed, Applying, ApplySteps
  <2>7. MutationInv'
    <3>1. \A b \in Agents : ~Applying(b)'
      BY <1>a, <2>3 DEF Undisturbed
    <3>2. down' \notin {"drainAgain", "teardown"}
      BY <1>a, <1>s, <2>2 DEF Undisturbed
    <3> QED
      BY <1>a, <1>s, <2>2, <3>1, <3>2 DEF ServiceInv, MutationInv, Undisturbed
  <2>8. StartInv'
    <3>1. \A b \in Starters : Starting(b)' => b = a /\ pc'[a] = "control"
      BY <1>a, <2>2 DEF Undisturbed, Starting, ApplySteps
    <3>2. Starting(a) /\ (stopping \/ alive)
      BY <1>s DEF ServiceInv, StartInv, Starting, Applying
    <3> QED
      BY <1>a, <1>s, <2>2, <3>1, <3>2 DEF StartInv, Starting, Applying, ApplySteps, Undisturbed
  <2>9. UpInv'
    BY <1>s, <2>2 DEF UpInv
  <2>10. \/ /\ down' = down /\ (stopping' <=> stopping) /\ a \notin Starters \cap pend
         \/ /\ a \in Starters \cap pend /\ down = "idle" /\ down' = "control" /\ stopping'
    BY <1>a, <1>s, <2>2 DEF Undisturbed
  <2> QED
    BY <1>c, <1>o, <2>2, <2>3, <2>5, <2>6, <2>7, <2>8, <2>9, <2>10
<1> QED
  BY <1>m, <1>s

LEMMA ApplyRejectSafe ==
    ASSUME ServiceInv, NEW a \in Agents, ApplyReject(a)
    PROVE  ServiceInv'
<1> USE DEF loops
<1>a. Applying(a) /\ pc[a] = "build" /\ cand[a] # None
  BY DEF ApplyReject, Applying, ApplySteps
<1>b. Undisturbed(a)
  BY <1>a, ApplierUndisturbed
<1>c. cand[a] \in Executors /\ exec[cand[a]] = "built" /\ cand[a] # installed
  BY <1>a DEF ServiceInv, ApplyInv, Shapes
<1>d. /\ exec' \in [Executors -> {"none", "built", "running", "halted"}]
      /\ exec'[cand[a]] = "none" /\ \A e \in Executors : e # cand[a] => exec'[e] = exec[e]
  BY <1>c DEF ServiceInv, Shapes, ApplyReject
<1>1. /\ Shapes' /\ LifecycleInv' /\ MutationInv' /\ StartInv' /\ OffInv' /\ UpInv'
      /\ ~Applying(a)' /\ \A b \in Agents : b # a => pc'[b] = pc[b]
      /\ cand'[a] = None /\ \A b \in Agents : b # a => cand'[b] = cand[b]
      /\ \A b \in Agents : b # a => old'[b] = old[b]
      /\ \/ /\ down' = down /\ (stopping' <=> stopping) /\ a \notin Starters \cap pend
         \/ /\ a \in Starters \cap pend /\ down = "idle" /\ down' = "control" /\ stopping'
  <2>1. \A e \in Executors : refresh'[e] \notin {"fetch", "commit"}
    BY <1>b DEF Undisturbed, ApplyReject
  <2> QED
    BY <1>a, <1>d, <2>1, ApplyEnds DEF ApplyReject, ServiceInv, Shapes
<1>e. \A b \in Agents : ~Applying(b)' /\ cand'[b] = None
  BY <1>b, <1>1 DEF Undisturbed, Applying
<1>2. (\A b \in Agents : ApplyInv(b))'
  BY <1>e DEF ApplyInv, Applying, ApplySteps
<1>3. ExecInv'
  <2>1. installed' = installed
    BY DEF ApplyReject
  <2>2. \A e \in Executors : exec'[e] # "none" => e = installed
    BY <1>b, <1>d DEF Undisturbed
  <2>3. installed # None => exec'[installed] = exec[installed]
    BY <1>c, <1>d DEF ServiceInv, Shapes
  <2>4. ready' => ready /\ a \notin Starters \cap pend
    BY DEF ApplyReject
  <2>5. ready' => installed # None /\ exec'[installed] = "running" /\ ~stopping'
    BY <1>1, <2>3, <2>4 DEF ServiceInv, ExecInv
  <2> QED
    BY <2>1, <2>2, <2>3, <2>5 DEF ServiceInv, ExecInv
<1>4. DownInv'
  BY <1>b, <1>1 DEF ServiceInv, DownInv, Undisturbed, ApplyReject
<1> QED
  BY <1>1, <1>2, <1>3, <1>4 DEF ServiceInv

LEMMA ApplySwapFailsSafe ==
    ASSUME ServiceInv, NEW a \in Agents, ApplySwapFails(a)
    PROVE  ServiceInv'
<1> USE DEF loops
<1>a. Applying(a) /\ pc[a] = "quiesce" /\ old[a] # None
  BY DEF ApplySwapFails, Applying, ApplySteps
<1>b. Undisturbed(a)
  BY <1>a, ApplierUndisturbed
<1>c. /\ cand[a] \in Executors /\ cand[a] # installed /\ installed \in Executors
      /\ old[a] = installed /\ ~ready /\ listed = None
  BY <1>a DEF ServiceInv, ApplyInv, Shapes
<1>d. /\ exec' \in [Executors -> {"none", "built", "running", "halted"}]
      /\ exec'[cand[a]] = "none" /\ exec'[installed] = "halted"
      /\ \A e \in Executors : e # cand[a] /\ e # installed => exec'[e] = exec[e]
  BY <1>c DEF ServiceInv, Shapes, ApplySwapFails
<1>1. /\ Shapes' /\ LifecycleInv' /\ MutationInv' /\ StartInv' /\ OffInv' /\ UpInv'
      /\ ~Applying(a)' /\ \A b \in Agents : b # a => pc'[b] = pc[b]
      /\ cand'[a] = None /\ \A b \in Agents : b # a => cand'[b] = cand[b]
      /\ \A b \in Agents : b # a => old'[b] = old[b]
      /\ \/ /\ down' = down /\ (stopping' <=> stopping) /\ a \notin Starters \cap pend
         \/ /\ a \in Starters \cap pend /\ down = "idle" /\ down' = "control" /\ stopping'
  <2>1. \A e \in Executors : refresh'[e] \notin {"fetch", "commit"}
    BY <1>b DEF Undisturbed, ApplySwapFails
  <2> QED
    BY <1>a, <1>d, <2>1, ApplyEnds DEF ApplySwapFails, ServiceInv, Shapes
<1>e. \A b \in Agents : ~Applying(b)' /\ cand'[b] = None
  BY <1>b, <1>1 DEF Undisturbed, Applying
<1>2. (\A b \in Agents : ApplyInv(b))'
  BY <1>e DEF ApplyInv, Applying, ApplySteps
<1>3. ExecInv'
  <2>1. installed' = installed /\ ~ready'
    BY <1>c DEF ApplySwapFails
  <2>2. \A e \in Executors : exec'[e] # "none" => e = installed
    BY <1>b, <1>d DEF Undisturbed
  <2> QED
    BY <1>d, <2>1, <2>2 DEF ExecInv
<1>4. DownInv'
  BY <1>b, <1>1 DEF ServiceInv, DownInv, Undisturbed, ApplySwapFails
<1> QED
  BY <1>1, <1>2, <1>3, <1>4 DEF ServiceInv

LEMMA ApplyActivateSafe ==
    ASSUME ServiceInv, NEW a \in Agents, ApplyActivate(a)
    PROVE  ServiceInv'
<1>a. Applying(a) /\ pc[a] = "prune"
  BY DEF ApplyActivate, Applying, ApplySteps
<1>b. Undisturbed(a)
  BY <1>a, ApplierUndisturbed
<1>c. /\ cand[a] \in Executors /\ cand[a] = installed /\ installed # None /\ ~ready /\ listed = None
  BY <1>a DEF ServiceInv, ApplyInv, Shapes
<1>d. /\ exec' \in [Executors -> {"none", "built", "running", "halted"}]
      /\ exec'[installed] = "running"
      /\ \A e \in Executors : e # installed => exec'[e] = exec[e]
      /\ refresh' \in [Executors -> {"none", "queued", "fetch", "commit", "sleep"}]
      /\ refresh'[installed] = "sleep"
      /\ \A e \in Executors : e # installed => refresh'[e] = refresh[e]
      /\ listed' = installed /\ installed' = installed
  BY <1>c DEF ServiceInv, Shapes, ApplyActivate
<1>1. /\ Shapes' /\ LifecycleInv' /\ MutationInv' /\ StartInv' /\ OffInv' /\ UpInv'
      /\ ~Applying(a)' /\ \A b \in Agents : b # a => pc'[b] = pc[b]
      /\ cand'[a] = None /\ \A b \in Agents : b # a => cand'[b] = cand[b]
      /\ \A b \in Agents : b # a => old'[b] = old[b]
      /\ \/ /\ down' = down /\ (stopping' <=> stopping) /\ a \notin Starters \cap pend
         \/ /\ a \in Starters \cap pend /\ down = "idle" /\ down' = "control" /\ stopping'
  <2>1. \A e \in Executors : refresh'[e] \notin {"fetch", "commit"}
    BY <1>b, <1>d DEF Undisturbed
  <2> QED
    BY <1>a, <1>c, <1>d, <2>1, ApplyEnds DEF ApplyActivate
<1>e. \A b \in Agents : ~Applying(b)' /\ cand'[b] = None
  BY <1>b, <1>1 DEF Undisturbed, Applying
<1>2. (\A b \in Agents : ApplyInv(b))'
  BY <1>e DEF ApplyInv, Applying, ApplySteps
<1>3. ExecInv'
  <2>1. ready' => ~stopping /\ a \notin Starters \cap pend
    BY DEF ApplyActivate
  <2>2. ready' => ~stopping'
    BY <1>1, <2>1
  <2>3. \A e \in Executors : exec'[e] # "none" => e = installed
    BY <1>b, <1>c, <1>d DEF Undisturbed
  <2> QED
    BY <1>c, <1>d, <2>2, <2>3 DEF ExecInv
<1>4. DownInv'
  <2>1. control' = control
    BY DEF ApplyActivate
  <2> QED
    BY <1>b, <1>c, <1>d, <1>1, <2>1, DistinctAssumption DEF ServiceInv, DownInv, Undisturbed
<1> QED
  BY <1>1, <1>2, <1>3, <1>4 DEF ServiceInv

-----------------------------------------------------------------------------
\* A refresh loop that exists takes a step; a commit may halt the installed executor.
LEMMA RefreshMoves ==
    ASSUME ServiceInv, NEW e \in Executors, refresh[e] # "none",
           NEW s \in {"none", "queued", "fetch", "commit", "sleep"},
           refresh' = [refresh EXCEPT ![e] = s],
           mutation' \in Seq(Mutators \cup Executors \cup {Down}),
           Passes(mutation, mutation', e), s \in {"fetch", "commit"} => Holds(mutation', e),
           \/ UNCHANGED <<exec, ready>>
           \/ /\ refresh[e] = "commit" /\ installed # None /\ ready' = FALSE
              /\ exec' = [exec EXCEPT ![installed] = "halted"],
           UNCHANGED <<lifecycle, dataLock, control, pc, stopping, alive, applying, installed,
                       listed, shutdown>>
    PROVE  ServiceInv'
<1> USE DistinctAssumption DEF Agents, applying, shutdown
<1>a. Alone
  BY WorksAlone
<1>b. /\ refresh' \in [Executors -> {"none", "queued", "fetch", "commit", "sleep"}]
      /\ refresh'[e] = s /\ \A f \in Executors : f # e => refresh'[f] = refresh[f]
  BY DEF ServiceInv, Shapes
<1>c. /\ exec' \in [Executors -> {"none", "built", "running", "halted"}]
      /\ \A f \in Executors : exec'[f] = exec[f] \/ (f = installed /\ exec'[f] = "halted" /\ ~ready' /\ refresh[e] = "commit")
      /\ ready' => ready /\ exec' = exec
  <2>1. CASE UNCHANGED <<exec, ready>>
    BY <2>1 DEF ServiceInv, Shapes
  <2>2. CASE /\ refresh[e] = "commit" /\ installed # None /\ ready' = FALSE
             /\ exec' = [exec EXCEPT ![installed] = "halted"]
    <3>1. exec \in [Executors -> {"none", "built", "running", "halted"}] /\ installed \in Executors
      BY <2>2 DEF ServiceInv, Shapes
    <3>2. ~ready'
      BY <2>2
    <3> QED
      BY <2>2, <3>1, <3>2
  <2> QED
    BY <2>1, <2>2
<1>d. \A b \in Agents : (Applying(b)' <=> Applying(b)) /\ (Starting(b)' <=> Starting(b))
  BY DEF Applying, Starting
<1>1. Shapes'
  BY <1>b, <1>c DEF ServiceInv, Shapes
<1>2. LifecycleInv'
  BY DEF ServiceInv, LifecycleInv
<1>3. MutationInv'
  <2>1. \A h : h # e /\ Holds(mutation, h) => Holds(mutation', h)
    BY DEF Passes
  <2>2. e \notin Mutators /\ e # Down
    OBVIOUS
  <2>3. \A b \in Mutators : /\ pc'[b] \in {"out", "queued"} \cup ApplySteps
                            /\ Applying(b)' => Holds(mutation', b)
    BY <1>d, <2>1, <2>2 DEF ServiceInv, MutationInv
  <2>4. \A f \in Executors : refresh'[f] \in {"fetch", "commit"} => Holds(mutation', f)
    BY <1>b, <2>1 DEF ServiceInv, MutationInv
  <2> QED
    BY <2>1, <2>2, <2>3, <2>4 DEF ServiceInv, MutationInv
<1>4. StartInv'
  BY <1>d DEF ServiceInv, StartInv
<1>5. (\A b \in Agents : ApplyInv(b))'
  <2>1. CASE refresh[e] = "commit"
    <3>1. \A b \in Agents : ~Applying(b)
      BY <1>a, <2>1 DEF Alone
    <3> QED
      BY <1>d, <3>1 DEF ServiceInv, ApplyInv, Applying, ApplySteps
  <2>2. CASE refresh[e] # "commit"
    BY <1>d, <2>2 DEF ServiceInv, ApplyInv
  <2> QED
    BY <2>1, <2>2
<1>6. ExecInv'
  <2>1. installed # None => installed \in Executors
    BY DEF ServiceInv, Shapes
  <2>2. installed # None => exec'[installed] # "none"
    BY <1>c, <2>1 DEF ServiceInv, ExecInv
  <2>3. \A f \in Executors : /\ exec'[f] \in {"running", "halted"} => f = installed
                             /\ exec'[f] # "none" => f = installed \/ exec[f] # "none"
    BY <1>c DEF ServiceInv, ExecInv
  <2> QED
    BY <1>c, <2>2, <2>3 DEF ServiceInv, ExecInv
<1>7. DownInv'
  <2>1. /\ down \notin {"drainAgain", "teardown", "release"}
        /\ down # "drain" => e = listed
    BY DEF ServiceInv, DownInv
  <2> QED
    BY <1>b, <2>1 DEF ServiceInv, DownInv
<1>8. OffInv'
  BY DEF ServiceInv, OffInv
<1>9. UpInv'
  BY DEF ServiceInv, UpInv
<1> QED
  BY <1>1, <1>2, <1>3, <1>4, <1>5, <1>6, <1>7, <1>8, <1>9 DEF ServiceInv

LEMMA RefreshSafe ==
    ASSUME ServiceInv, NEW e \in Executors, RefreshStep(e)
    PROVE  ServiceInv'
<1> USE DEF flags, executor
<1>a. mutation \in Seq(Mutators \cup Executors \cup {Down})
  BY DEF ServiceInv, Shapes
<1>b. /\ Passes(mutation, mutation, e)
      /\ Holds(mutation, e) => /\ Tail(mutation) \in Seq(Mutators \cup Executors \cup {Down})
                               /\ Passes(mutation, Tail(mutation), e)
  BY <1>a, NobodyMoves, PassesByReleasing
<1>1. CASE RefreshCall(e)
  <2>1. Append(mutation, e) \in Seq(Mutators \cup Executors \cup {Down}) /\ Passes(mutation, Append(mutation, e), e)
    BY <1>a, PassesByJoining
  <2> QED
    BY <1>1, <2>1, RefreshMoves DEF RefreshCall
<1>2. CASE RefreshEnter(e)
  BY <1>2, <1>a, <1>b, RefreshMoves DEF RefreshEnter
<1>3. CASE RefreshWork(e)
  <2>1. Holds(mutation, e)
    BY <1>3 DEF RefreshWork, ServiceInv, MutationInv
  <2>2. PICK s \in {"none", "commit", "sleep"} :
           /\ refresh' = [refresh EXCEPT ![e] = s]
           /\ IF s = "commit" THEN mutation' = mutation ELSE mutation' = Tail(mutation)
    BY <1>3 DEF RefreshWork
  <2>3. \/ UNCHANGED <<exec, ready>>
        \/ /\ refresh[e] = "commit" /\ installed # None /\ ready' = FALSE
           /\ exec' = [exec EXCEPT ![installed] = "halted"]
    BY <1>3 DEF RefreshWork
  <2>4. /\ mutation' \in Seq(Mutators \cup Executors \cup {Down}) /\ Passes(mutation, mutation', e)
        /\ s \in {"fetch", "commit"} => Holds(mutation', e)
    BY <1>a, <1>b, <2>1, <2>2
  <2>5. refresh[e] # "none"
    BY <1>3 DEF RefreshWork
  <2>6. UNCHANGED <<lifecycle, dataLock, control, pc, stopping, alive, applying, installed, listed, shutdown>>
    BY <1>3 DEF RefreshWork
  <2> HIDE DEF flags, executor
  <2> QED
    BY <2>2, <2>3, <2>4, <2>5, <2>6, RefreshMoves
<1> QED
  BY <1>1, <1>2, <1>3 DEF RefreshStep

-----------------------------------------------------------------------------
LEMMA StopSafe ==
    ASSUME ServiceInv, (\E s \in Stoppers : Stop(s)) \/ OtherProcess
    PROVE  ServiceInv'
<1> USE DEF flags, applying, executor, loops, shutdown, Starting, Applying
<1>1. CASE \E s \in Stoppers : Stop(s)
  <2>1. /\ stopTask' = IF stopTask = "none" THEN "created" ELSE stopTask
        /\ UNCHANGED <<lifecycle, mutation, dataLock, control, pc, flags, applying, executor,
                       loops, down>>
    BY <1>1 DEF Stop
  <2> QED
    BY <2>1 DEF ServiceInv, Shapes, LifecycleInv, MutationInv, StartInv, ApplyInv, ExecInv, DownInv, OffInv, UpInv
<1>2. CASE OtherProcess
  BY <1>2 DEF OtherProcess, ServiceInv, Shapes, LifecycleInv, MutationInv, StartInv, ApplyInv, ExecInv, DownInv, OffInv, UpInv
<1> QED
  BY <1>1, <1>2

LEMMA StopAnnounceSafe ==
    ASSUME ServiceInv, StopAnnounce
    PROVE  ServiceInv'
<1> USE DEF applying, executor, loops, Starting, Applying
<1>a. /\ stopTask = "created" /\ stopTask' = "queued" /\ lifecycle' = Append(lifecycle, StopTask)
      /\ stopping' /\ ~ready' /\ ~alive'
      /\ UNCHANGED <<mutation, dataLock, control, pc, applying, executor, loops, down>>
  BY DEF StopAnnounce
<1>b. /\ lifecycle' \in Seq(Starters \cup {StopTask}) /\ Waits(lifecycle', StopTask)
      /\ \A h : Holds(lifecycle, h) => Holds(lifecycle', h)
  BY <1>a, PassesByJoining DEF ServiceInv, Shapes
<1>1. Shapes' /\ LifecycleInv' /\ MutationInv'
  BY <1>a, <1>b DEF ServiceInv, Shapes, LifecycleInv, MutationInv
<1>2. StartInv' /\ (\A a \in Agents : ApplyInv(a))' /\ ExecInv' /\ DownInv' /\ OffInv' /\ UpInv'
  BY <1>a DEF ServiceInv, StartInv, ApplyInv, ExecInv, DownInv, OffInv, UpInv
<1> QED
  BY <1>1, <1>2 DEF ServiceInv

LEMMA StopEnterSafe ==
    ASSUME ServiceInv, StopEnter
    PROVE  ServiceInv'
<1> USE DEF applying, executor, loops, Starting, Applying
<1>a. /\ Holds(lifecycle, StopTask) /\ stopTask' = "running" /\ down' = "control"
      /\ stopping' /\ ~ready' /\ ~alive' /\ stopTask = "queued"
      /\ UNCHANGED <<lifecycle, mutation, dataLock, control, pc, applying, executor, loops>>
  BY DEF StopEnter
<1>b. /\ \A a \in Starters : pc[a] \in {"out", "queued"}
      /\ down = "idle"
  BY <1>a, HoldsOne, DistinctAssumption DEF ServiceInv, LifecycleInv, Agents
<1>1. Shapes' /\ LifecycleInv' /\ MutationInv'
  BY <1>a, <1>b DEF ServiceInv, Shapes, LifecycleInv, MutationInv, DownSteps
<1>2. StartInv' /\ (\A a \in Agents : ApplyInv(a))' /\ ExecInv' /\ DownInv' /\ OffInv' /\ UpInv'
  BY <1>a, <1>b DEF ServiceInv, StartInv, ApplyInv, ExecInv, DownInv, OffInv, UpInv
<1> QED
  BY <1>1, <1>2 DEF ServiceInv

-----------------------------------------------------------------------------
\* What every step of _stop_locked() leaves alone: all but the executors, the loops and
\* the control server
LEMMA DownMoves ==
    ASSUME ServiceInv, down # "idle", down' \in DownSteps \ {"idle"},
           mutation' \in Seq(Mutators \cup Executors \cup {Down}),
           \A h \in Mutators : Holds(mutation, h) => Holds(mutation', h),
           \A e \in Executors : refresh'[e] \in {"fetch", "commit"} =>
               refresh[e] = refresh'[e] /\ (Holds(mutation, e) => Holds(mutation', e)),
           down' \in {"drainAgain", "teardown"} => Holds(mutation', Down),
           exec' \in [Executors -> {"none", "built", "running", "halted"}],
           installed' \in {installed, None}, listed' \in {listed, None},
           control' \in {"none", "up", "closing"}, control = "none" => control' = "none",
           refresh' \in [Executors -> {"none", "queued", "fetch", "commit", "sleep"}],
           \A e \in Executors : exec[e] = "none" => exec'[e] = "none",
           \A e \in Executors : refresh[e] = "none" => refresh'[e] = "none",
           UNCHANGED <<lifecycle, dataLock, pc, flags, applying, stopTask>>
    PROVE  Shapes' /\ LifecycleInv' /\ MutationInv' /\ StartInv' /\ OffInv' /\ UpInv'
<1> USE DEF flags, applying
<1>a. \A a \in Starters : ~Starting(a)
  BY WorksAlone DEF Alone, Starting, ApplySteps
<1>b. \A a \in Agents : (Applying(a)' <=> Applying(a)) /\ (Starting(a)' <=> Starting(a))
  BY DEF Applying, Starting
<1>1. Shapes'
  BY DEF ServiceInv, Shapes
<1>2. LifecycleInv'
  BY DEF ServiceInv, LifecycleInv
<1>3. MutationInv'
  BY <1>b DEF ServiceInv, MutationInv, Agents
<1>4. StartInv'
  BY <1>a, <1>b DEF StartInv, Starting, Applying, Agents
<1>5. OffInv'
  BY <1>b DEF ServiceInv, OffInv, Agents
<1>6. UpInv'
  BY DEF ServiceInv, UpInv
<1> QED
  BY <1>1, <1>2, <1>3, <1>4, <1>5, <1>6

\* The steps before the executor is torn down, that touch neither executor nor loops
LEMMA DownEarlySafe ==
    ASSUME ServiceInv, DownControl \/ DownHandlers \/ DownDrained \/ DownDrainedAgain
    PROVE  ServiceInv'
<1> USE DEF flags, applying, executor, loops
<1>a. /\ down \in {"control", "handlers", "drain", "drainAgain"}
      /\ down' \in {"handlers", "refresh", "queued", "teardown"}
      /\ UNCHANGED <<lifecycle, dataLock, pc, flags, applying, executor, loops, stopTask>>
  BY DEF DownControl, DownHandlers, DownDrained, DownDrainedAgain
<1>b. mutation' = mutation \/ mutation' = Append(mutation, Down)
  BY DEF DownControl, DownHandlers, DownDrained, DownDrainedAgain
<1>c. /\ mutation' \in Seq(Mutators \cup Executors \cup {Down})
      /\ \A h : Holds(mutation, h) => Holds(mutation', h)
  <2>1. mutation \in Seq(Mutators \cup Executors \cup {Down})
    BY DEF ServiceInv, Shapes
  <2>2. CASE mutation' = mutation
    BY <2>1, <2>2
  <2>3. CASE mutation' = Append(mutation, Down)
    BY <2>1, <2>3, PassesByJoining
  <2> QED
    BY <1>b, <2>2, <2>3
<1>d. /\ control' \in {"none", "up", "closing"} /\ (control = "none" => control' = "none")
      /\ down' # "handlers" => control' = "none"
      /\ down' = "teardown" => down = "drainAgain"
      /\ down = "drain" => \A e \in Executors : refresh[e] = "none"
  BY DEF DownControl, DownHandlers, DownDrained, DownDrainedAgain, ServiceInv, Shapes, DownInv
<1>1. Shapes' /\ LifecycleInv' /\ MutationInv' /\ StartInv' /\ OffInv' /\ UpInv'
  <2>1. down' \in DownSteps \ {"idle"} /\ down # "idle"
    BY <1>a DEF DownSteps
  <2>2. down' \in {"drainAgain", "teardown"} => Holds(mutation', Down)
    BY <1>a, <1>c, <1>d DEF ServiceInv, MutationInv
  <2> QED
    BY <1>a, <1>c, <1>d, <2>1, <2>2, DownMoves DEF ServiceInv, Shapes
<1>2. (\A a \in Agents : ApplyInv(a))' /\ ExecInv'
  BY <1>a DEF ServiceInv, ApplyInv, ExecInv, Applying
<1>3. DownInv'
  BY <1>a, <1>d DEF ServiceInv, DownInv
<1> QED
  BY <1>1, <1>2, <1>3 DEF ServiceInv

\* The loops are cancelled, at first and under the mutation lock; under it none of them
\* commits, so that none is left.
LEMMA DownCancelsSafe ==
    ASSUME ServiceInv, DownRefresh \/ DownLocked
    PROVE  ServiceInv'
<1> USE DEF flags, applying, executor
<1>a. PICK next \in {"drain", "drainAgain"} :
         /\ CancelLoops(next)
         /\ next = "drain" => down = "refresh"
         /\ next = "drainAgain" => down = "queued" /\ Holds(mutation, Down)
  BY DEF DownRefresh, DownLocked
<1>b. /\ listed' = None /\ down' = next /\ down \in {"refresh", "queued"}
      /\ UNCHANGED <<lifecycle, dataLock, control, pc, flags, applying, executor, stopTask>>
  BY <1>a DEF CancelLoops
<1>c. /\ refresh' \in [Executors -> {"none", "queued", "fetch", "commit", "sleep"}]
      /\ \A e \in Executors : e # listed => refresh'[e] = refresh[e]
      /\ listed # None => refresh'[listed] = IF refresh[listed] = "commit" THEN "commit" ELSE "none"
  <2>1. CASE listed = None
    BY <1>a, <2>1 DEF CancelLoops, ServiceInv, Shapes
  <2>2. CASE listed # None
    BY <1>a, <2>2 DEF CancelLoops, CancelLoop, ServiceInv, Shapes
  <2> QED
    BY <2>1, <2>2
<1>d. /\ mutation' \in Seq(Mutators \cup Executors \cup {Down})
      /\ \A h \in Mutators \cup {Down} : Holds(mutation, h) => Holds(mutation', h)
      /\ \A e \in Executors : refresh'[e] \in {"fetch", "commit"} /\ Holds(mutation, e) => Holds(mutation', e)
  <2>1. CASE listed = None \/ mutation' = mutation
    BY <1>a, <2>1 DEF CancelLoops, ServiceInv, Shapes
  <2>2. CASE listed # None /\ mutation' # mutation
    <3>1. listed \in Executors /\ listed \notin Mutators \cup {Down}
      BY <2>2, DistinctAssumption DEF ServiceInv, Shapes, Agents
    <3>2. refresh[listed] # "commit" /\ mutation' = Without(mutation, listed)
      BY <1>a, <2>2 DEF CancelLoops
    <3>3. /\ mutation' \in Seq(Mutators \cup Executors \cup {Down})
          /\ Passes(mutation, mutation', listed)
      BY <3>2, PassesByLeaving DEF ServiceInv, Shapes
    <3> QED
      BY <1>c, <2>2, <3>1, <3>2, <3>3 DEF Passes
  <2> QED
    BY <2>1, <2>2
<1>e. \A e \in Executors : refresh'[e] \in {refresh[e], "none"}
  BY <1>c, DistinctAssumption
<1>1. Shapes' /\ LifecycleInv' /\ MutationInv' /\ StartInv' /\ OffInv' /\ UpInv'
  <2>1. down' \in DownSteps \ {"idle"} /\ down # "idle"
    BY <1>b DEF DownSteps
  <2>2. down' \in {"drainAgain", "teardown"} => Holds(mutation', Down)
    BY <1>a, <1>b, <1>d
  <2>3. \A e \in Executors : refresh'[e] \in {"fetch", "commit"} =>
               refresh[e] = refresh'[e] /\ (Holds(mutation, e) => Holds(mutation', e))
    BY <1>d, <1>e
  <2> QED
    BY <1>b, <1>c, <1>d, <1>e, <2>1, <2>2, <2>3, DownMoves DEF ServiceInv, Shapes
<1>2. (\A a \in Agents : ApplyInv(a))' /\ ExecInv'
  BY <1>b DEF ServiceInv, ApplyInv, ExecInv, Applying
<1>3. DownInv'
  <2>1. ASSUME next = "drainAgain"
        PROVE  \A e \in Executors : refresh'[e] = "none"
    <3>1. \A e \in Executors : refresh[e] # "commit"
      BY <1>a, <2>1, HoldsOne, DistinctAssumption DEF ServiceInv, MutationInv
    <3>2. \A e \in Executors : refresh[e] # "none" => e = listed
      BY <1>a, <2>1 DEF ServiceInv, DownInv
    <3> QED
      BY <1>c, <3>1, <3>2, DistinctAssumption
  <2> QED
    BY <1>b, <2>1 DEF ServiceInv, DownInv
<1> QED
  BY <1>1, <1>2, <1>3 DEF ServiceInv

\* The executor is torn down: nobody has another one in the making.
LEMMA DownTeardownSafe ==
    ASSUME ServiceInv, DownTeardown
    PROVE  ServiceInv'
<1> USE DEF flags, applying, loops
<1>a. /\ down = "teardown" /\ down' = "release" /\ installed' = None /\ mutation' = Tail(mutation)
      /\ UNCHANGED <<lifecycle, dataLock, control, pc, flags, applying, loops, stopTask>>
  BY DEF DownTeardown
<1>b. \A a \in Agents : ~Applying(a) /\ cand[a] = None
  BY <1>a, WorksAlone DEF Alone, ServiceInv, ApplyInv
<1>c. /\ exec' \in [Executors -> {"none", "built", "running", "halted"}]
      /\ \A e \in Executors : exec'[e] = "none"
  BY <1>b, DistinctAssumption DEF DownTeardown, ServiceInv, ExecInv, Shapes
<1>d. /\ mutation' \in Seq(Mutators \cup Executors \cup {Down})
      /\ \A h \in Mutators \cup Executors : Holds(mutation, h) => Holds(mutation', h)
  BY <1>a, PassesByReleasing, DistinctAssumption DEF ServiceInv, Shapes, MutationInv, Passes, Agents
<1>1. Shapes' /\ LifecycleInv' /\ MutationInv' /\ StartInv' /\ OffInv' /\ UpInv'
  <2>1. down' \in DownSteps \ {"idle"} /\ down # "idle" /\ down' \notin {"drainAgain", "teardown"}
    BY <1>a DEF DownSteps
  <2> QED
    BY <1>a, <1>c, <1>d, <2>1, DownMoves DEF ServiceInv, Shapes
<1>2. (\A a \in Agents : ApplyInv(a))'
  BY <1>a, <1>b DEF ApplyInv, Applying, ApplySteps
<1>3. ~ready
  BY <1>a DEF ServiceInv, ExecInv, DownInv
<1>4. ExecInv'
  BY <1>a, <1>c, <1>3 DEF ExecInv
<1>5. DownInv'
  BY <1>a, <1>b, <1>c DEF ServiceInv, DownInv, Applying, Agents
<1> QED
  BY <1>1, <1>2, <1>4, <1>5 DEF ServiceInv

\* The lock file is given back: nothing is left that it would have to cover.
LEMMA DownReleaseSafe ==
    ASSUME ServiceInv, DownRelease
    PROVE  ServiceInv'
<1> USE DistinctAssumption DEF flags, applying, loops, executor, Agents
<1>a. /\ down = "release" /\ down' = "idle" /\ lifecycle' = Tail(lifecycle)
      /\ dataLock' = IF dataLock = "daemon" THEN "free" ELSE dataLock
      /\ UNCHANGED <<mutation, control, flags, applying, executor, loops>>
  BY DEF DownRelease
<1>b. PICK h \in Starters \cup {StopTask} :
         /\ Holds(lifecycle, h)
         /\ h = StopTask => stopTask = "running" /\ pc' = pc /\ stopTask' = "none"
         /\ h # StopTask => pc[h] = "cleanup" /\ pc' = [pc EXCEPT ![h] = "out"] /\ stopTask' = stopTask
  <2>1. CASE stopTask = "running"
    BY <2>1 DEF DownRelease, ServiceInv, LifecycleInv
  <2>2. CASE stopTask # "running"
    <3>1. PICK a \in Starters : pc[a] = "cleanup"
      BY <1>a, <2>2 DEF ServiceInv, LifecycleInv
    <3>2. Holds(lifecycle, a) /\ ~Holds(lifecycle, StopTask) /\ Head(lifecycle) = a
      BY <3>1, HoldsOne DEF ServiceInv, LifecycleInv, Holds
    <3> QED
      BY <3>1, <3>2 DEF DownRelease, Goto
  <2> QED
    BY <2>1, <2>2
<1>c. /\ pc' \in [Agents -> StartSteps]
      /\ \A a \in Agents : IF a = h THEN pc'[a] = "out" ELSE pc'[a] = pc[a]
      /\ \A a \in Starters : pc'[a] \in {"out", "queued"}
      /\ \A a \in Mutators : pc'[a] = "out"
  <2>1. \A a \in Starters : a # h => pc[a] \in {"out", "queued"}
    BY <1>b, HoldsOne DEF ServiceInv, LifecycleInv
  <2>2. \A a \in Mutators : pc[a] = "out"
    BY <1>a DEF DownRelease, ServiceInv, DownInv, MutationInv, Applying
  <2> QED
    BY <1>b, <2>1, <2>2 DEF ServiceInv, Shapes, StartSteps
<1>d. stopTask' # "running" /\ (stopTask' = "queued" => stopTask = "queued" /\ h # StopTask)
  BY <1>b, HoldsOne DEF ServiceInv, LifecycleInv
<1>e. lifecycle' \in Seq(Starters \cup {StopTask}) /\ Passes(lifecycle, lifecycle', h)
  BY <1>a, <1>b, PassesByReleasing DEF ServiceInv, Shapes
<1>f. \A a \in Agents : ~Applying(a)' /\ ~Starting(a)'
  BY <1>c DEF Applying, Starting, ApplySteps
<1>1. Shapes'
  BY <1>a, <1>b, <1>c, <1>e DEF ServiceInv, Shapes, DownSteps
<1>2. LifecycleInv'
  BY <1>a, <1>b, <1>c, <1>d, <1>e DEF ServiceInv, LifecycleInv, Passes
<1>3. MutationInv'
  BY <1>a, <1>c, <1>f DEF ServiceInv, MutationInv
<1>4. StartInv'
  BY <1>c, <1>f DEF StartInv
<1>5. (\A a \in Agents : ApplyInv(a))'
  <2>1. \A a \in Agents : cand'[a] = None
    BY <1>a, WorksAlone DEF Alone, ServiceInv, ApplyInv
  <2> QED
    BY <1>c, <1>f, <2>1 DEF ApplyInv, Applying, ApplySteps
<1>6. ExecInv'
  BY <1>a DEF ServiceInv, ExecInv
<1>7. DownInv'
  BY <1>a DEF ServiceInv, DownInv
<1>8. OffInv'
  BY <1>a, <1>c, <1>f DEF ServiceInv, DownInv, OffInv
<1>9. UpInv'
  BY <1>a DEF UpInv
<1> QED
  BY <1>1, <1>2, <1>3, <1>4, <1>5, <1>6, <1>7, <1>8, <1>9 DEF ServiceInv

-----------------------------------------------------------------------------
LEMMA ServiceInvInit == Init => ServiceInv
BY DistinctAssumption DEF Init, ServiceInv, Shapes, StartSteps, DownSteps, LifecycleInv, MutationInv, StartInv, ApplyInv,
   ExecInv, DownInv, OffInv, UpInv, Agents, Starting, Applying, ApplySteps, Waits

LEMMA ServiceInvStep == ServiceInv /\ [Next]_vars => ServiceInv'
<1> SUFFICES ASSUME ServiceInv, [Next]_vars
             PROVE  ServiceInv'
  OBVIOUS
<1>1. CASE \E a \in Starters : Start(a) \/ StartStep(a)
  BY <1>1, StartSafe, StartLockSafe, StartControlSafe DEF StartStep
<1>2. CASE \E a \in Mutators : Mutate(a) \/ MutateEnter(a) \/ MutateCancelled(a)
  BY <1>2, MutateSafe, MutateCancelledSafe
<1>3. CASE \E a \in Agents : ApplyStep(a) \/ Cancel(a)
  BY <1>3, ApplyBuildSafe, ApplyRejectSafe, ApplyQuiesceSafe, ApplyDrainedSafe, ApplySwapSafe,
     ApplySwapFailsSafe, ApplyActivateSafe, CancelSafe DEF ApplyStep
<1>4. CASE \E e \in Executors : RefreshStep(e)
  BY <1>4, RefreshSafe
<1>5. CASE (\E s \in Stoppers : Stop(s)) \/ OtherProcess
  BY <1>5, StopSafe
<1>6. CASE StopAnnounce \/ StopEnter
  BY <1>6, StopAnnounceSafe, StopEnterSafe
<1>7. CASE DownStep
  BY <1>7, DownEarlySafe, DownCancelsSafe, DownTeardownSafe, DownReleaseSafe DEF DownStep
<1>8. CASE UNCHANGED vars
  BY <1>8 DEF vars, ServiceInv, Shapes, LifecycleInv, MutationInv, StartInv, ApplyInv, ExecInv, DownInv,
              OffInv, UpInv, Starting, Applying
<1> QED
  BY <1>1, <1>2, <1>3, <1>4, <1>5, <1>6, <1>7, <1>8 DEF Next

\* The invariant that carries the two theorems below: who holds which lock at which step
\* of start(), stop(), _apply_config() and the refresh loops, and what is left of the
\* service at each step of _stop_locked().
THEOREM ServiceInvariant == Spec => []ServiceInv
BY ServiceInvInit, ServiceInvStep, PTL DEF Spec

\* Two executors never run at the same time, and a ready service has a running one: for
\* any number of concurrent starts, stops, reloads and refreshes, however cancelled.
THEOREM OneExecutorAlways == Spec => []OneExecutor
<1>1. ServiceInv => OneExecutor
  BY DEF ServiceInv, Shapes, ExecInv, OneExecutor
<1> QED
  BY <1>1, ServiceInvariant, PTL

\* Whatever works in the data directory does so under the daemon's lock file, and the
\* daemon holds it only while it is up, or while somebody is there to give it back.
THEOREM DataLockCoversWorkAlways == Spec => []DataLockCoversWork
<1>1. ASSUME ServiceInv
      PROVE  DataLockCoversWork
  <2>1. Working => dataLock = "daemon"
    BY <1>1 DEF ServiceInv, OffInv, Working, Starting, Agents, ApplySteps
  <2>2. ASSUME dataLock = "daemon", ~alive
        PROVE  lifecycle # <<>>
    <3>1. CASE stopTask \in {"queued", "running"}
      BY <1>1, <3>1 DEF ServiceInv, LifecycleInv, Waits
    <3>2. CASE \E a \in Starters : pc[a] \notin {"out", "queued"}
      BY <1>1, <3>2 DEF ServiceInv, LifecycleInv, Holds
    <3> QED
      BY <1>1, <2>2, <3>1, <3>2 DEF ServiceInv, UpInv
  <2> QED
    BY <2>1, <2>2 DEF DataLockCoversWork
<1> QED
  BY <1>1, ServiceInvariant, PTL
=============================================================================
