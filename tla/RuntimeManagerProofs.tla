------------------------- MODULE RuntimeManagerProofs -------------------------
(***************************************************************************)
(* EverythingOwned and ClosedLeavesNothing of RuntimeManager, and that it  *)
(* does what the pool assumes of it, for any number of callers.            *)
(***************************************************************************)
EXTENDS RuntimeManager, TLAPS

\* The part of the type invariant that the proof needs
Shapes ==
    /\ pc \in [Starters -> Steps]
    /\ test \in [Starters -> {"none", "alive", "exited"}]
    /\ proc \in [Starters -> {"none", "alive", "exited"}]
    /\ stopTask \in [Starters -> {"none", "term", "kill", "done"}]
    /\ files \subseteq Starters /\ ports \subseteq Starters /\ registered \subseteq Starters

(***************************************************************************)
(* Ownership is handed from the start to the registration to the stop.     *)
(* That nothing falls between needs to be known: where a cancellation can  *)
(* be pending, that only a runtime that was handed out is registered or    *)
(* being stopped (so that a start that fails has no child), and that a     *)
(* stop that is done has left nothing.                                     *)
(***************************************************************************)
Handover(t) ==
    /\ t \in pend => pc[t] \notin {"idle", "queued", "testWait", "ready", "up"}
    /\ t \in registered => pc[t] \in {"up", "joining"}
    /\ stopTask[t] # "none" => pc[t] \in {"stopping", "up", "joining"}
    /\ stopTask[t] = "done" => proc[t] = "none" /\ t \notin files /\ t \notin registered

\* Everything that t has is owned.
Owned(t) ==
    /\ test[t] # "none" => TestOwned(t)
    /\ proc[t] # "none" => RuntimeOwned(t)
    /\ t \in files => pc[t] \in {"testSpawn", "spawn"} \/ TestOwned(t) \/ RuntimeOwned(t)
    /\ t \in ports => pc[t] \in {"write", "testSpawn"} \/ TestOwned(t)

OwnedInv == Shapes /\ \A t \in Starters : Handover(t) /\ Owned(t)

-----------------------------------------------------------------------------
\* The state of u is as it was.
Same(u) ==
    /\ pc'[u] = pc[u] /\ test'[u] = test[u] /\ proc'[u] = proc[u] /\ stopTask'[u] = stopTask[u]
    /\ (u \in pend') = (u \in pend) /\ (u \in registered') = (u \in registered)
    /\ (u \in files') = (u \in files) /\ (u \in ports') = (u \in ports)

\* What start(), stop() or a child of t does leaves the other callers alone; so it
\* is enough to look at t.
LEMMA OneAtATime ==
    ASSUME OwnedInv, NEW t \in Starters, Shapes', Handover(t)', Owned(t)',
           \A u \in Starters \ {t} : Same(u)
    PROVE  OwnedInv'
BY DEF OwnedInv, Same, Handover, Owned, TestOwned, RuntimeOwned

\* A step of the start of t, of its stop or of its children
LocalStep(t) ==
    \/ Call(t, "start") \/ Call(t, "validate")
    \/ Advance(t) \/ StopAdvance(t) \/ Stop(t) \/ Exit(t) \/ Cancel(t)

LEMMA LocalStepSame ==
    ASSUME OwnedInv, NEW t \in Starters, LocalStep(t)
    PROVE  Shapes' /\ \A u \in Starters \ {t} : Same(u)
<1> USE DEF OwnedInv, Shapes, Same, Steps, Goto, Leave
<1>1. CASE Call(t, "start") \/ Call(t, "validate")
  BY <1>1 DEF Call
<1>2. CASE Enter(t) \/ Written(t) \/ TestSpawned(t)
  BY <1>2 DEF Enter, Written, TestSpawned
<1>3. CASE TestEnded(t) \/ TestTimeout(t) \/ TestKill(t) \/ TestReaped(t)
  BY <1>3 DEF TestEnded, TestTimeout, TestKill, TestReaped
<1>4. CASE Spawned(t)
  BY <1>4 DEF Spawned
<1>5. CASE SpawnKill(t) \/ SpawnReaped(t)
  BY <1>5 DEF SpawnKill, SpawnReaped
<1>6. CASE Ready(t) \/ Stopped(t)
  BY <1>6 DEF Ready, Stopped
<1>7. CASE StopAdvance(t)
  BY <1>7 DEF StopAdvance, StopKill, StopReaped
<1>8. CASE Stop(t)
  BY <1>8 DEF Stop
<1>9. CASE Exit(t)
  BY <1>9 DEF Exit
<1>10. CASE Cancel(t)
  BY <1>10 DEF Cancel
<1> QED BY <1>1, <1>2, <1>3, <1>4, <1>5, <1>6, <1>7, <1>8, <1>9, <1>10 DEF LocalStep, Advance

LEMMA LocalStepOwned ==
    ASSUME OwnedInv, NEW t \in Starters, LocalStep(t)
    PROVE  Handover(t)' /\ Owned(t)'
<1> USE DEF OwnedInv, Shapes, Steps, Goto, Leave, Handover, Owned, TestOwned, RuntimeOwned
<1>1. CASE Call(t, "start") \/ Call(t, "validate")
  BY <1>1 DEF Call
<1>2. CASE Enter(t) \/ Written(t) \/ TestSpawned(t)
  BY <1>2 DEF Enter, Written, TestSpawned
<1>3. CASE TestEnded(t) \/ TestTimeout(t) \/ TestKill(t) \/ TestReaped(t)
  BY <1>3 DEF TestEnded, TestTimeout, TestKill, TestReaped
<1>4. CASE Spawned(t)
  BY <1>4 DEF Spawned
<1>5. CASE SpawnKill(t) \/ SpawnReaped(t)
  BY <1>5 DEF SpawnKill, SpawnReaped
<1>6. CASE Ready(t) \/ Stopped(t)
  BY <1>6 DEF Ready, Stopped
<1>7. CASE StopAdvance(t)
  BY <1>7 DEF StopAdvance, StopKill, StopReaped
<1>8. CASE Stop(t)
  BY <1>8 DEF Stop
<1>9. CASE Exit(t)
  BY <1>9 DEF Exit
<1>10. CASE Cancel(t)
  BY <1>10 DEF Cancel
<1> QED BY <1>1, <1>2, <1>3, <1>4, <1>5, <1>6, <1>7, <1>8, <1>9, <1>10 DEF LocalStep, Advance

\* close() only begins the stop of what is registered.
LEMMA CloseStepOwned ==
    ASSUME OwnedInv, (\E c \in Closers : CallClose(c) \/ CloseReturned(c)) \/ CloseAdvance
    PROVE  OwnedInv'
<1> USE DEF OwnedInv, Shapes, Handover, Owned, TestOwned, RuntimeOwned
<1>1. CASE CloseEnters
  BY <1>1 DEF CloseEnters
<1>2. CASE CloseEnds \/ \E c \in Closers : CallClose(c) \/ CloseReturned(c)
  BY <1>2 DEF CloseEnds, CallClose, CloseReturned, starting
<1> QED BY <1>1, <1>2 DEF CloseAdvance

LEMMA OwnedInvariant == Spec => []OwnedInv
<1>1. Init => OwnedInv
  BY DEF Init, OwnedInv, Shapes, Steps, Handover, Owned
<1>2. OwnedInv /\ [Next]_vars => OwnedInv'
  <2> SUFFICES ASSUME OwnedInv, [Next]_vars PROVE OwnedInv'
    OBVIOUS
  <2>1. ASSUME NEW t \in Starters, LocalStep(t) PROVE OwnedInv'
    BY <2>1, LocalStepSame, LocalStepOwned, OneAtATime
  <2>2. CASE (\E c \in Closers : CallClose(c) \/ CloseReturned(c)) \/ CloseAdvance
    BY <2>2, CloseStepOwned
  <2>3. CASE UNCHANGED vars
    BY <2>3 DEF vars, OwnedInv, Shapes, Handover, Owned, TestOwned, RuntimeOwned
  <2> QED BY <2>1, <2>2, <2>3 DEF Next, LocalStep
<1> QED BY <1>1, <1>2, PTL DEF Spec

\* Every child, private config file and reserved port has an owner at every moment,
\* through any number of starts, validations, cancellations, deaths and close().
THEOREM EverythingOwnedCorrect == Spec => []EverythingOwned
<1>1. OwnedInv => EverythingOwned
  BY DEF OwnedInv, EverythingOwned, Handover, Owned
<1> QED BY <1>1, OwnedInvariant, PTL

-----------------------------------------------------------------------------
\* Whoever leaves a queue leaves its head in place, unless it is the head.
LEMMA WithoutKeepsHead ==
    ASSUME NEW S, NEW q \in Seq(S), NEW p
    PROVE  /\ Without(q, p) \in Seq(S)
           /\ \A h : h # p /\ Holds(q, h) => Holds(Without(q, p), h)
<1>1. CASE \E i \in DOMAIN q : q[i] = p
  <2> DEFINE i == CHOOSE i \in DOMAIN q : q[i] = p
  <2>1. i \in 1..Len(q) /\ q[i] = p
    BY <1>1
  <2>2. Without(q, p) = SubSeq(q, 1, i - 1) \o SubSeq(q, i + 1, Len(q))
    BY <1>1 DEF Without
  <2> HIDE DEF i
  <2>3. SubSeq(q, 1, i - 1) \in Seq(S) /\ SubSeq(q, i + 1, Len(q)) \in Seq(S)
    BY <2>1
  <2>4. ASSUME q # <<>>, Head(q) # p
        PROVE  SubSeq(q, 1, i - 1) # <<>> /\ Head(SubSeq(q, 1, i - 1)) = Head(q)
    BY <2>1, <2>4
  <2> QED
    BY <2>2, <2>3, <2>4 DEF Holds
<1>2. CASE ~\E i \in DOMAIN q : q[i] = p
  BY <1>2 DEF Without, Holds
<1> QED
  BY <1>1, <1>2

LEMMA AppendKeepsHead ==
    ASSUME NEW S, NEW q \in Seq(S), NEW p \in S
    PROVE  Append(q, p) \in Seq(S) /\ \A h : Holds(q, h) => Holds(Append(q, p), h)
BY DEF Holds

\* t is inside start() or validate_for(), with the lock.
InStart(t) == pc[t] \notin {"idle", "queued", "up", "joining"}

(***************************************************************************)
(* close() waits for the lock, so it meets no start under way, and with    *)
(* _closed set none begins after it: what was registered when it had the   *)
(* lock is all there is to stop.  A runtime that was handed out stays      *)
(* registered until its stop is done.                                      *)
(***************************************************************************)
CloseInv ==
    /\ lock \in Seq(Starters \cup {Close})
    /\ closer \in [Closers -> {"out", "waiting", "returned"}]
    /\ \A t \in Starters : InStart(t) => Holds(lock, t)
    /\ \A t \in Starters : pc[t] \in {"up", "joining"} => t \in registered \/ stopTask[t] = "done"
    /\ closeTask # "none" => closed
    /\ closeTask = "stopping" => Holds(lock, Close) /\ registered \subseteq snapshot
    /\ closeTask = "done" => registered = {} /\ \A t \in Starters : ~InStart(t)
    /\ \A c \in Closers : closer[c] = "returned" => closeTask = "done"

\* What a step of t does to the lock
LEMMA HeadsStay ==
    ASSUME CloseInv, NEW t \in Starters, LocalStep(t)
    PROVE  /\ lock' \in Seq(Starters \cup {Close})
           /\ \A h : h # t /\ Holds(lock, h) => Holds(lock', h)
           /\ UNCHANGED closing
<1>1. /\ Without(lock, t) \in Seq(Starters \cup {Close})
      /\ \A h : h # t /\ Holds(lock, h) => Holds(Without(lock, t), h)
      /\ Append(lock, t) \in Seq(Starters \cup {Close})
      /\ \A h : Holds(lock, h) => Holds(Append(lock, t), h)
  BY WithoutKeepsHead, AppendKeepsHead DEF CloseInv
<1>2. lock \in Seq(Starters \cup {Close})
  BY DEF CloseInv
<1>3. UNCHANGED closing /\ lock' \in {lock, Without(lock, t), Append(lock, t)}
  BY DEF LocalStep, Call, Advance, Enter, Written, TestSpawned, TestEnded, TestTimeout, TestKill,
         TestReaped, Spawned, SpawnKill, SpawnReaped, Ready, Stopped, StopAdvance, StopKill,
         StopReaped, Stop, Exit, Cancel, Leave
<1> QED
  BY <1>1, <1>2, <1>3

\* It is in start() only with the lock, which it gets only while the manager is open,
\* and only a start that has the lock registers a runtime.
LEMMA StartHasLock ==
    ASSUME OwnedInv, CloseInv, NEW t \in Starters, LocalStep(t)
    PROVE  /\ InStart(t)' => lock' = lock /\ (InStart(t) \/ (Holds(lock, t) /\ ~closed))
           /\ pc'[t] \in {"up", "joining"} => t \in registered' \/ stopTask'[t] = "done"
           /\ t \in registered' => t \in registered \/ InStart(t)
<1>0. pc[t] \in {"up", "joining"} => t \in registered \/ stopTask[t] = "done"
  BY DEF CloseInv
<1> USE <1>0 DEF OwnedInv, Shapes, Steps, Goto, Leave, Handover, InStart
<1>1. CASE Call(t, "start") \/ Call(t, "validate")
  BY <1>1 DEF Call
<1>2. CASE Enter(t) \/ Written(t) \/ TestSpawned(t)
  BY <1>2 DEF Enter, Written, TestSpawned
<1>3. CASE TestEnded(t) \/ TestTimeout(t) \/ TestKill(t) \/ TestReaped(t)
  BY <1>3 DEF TestEnded, TestTimeout, TestKill, TestReaped
<1>4. CASE Spawned(t)
  BY <1>4 DEF Spawned
<1>5. CASE SpawnKill(t) \/ SpawnReaped(t)
  BY <1>5 DEF SpawnKill, SpawnReaped
<1>6. CASE Ready(t) \/ Stopped(t)
  BY <1>6 DEF Ready, Stopped
<1>7. CASE StopAdvance(t)
  BY <1>7 DEF StopAdvance, StopKill, StopReaped
<1>8. CASE Stop(t)
  BY <1>8 DEF Stop
<1>9. CASE Exit(t)
  BY <1>9 DEF Exit
<1>10. CASE Cancel(t)
  BY <1>10 DEF Cancel
<1> QED BY <1>1, <1>2, <1>3, <1>4, <1>5, <1>6, <1>7, <1>8, <1>9, <1>10 DEF LocalStep, Advance

LEMMA LocalStepClose ==
    ASSUME OwnedInv, CloseInv, NEW t \in Starters, LocalStep(t)
    PROVE  CloseInv'
<1>1. \A u \in Starters \ {t} : Same(u)
  BY LocalStepSame
<1>2. /\ lock' \in Seq(Starters \cup {Close})
      /\ \A h : h # t /\ Holds(lock, h) => Holds(lock', h)
      /\ closed' = closed /\ closeTask' = closeTask /\ snapshot' = snapshot /\ closer' = closer
  BY HeadsStay DEF closing
<1>3. /\ InStart(t)' => lock' = lock /\ (InStart(t) \/ (Holds(lock, t) /\ ~closed))
      /\ pc'[t] \in {"up", "joining"} => t \in registered' \/ stopTask'[t] = "done"
      /\ t \in registered' => t \in registered \/ InStart(t)
  BY StartHasLock
<1>4. registered \subseteq Starters /\ registered' \subseteq Starters
  BY LocalStepSame DEF OwnedInv, Shapes
<1>5. \A u \in Starters : InStart(u)' => Holds(lock', u)
  BY <1>1, <1>2, <1>3 DEF CloseInv, InStart, Same
<1>6. \A u \in Starters : pc'[u] \in {"up", "joining"} => u \in registered' \/ stopTask'[u] = "done"
  BY <1>1, <1>3 DEF CloseInv, Same
<1>7. closeTask' # "none" => closed'
  BY <1>2 DEF CloseInv
<1>8. ASSUME closeTask' = "stopping"
      PROVE  Holds(lock', Close) /\ registered' \subseteq snapshot'
  <2>1. Holds(lock, Close) /\ registered \subseteq snapshot /\ Close # t
    BY <1>2, <1>8, CloseAssumption DEF CloseInv
  <2>2. ~InStart(t)
    BY <2>1 DEF CloseInv, Holds
  <2>3. \A u \in Starters : u \in registered' => u \in registered
    BY <1>1, <1>3, <2>2 DEF Same
  <2> QED
    BY <1>2, <1>4, <2>1, <2>3
<1>9. ASSUME closeTask' = "done"
      PROVE  registered' = {} /\ \A u \in Starters : ~InStart(u)'
  <2>1. registered = {} /\ (\A u \in Starters : ~InStart(u)) /\ closed
    BY <1>2, <1>9 DEF CloseInv
  <2>2. \A u \in Starters : ~InStart(u)' /\ u \notin registered'
    BY <1>1, <1>3, <2>1 DEF Same, InStart
  <2> QED
    BY <1>4, <2>2
<1>10. \A c \in Closers : closer'[c] = "returned" => closeTask' = "done"
  BY <1>2 DEF CloseInv
<1> QED
  BY <1>2, <1>5, <1>6, <1>7, <1>8, <1>9, <1>10 DEF CloseInv

LEMMA CloseStepClose ==
    ASSUME OwnedInv, CloseInv,
           (\E c \in Closers : CallClose(c) \/ CloseReturned(c)) \/ CloseAdvance
    PROVE  CloseInv'
<1> USE DEF CloseInv, InStart, starting
<1>1. CASE CloseEnters
  <2>1. \A t \in Starters : ~InStart(t)
    BY <1>1, CloseAssumption DEF CloseEnters, Holds
  <2> QED
    BY <1>1, <2>1 DEF CloseEnters, OwnedInv, Shapes
<1>2. CASE CloseEnds
  <2>1. \A t \in Starters : ~InStart(t)
    BY <1>2, CloseAssumption DEF CloseEnds, Holds
  <2>2. registered = {}
    BY <1>2 DEF CloseEnds
  <2>3. Without(lock, Close) \in Seq(Starters \cup {Close})
    BY WithoutKeepsHead
  <2> QED
    BY <1>2, <2>1, <2>2, <2>3 DEF CloseEnds
<1>3. ASSUME NEW c \in Closers, CallClose(c) PROVE CloseInv'
  <2>1. /\ lock' \in Seq(Starters \cup {Close})
        /\ \A h : Holds(lock, h) => Holds(lock', h)
    BY <1>3, AppendKeepsHead DEF CallClose
  <2>2. /\ closed' /\ registered' = registered /\ snapshot' = snapshot
        /\ pc' = pc /\ stopTask' = stopTask
        /\ closeTask' = IF closeTask = "none" THEN "queued" ELSE closeTask
    BY <1>3 DEF CallClose
  <2>3. /\ closer' \in [Closers -> {"out", "waiting", "returned"}]
        /\ \A d \in Closers : closer'[d] = "returned" => closer[d] = "returned"
    BY <1>3 DEF CallClose
  <2> QED
    BY <2>1, <2>2, <2>3
<1>4. ASSUME NEW c \in Closers, CloseReturned(c) PROVE CloseInv'
  BY <1>4 DEF CloseReturned
<1> QED
  BY <1>1, <1>2, <1>3, <1>4 DEF CloseAdvance

\* Both parts of the invariant hold together.
LEMMA CloseInvariant == Spec => [](OwnedInv /\ CloseInv)
<1>1. Init => CloseInv
  BY DEF Init, CloseInv, InStart
<1>2. OwnedInv /\ CloseInv /\ [Next]_vars => CloseInv'
  <2> SUFFICES ASSUME OwnedInv, CloseInv, [Next]_vars PROVE CloseInv'
    OBVIOUS
  <2>1. ASSUME NEW t \in Starters, LocalStep(t) PROVE CloseInv'
    BY <2>1, LocalStepClose
  <2>2. CASE (\E c \in Closers : CallClose(c) \/ CloseReturned(c)) \/ CloseAdvance
    BY <2>2, CloseStepClose
  <2>3. CASE UNCHANGED vars
    BY <2>3 DEF vars, CloseInv, InStart
  <2> QED BY <2>1, <2>2, <2>3 DEF Next, LocalStep
<1> QED BY <1>1, <1>2, OwnedInvariant, PTL DEF Spec

\* Once a call of close() has returned, there is no child, file, reservation or
\* registration left, however starts, stops and cancellations raced it.
THEOREM ClosedLeavesNothingCorrect == Spec => []ClosedLeavesNothing
<1>1. OwnedInv /\ CloseInv => ClosedLeavesNothing
  <2> SUFFICES ASSUME OwnedInv, CloseInv, closeTask = "done" PROVE Quiet
    BY DEF CloseInv, ClosedLeavesNothing
  <2>1. registered = {} /\ \A t \in Starters : ~InStart(t)
    BY DEF CloseInv
  <2>2. ASSUME NEW t \in Starters PROVE ~TestOwned(t) /\ ~RuntimeOwned(t)
    BY <2>1 DEF InStart, TestOwned, RuntimeOwned, OwnedInv, Handover, CloseInv
  <2>3. \A t \in Starters :
           test[t] = "none" /\ proc[t] = "none" /\ t \notin files /\ t \notin ports
    BY <2>1, <2>2 DEF OwnedInv, Owned, InStart
  <2> QED
    BY <2>1, <2>3 DEF Quiet, OwnedInv, Shapes
<1> QED BY <1>1, CloseInvariant, PTL

-----------------------------------------------------------------------------
\* x is in the queue once, and everybody else is before it.
IsLast(q, x) == q # <<>> /\ q[Len(q)] = x /\ \A i \in DOMAIN q : q[i] = x => i = Len(q)

\* Queue w has everybody of q but p; whoever is last stays so, and nobody else comes.
KeepsOthers(q, w, p) ==
    /\ \A h : h # p /\ (\E i \in DOMAIN q : q[i] = h) => \E j \in DOMAIN w : w[j] = h
    /\ \A x : x # p /\ IsLast(q, x) => IsLast(w, x)
    /\ \A x : (\A i \in DOMAIN q : q[i] # x) => \A j \in DOMAIN w : w[j] # x

\* Whoever leaves a queue leaves the others in it, in their order.
LEMMA WithoutKeepsOthers ==
    ASSUME NEW S, NEW q \in Seq(S), NEW p
    PROVE  KeepsOthers(q, Without(q, p), p)
<1>1. CASE \E i \in DOMAIN q : q[i] = p
  <2> DEFINE i == CHOOSE i \in DOMAIN q : q[i] = p
             r == SubSeq(q, 1, i - 1)
             t == SubSeq(q, i + 1, Len(q))
             w == r \o t
  <2>0. Len(q) \in Nat /\ DOMAIN q = 1..Len(q)
    OBVIOUS
  <2>1. i \in 1..Len(q) /\ q[i] = p
    BY <1>1
  <2>2. Without(q, p) = w
    BY <1>1 DEF Without
  <2> HIDE DEF i
  <2>3. r \in Seq(S) /\ t \in Seq(S) /\ Len(r) = i - 1 /\ Len(t) = Len(q) - i
    BY <2>1
  <2>4. w \in Seq(S) /\ Len(w) = Len(q) - 1 /\ DOMAIN w = 1..(Len(q) - 1)
    <3> HIDE DEF r, t
    <3> QED BY <2>1, <2>3
  <2>5. ASSUME NEW j \in 1..(i - 1) PROVE w[j] = q[j]
    <3>1. r[j] = q[j]
      BY <2>1, <2>3
    <3> HIDE DEF r, t
    <3> QED BY <2>1, <2>3, <3>1
  <2>6. ASSUME NEW j \in i..(Len(q) - 1) PROVE w[j] = q[j + 1]
    <3>1. j - (i - 1) \in 1..Len(t) /\ t[j - (i - 1)] = q[j + 1]
      BY <2>1, <2>3
    <3> HIDE DEF r, t
    <3> QED BY <2>1, <2>3, <3>1
  <2> HIDE DEF w
  <2>7. ASSUME NEW h, h # p, NEW k \in DOMAIN q, q[k] = h
        PROVE  \E j \in DOMAIN w : w[j] = h
    <3>1. CASE k < i
      BY <2>0, <2>1, <2>4, <2>5, <2>7, <3>1
    <3>2. CASE k > i
      <4>1. k - 1 \in i..(Len(q) - 1) /\ (k - 1) + 1 = k
        BY <2>0, <2>1, <2>7, <3>2
      <4>2. k - 1 \in DOMAIN w /\ w[k - 1] = h
        <5>1. w[k - 1] = q[(k - 1) + 1]
          BY <2>6, <4>1
        <5> QED BY <2>0, <2>1, <2>4, <2>7, <4>1, <5>1
      <4> QED BY <4>2
    <3>3. k < i \/ k > i
      BY <2>0, <2>1, <2>7
    <3> QED BY <3>1, <3>2, <3>3
  <2>8. ASSUME NEW x, x # p, IsLast(q, x) PROVE IsLast(w, x)
    <3>1. q[Len(q)] = x /\ \A j \in 1..Len(q) : q[j] = x => j = Len(q)
      BY <2>0, <2>8 DEF IsLast
    <3>2. i # Len(q)
      BY <2>1, <2>8, <3>1
    <3>3. i < Len(q)
      <4> DEFINE n == Len(q)
      <4>1. n \in Nat /\ i \in 1..n /\ i # n
        BY <2>0, <2>1, <3>2
      <4> HIDE DEF n
      <4>2. i < n
        BY <4>1
      <4> QED BY <4>2 DEF n
    <3>4. w[Len(w)] = x
      <4>1. Len(q) - 1 \in i..(Len(q) - 1) /\ (Len(q) - 1) + 1 = Len(q)
        BY <2>0, <2>1, <3>3
      <4>2. w[Len(q) - 1] = q[(Len(q) - 1) + 1]
        BY <2>6, <4>1
      <4> QED BY <2>4, <3>1, <4>1, <4>2
    <3>5. ASSUME NEW j \in DOMAIN w, w[j] = x PROVE j = Len(w)
      <4>1. CASE j < i
        <5>1. j \in 1..(i - 1) /\ j \in 1..Len(q) /\ j # Len(q)
          BY <2>0, <2>1, <2>4, <4>1
        <5>2. q[j] = x
          BY <2>5, <3>5, <5>1
        <5> QED BY <3>1, <5>1, <5>2
      <4>2. CASE j >= i
        <5>1. j \in i..(Len(q) - 1) /\ j + 1 \in 1..Len(q)
          BY <2>0, <2>1, <2>4, <4>2
        <5>2. q[j + 1] = x
          BY <2>6, <3>5, <5>1
        <5>3. j + 1 = Len(q)
          BY <3>1, <5>1, <5>2
        <5> QED BY <2>0, <2>4, <5>1, <5>3
      <4> QED BY <2>0, <2>1, <2>4, <4>1, <4>2
    <3>6. w # <<>>
      BY <2>0, <2>1, <2>4, <3>3
    <3> QED BY <3>4, <3>5, <3>6 DEF IsLast
  <2>9. ASSUME NEW x, \A k \in DOMAIN q : q[k] # x, NEW j \in DOMAIN w PROVE w[j] # x
    <3>1. CASE j < i
      BY <2>0, <2>1, <2>4, <2>5, <2>9, <3>1
    <3>2. CASE j >= i
      <4>1. j \in i..(Len(q) - 1) /\ j + 1 \in DOMAIN q
        BY <2>0, <2>1, <2>4, <3>2
      <4> QED BY <2>6, <2>9, <4>1
    <3> QED BY <2>0, <2>1, <2>4, <3>1, <3>2
  <2> QED BY <2>2, <2>7, <2>8, <2>9 DEF KeepsOthers
<1>2. CASE ~\E i \in DOMAIN q : q[i] = p
  BY <1>2 DEF Without, KeepsOthers
<1> QED BY <1>1, <1>2

\* Queue a is q, and p behind it.
Joins(q, a, p) ==
    /\ \A h : (\E i \in DOMAIN q : q[i] = h) => \E j \in DOMAIN a : a[j] = h
    /\ \E j \in DOMAIN a : a[j] = p
    /\ (\A i \in DOMAIN q : q[i] # p) => IsLast(a, p)
    /\ \A x : x # p /\ (\A i \in DOMAIN q : q[i] # x) => \A j \in DOMAIN a : a[j] # x

LEMMA AppendKeepsOthers ==
    ASSUME NEW S, NEW q \in Seq(S), NEW p \in S
    PROVE  Joins(q, Append(q, p), p)
<1> DEFINE a == Append(q, p)
           n == Len(q)
<1>1. n \in Nat /\ DOMAIN q = 1..n
  OBVIOUS
<1>2. DOMAIN a = 1..(n + 1) /\ Len(a) = n + 1 /\ a[n + 1] = p /\ \A j \in 1..n : a[j] = q[j]
  OBVIOUS
<1> HIDE DEF a, n
<1>3. a # <<>>
  BY <1>1, <1>2
<1>4. \A j \in 1..(n + 1) : j = n + 1 \/ j \in 1..n
  BY <1>1
<1>5. n + 1 \in 1..(n + 1) /\ \A j \in 1..n : j \in 1..(n + 1)
  BY <1>1
<1>6. Joins(q, a, p)
  BY <1>1, <1>2, <1>3, <1>4, <1>5 DEF IsLast, Joins
<1> QED BY <1>6 DEF a

\* Whoever has the lock and is the last in its queue is alone.
LEMMA AloneInQueue ==
    ASSUME NEW S, NEW q \in Seq(S), NEW x, Holds(q, x), IsLast(q, x)
    PROVE  \A i \in DOMAIN q : q[i] = x
<1>1. Len(q) \in Nat /\ DOMAIN q = 1..Len(q)
  OBVIOUS
<1>2. q # <<>> /\ q[1] = x /\ 1 \in DOMAIN q
  BY DEF Holds
<1>3. Len(q) = 1
  BY <1>2 DEF IsLast
<1> QED BY <1>1, <1>2, <1>3

-----------------------------------------------------------------------------
\* Where start() has a child to hand over; a validation never is there.
Launching == {"spawn", "spawnTerm", "spawnKill", "ready", "stopping", "up", "joining"}

(***************************************************************************)
(* What the contract needs in addition: only starts get as far as a child, *)
(* only close() stops a runtime behind the back of its holder, who waits   *)
(* for the lock is in its queue, and close() is behind all of them, since  *)
(* a call that comes after it is refused at once.                          *)
(***************************************************************************)
PlaceInv ==
    /\ kind \in [Starters -> {"start", "validate"}]
    /\ closed \in BOOLEAN
    /\ closed => closeTask # "none"
    /\ \A t \in Starters : pc[t] \in Launching => kind[t] = "start"
    /\ \A t \in Starters : pc[t] = "up" /\ stopTask[t] # "none" => closed
    /\ \A t \in Starters : pc[t] = "queued" => \E i \in DOMAIN lock : lock[i] = t
    /\ closeTask = "none" => \A i \in DOMAIN lock : lock[i] # Close
    /\ closeTask \in {"queued", "stopping"} => IsLast(lock, Close)

ContractInv == OwnedInv /\ CloseInv /\ PlaceInv

\* What a step of t does to its own place
LEMMA LocalStepPlace ==
    ASSUME ContractInv, NEW t \in Starters, LocalStep(t)
    PROVE  /\ kind' \in [Starters -> {"start", "validate"}]
           /\ \A u \in Starters \ {t} : kind'[u] = kind[u]
           /\ pc'[t] \in Launching => kind'[t] = "start"
           /\ pc'[t] = "up" /\ stopTask'[t] # "none" => closed
           /\ \/ lock' = lock /\ (pc'[t] = "queued" => pc[t] = "queued")
              \/ lock' = Without(lock, t) /\ pc'[t] # "queued"
              \/ lock' = Append(lock, t) /\ ~closed
<1>0. /\ kind \in [Starters -> {"start", "validate"}]
      /\ pc[t] \in Launching => kind[t] = "start"
      /\ pc[t] = "up" /\ stopTask[t] # "none" => closed
      /\ stopTask[t] # "none" => pc[t] \in {"stopping", "up", "joining"}
      /\ Shapes
  BY DEF ContractInv, PlaceInv, OwnedInv, Handover
<1> USE <1>0 DEF Shapes, Steps, Goto, Leave, Launching
<1>1. CASE Call(t, "start") \/ Call(t, "validate")
  BY <1>1 DEF Call
<1>2. CASE Enter(t) \/ Written(t) \/ TestSpawned(t)
  BY <1>2 DEF Enter, Written, TestSpawned
<1>3. CASE TestEnded(t) \/ TestTimeout(t) \/ TestKill(t) \/ TestReaped(t)
  BY <1>3 DEF TestEnded, TestTimeout, TestKill, TestReaped
<1>4. CASE Spawned(t)
  BY <1>4 DEF Spawned
<1>5. CASE SpawnKill(t) \/ SpawnReaped(t)
  BY <1>5 DEF SpawnKill, SpawnReaped
<1>6. CASE Ready(t) \/ Stopped(t)
  BY <1>6 DEF Ready, Stopped
<1>7. CASE StopAdvance(t)
  BY <1>7 DEF StopAdvance, StopKill, StopReaped
<1>8. CASE Stop(t)
  BY <1>8 DEF Stop
<1>9. CASE Exit(t)
  BY <1>9 DEF Exit
<1>10. CASE Cancel(t)
  BY <1>10 DEF Cancel
<1> QED BY <1>1, <1>2, <1>3, <1>4, <1>5, <1>6, <1>7, <1>8, <1>9, <1>10 DEF LocalStep, Advance

LEMMA LocalStepPlaces ==
    ASSUME ContractInv, NEW t \in Starters, LocalStep(t)
    PROVE  PlaceInv'
<1>1. \A u \in Starters \ {t} : pc'[u] = pc[u] /\ stopTask'[u] = stopTask[u]
  BY LocalStepSame DEF ContractInv, Same
<1>2. closed' = closed /\ closeTask' = closeTask
  BY HeadsStay DEF ContractInv, closing
<1>3. /\ kind' \in [Starters -> {"start", "validate"}]
      /\ \A u \in Starters \ {t} : kind'[u] = kind[u]
      /\ pc'[t] \in Launching => kind'[t] = "start"
      /\ pc'[t] = "up" /\ stopTask'[t] # "none" => closed
      /\ \/ lock' = lock /\ (pc'[t] = "queued" => pc[t] = "queued")
         \/ lock' = Without(lock, t) /\ pc'[t] # "queued"
         \/ lock' = Append(lock, t) /\ ~closed
  BY LocalStepPlace
<1>4. lock \in Seq(Starters \cup {Close}) /\ t # Close
  BY CloseAssumption DEF ContractInv, CloseInv
<1>5. closeTask # "none" => closed
  BY DEF ContractInv, CloseInv
<1>6. /\ \A u \in Starters : pc'[u] = "queued" => \E i \in DOMAIN lock' : lock'[i] = u
      /\ closeTask = "none" => \A i \in DOMAIN lock' : lock'[i] # Close
      /\ closeTask \in {"queued", "stopping"} => IsLast(lock', Close)
  <2>1. CASE lock' = lock /\ (pc'[t] = "queued" => pc[t] = "queued")
    BY <1>1, <2>1 DEF ContractInv, PlaceInv
  <2>2. CASE lock' = Without(lock, t) /\ pc'[t] # "queued"
    <3>1. KeepsOthers(lock, lock', t)
      BY <1>4, <2>2, WithoutKeepsOthers
    <3> QED BY <1>1, <1>4, <2>2, <3>1 DEF ContractInv, PlaceInv, KeepsOthers
  <2>3. CASE lock' = Append(lock, t) /\ ~closed
    <3>1. Joins(lock, lock', t)
      BY <1>4, <2>3, AppendKeepsOthers
    <3> QED BY <1>1, <1>4, <1>5, <2>3, <3>1 DEF ContractInv, PlaceInv, Joins
  <2> QED BY <1>3, <2>1, <2>2, <2>3
<1> QED BY <1>1, <1>2, <1>3, <1>6 DEF ContractInv, PlaceInv

LEMMA CloseStepPlaces ==
    ASSUME ContractInv, (\E c \in Closers : CallClose(c) \/ CloseReturned(c)) \/ CloseAdvance
    PROVE  PlaceInv'
<1>1. CASE CloseEnters
  BY <1>1 DEF CloseEnters, ContractInv, PlaceInv, CloseInv
<1>2. CASE CloseEnds
  <2>1. Holds(lock, Close) /\ IsLast(lock, Close) /\ lock \in Seq(Starters \cup {Close})
    BY <1>2 DEF CloseEnds, ContractInv, PlaceInv, CloseInv
  <2>2. \A t \in Starters : pc[t] # "queued"
    BY <2>1, AloneInQueue, CloseAssumption DEF ContractInv, PlaceInv
  <2> QED BY <1>2, <2>2 DEF CloseEnds, starting, ContractInv, PlaceInv
<1>3. ASSUME NEW c \in Closers, CallClose(c) PROVE PlaceInv'
  <2>1. lock \in Seq(Starters \cup {Close})
    BY DEF ContractInv, CloseInv
  <2>2. CASE closeTask = "none"
    <3>1. /\ lock' = Append(lock, Close) /\ closeTask' = "queued" /\ closed' = TRUE
          /\ pc' = pc /\ kind' = kind /\ stopTask' = stopTask
      BY <1>3, <2>2 DEF CallClose, starting
    <3>2. /\ \A h : (\E i \in DOMAIN lock : lock[i] = h) => \E j \in DOMAIN lock' : lock'[j] = h
          /\ IsLast(lock', Close)
      <4>1. Joins(lock, lock', Close)
        BY <2>1, <3>1, AppendKeepsOthers
      <4>2. \A i \in DOMAIN lock : lock[i] # Close
        BY <2>2 DEF ContractInv, PlaceInv
      <4> QED BY <4>1, <4>2 DEF Joins
    <3> QED BY <3>1, <3>2 DEF ContractInv, PlaceInv
  <2>3. CASE closeTask # "none"
    <3>1. /\ lock' = lock /\ closeTask' = closeTask /\ closed' = TRUE
          /\ pc' = pc /\ kind' = kind /\ stopTask' = stopTask
      BY <1>3, <2>3 DEF CallClose, starting
    <3> QED BY <2>3, <3>1 DEF ContractInv, PlaceInv
  <2> QED BY <2>2, <2>3
<1>4. ASSUME NEW c \in Closers, CloseReturned(c) PROVE PlaceInv'
  BY <1>4 DEF CloseReturned, starting, ContractInv, PlaceInv
<1> QED BY <1>1, <1>2, <1>3, <1>4 DEF CloseAdvance

LEMMA ContractInvariant == Spec => []ContractInv
<1>1. Init => PlaceInv
  <2>1. Init => \A i \in DOMAIN lock : lock[i] # Close
    BY DEF Init
  <2> SUFFICES ASSUME Init PROVE PlaceInv
    OBVIOUS
  <2>2. /\ kind \in [Starters -> {"start", "validate"}] /\ closed = FALSE
        /\ closeTask = "none" /\ \A t \in Starters : pc[t] = "idle"
    BY DEF Init
  <2> QED BY <2>1, <2>2 DEF PlaceInv, Launching
<1>2. OwnedInv /\ CloseInv /\ PlaceInv /\ [Next]_vars => PlaceInv'
  <2> SUFFICES ASSUME ContractInv, [Next]_vars PROVE PlaceInv'
    BY DEF ContractInv
  <2>1. ASSUME NEW t \in Starters, LocalStep(t) PROVE PlaceInv'
    BY <2>1, LocalStepPlaces
  <2>2. CASE (\E c \in Closers : CallClose(c) \/ CloseReturned(c)) \/ CloseAdvance
    BY <2>2, CloseStepPlaces
  <2>3. CASE UNCHANGED vars
    BY <2>3 DEF vars, ContractInv, PlaceInv
  <2> QED BY <2>1, <2>2, <2>3 DEF Next, LocalStep
<1>3. ContractInv <=> OwnedInv /\ CloseInv /\ PlaceInv
  BY DEF ContractInv
<1> QED BY <1>1, <1>2, <1>3, CloseInvariant, PTL DEF Spec

-----------------------------------------------------------------------------
\* What a caller may go through, as the contract sees it
Same1(t) == CallOf(t)' = CallOf(t) /\ ProcessOf(t)' = ProcessOf(t)
Moves(t, from, to) == CallOf(t) = from /\ CallOf(t)' = to

CallerStep(t) ==
    \/ Same1(t)
    \/ ManagerIs = "open" /\ Moves(t, "out", "starting") /\ ProcessOf(t)' = ProcessOf(t)
    \/ ManagerIs = "open" /\ Moves(t, "starting", "holding") /\ ProcessOf(t)' = "alive"
    \/ Moves(t, "starting", "out") /\ ProcessOf(t)' = ProcessOf(t)
    \/ ProcessOf(t) = "alive" /\ ProcessOf(t)' = "exited" /\ CallOf(t)' = CallOf(t)
    \/ Moves(t, "holding", "stopping") /\ ProcessOf(t)' = ProcessOf(t)
    \/ /\ CallOf(t) = "stopping" \/ ManagerIs = "closing"
       /\ ProcessOf(t) = "exited" /\ ProcessOf(t)' = "none" /\ CallOf(t)' = CallOf(t)
    \/ ProcessOf(t) = "none" /\ Moves(t, "stopping", "out") /\ ProcessOf(t)' = ProcessOf(t)

\* If one caller goes through that and nothing else changes, it is a step of the contract.
LEMMA CallerStepIsStep ==
    ASSUME NEW t \in Starters, CallerStep(t), ManagerIs' = ManagerIs,
           \A u \in Starters \ {t} : Same1(u)
    PROVE  [Contract!Next]_(Contract!cvars)
<1> DEFINE call == [u \in Starters |-> CallOf(u)]
           process == [u \in Starters |-> ProcessOf(u)]
<1>1. /\ call' = [call EXCEPT ![t] = CallOf(t)']
      /\ process' = [process EXCEPT ![t] = ProcessOf(t)']
      /\ call[t] = CallOf(t) /\ process[t] = ProcessOf(t)
  BY DEF Same1
<1>2. /\ CallOf(t)' = CallOf(t) => call' = call
      /\ ProcessOf(t)' = ProcessOf(t) => process' = process
  BY <1>1
<1> HIDE DEF call, process
<1> QED
  BY <1>1, <1>2 DEF CallerStep, Same1, Moves, call, process, Contract!Next, Contract!cvars,
     Contract!Start, Contract!Succeed, Contract!Fail, Contract!Die, Contract!Stop, Contract!Reap,
     Contract!Stopped, Contract!Move

\* What the invariant says of one caller
LEMMA CallerFacts ==
    ASSUME ContractInv, NEW t \in Starters
    PROVE  /\ Shapes /\ kind \in [Starters -> {"start", "validate"}]
           /\ pc[t] \in Launching => kind[t] = "start"
           /\ closed => closeTask # "none"
           /\ closeTask # "none" => closed
           /\ proc[t] # "none" => pc[t] \in Launching
           /\ pc[t] = "spawn" => proc[t] = "none"
           /\ pc[t] = "up" /\ stopTask[t] # "none" => closed
           /\ stopTask[t] # "none" => pc[t] \in {"stopping", "up", "joining"}
           /\ stopTask[t] = "done" => proc[t] = "none"
           /\ closeTask = "done" /\ pc[t] = "up" => proc[t] = "none"
BY DEF ContractInv, PlaceInv, CloseInv, OwnedInv, Handover, Owned, RuntimeOwned, Launching

\* Every step of a caller is one of those.
LEMMA LocalStepCaller ==
    ASSUME ContractInv, NEW t \in Starters, LocalStep(t)
    PROVE  CallerStep(t)
<1>0. /\ Shapes /\ kind \in [Starters -> {"start", "validate"}]
      /\ pc[t] \in Launching => kind[t] = "start"
      /\ closed => closeTask # "none"
      /\ closeTask # "none" => closed
      /\ proc[t] # "none" => pc[t] \in Launching
      /\ pc[t] = "spawn" => proc[t] = "none"
      /\ pc[t] = "up" /\ stopTask[t] # "none" => closed
      /\ stopTask[t] # "none" => pc[t] \in {"stopping", "up", "joining"}
      /\ stopTask[t] = "done" => proc[t] = "none"
      /\ closeTask = "done" /\ pc[t] = "up" => proc[t] = "none"
  BY CallerFacts
<1> USE <1>0 DEF Shapes, Steps, Goto, Leave, Launching, CallerStep, Same1, Moves, CallOf,
                 ProcessOf, ManagerIs
<1>1. CASE Call(t, "start") \/ Call(t, "validate")
  BY <1>1 DEF Call
<1>2. CASE Enter(t) \/ Written(t) \/ TestSpawned(t)
  BY <1>2 DEF Enter, Written, TestSpawned
<1>3. CASE TestEnded(t) \/ TestTimeout(t) \/ TestKill(t) \/ TestReaped(t)
  BY <1>3 DEF TestEnded, TestTimeout, TestKill, TestReaped
<1>4. CASE Spawned(t)
  BY <1>4 DEF Spawned
<1>5. CASE SpawnKill(t) \/ SpawnReaped(t)
  BY <1>5 DEF SpawnKill, SpawnReaped
<1>6. CASE Ready(t) \/ Stopped(t)
  BY <1>6 DEF Ready, Stopped
<1>7. CASE StopAdvance(t)
  BY <1>7 DEF StopAdvance, StopKill, StopReaped
<1>8. CASE Stop(t)
  BY <1>8 DEF Stop
<1>9. CASE Exit(t)
  BY <1>9 DEF Exit
<1>10. CASE Cancel(t)
  BY <1>10 DEF Cancel
<1> QED BY <1>1, <1>2, <1>3, <1>4, <1>5, <1>6, <1>7, <1>8, <1>9, <1>10 DEF LocalStep, Advance

LEMMA LocalStepContract ==
    ASSUME ContractInv, NEW t \in Starters, LocalStep(t)
    PROVE  [Contract!Next]_(Contract!cvars)
<1>1. CallerStep(t)
  BY LocalStepCaller
<1>2. ManagerIs' = ManagerIs
  BY HeadsStay DEF ContractInv, closing, ManagerIs
<1>3. ASSUME NEW u \in Starters \ {t} PROVE Same1(u)
  <2>1. pc'[u] = pc[u] /\ proc'[u] = proc[u]
    BY LocalStepSame DEF ContractInv, Same
  <2>2. kind'[u] = kind[u]
    BY LocalStepPlace
  <2> QED BY <2>1, <2>2 DEF Same1, CallOf, ProcessOf
<1> QED BY <1>1, <1>2, <1>3, CallerStepIsStep

\* The steps of close()
LEMMA CloseStepContract ==
    ASSUME ContractInv, (\E c \in Closers : CallClose(c) \/ CloseReturned(c)) \/ CloseAdvance
    PROVE  [Contract!Next]_(Contract!cvars)
<1> DEFINE call == [u \in Starters |-> CallOf(u)]
           process == [u \in Starters |-> ProcessOf(u)]
<1>1. pc' = pc /\ proc' = proc /\ kind' = kind
  BY DEF CallClose, CloseReturned, CloseAdvance, CloseEnters, CloseEnds, starting
<1>2. call' = call /\ process' = process
  BY <1>1 DEF CallOf, ProcessOf
<1>3. /\ closed => closeTask # "none"
      /\ closeTask # "none" => closed
      /\ closed \in BOOLEAN
  BY DEF ContractInv, PlaceInv, CloseInv
<1>4. CASE ManagerIs' = ManagerIs
  BY <1>2, <1>4 DEF Contract!cvars
<1>5. CASE CloseEnds
  <2>1. closeTask = "stopping" /\ closeTask' = "done" /\ snapshot \cap registered = {}
    BY <1>5 DEF CloseEnds
  <2>2. Holds(lock, Close) /\ IsLast(lock, Close) /\ lock \in Seq(Starters \cup {Close})
    BY <2>1 DEF ContractInv, PlaceInv, CloseInv
  <2>3. registered = {}
    BY <2>1 DEF ContractInv, CloseInv
  <2>4. ASSUME NEW t \in Starters
        PROVE  pc[t] \in {"idle", "up", "joining"} /\ proc[t] = "none"
    <3>1. ~InStart(t)
      BY <2>2, CloseAssumption DEF ContractInv, CloseInv, Holds
    <3>2. pc[t] # "queued"
      BY <2>2, AloneInQueue, CloseAssumption DEF ContractInv, PlaceInv
    <3>3. pc[t] \in {"up", "joining"} => stopTask[t] = "done"
      BY <2>3 DEF ContractInv, CloseInv
    <3> QED BY <3>1, <3>2, <3>3, CallerFacts DEF InStart, Launching
  <2>5. \A t \in Starters : process[t] = "none" /\ call[t] # "starting"
    BY <2>4 DEF CallOf, ProcessOf
  <2>6. ManagerIs = "closing" /\ ManagerIs' = "closed"
    BY <1>3, <2>1 DEF ManagerIs
  <2> HIDE DEF call, process
  <2> QED BY <1>2, <2>5, <2>6 DEF call, process, Contract!Next, Contract!EndClose
<1>6. ASSUME NEW c \in Closers, CallClose(c), ManagerIs' # ManagerIs
      PROVE  [Contract!Next]_(Contract!cvars)
  <2>1. ManagerIs = "open" /\ ManagerIs' = "closing"
    BY <1>3, <1>6 DEF CallClose, ManagerIs
  <2> QED BY <1>2, <2>1 DEF Contract!Next, Contract!BeginClose
<1>7. ASSUME NEW c \in Closers, CloseReturned(c) PROVE ManagerIs' = ManagerIs
  BY <1>7 DEF CloseReturned, ManagerIs
<1>8. CloseEnters => ManagerIs' = ManagerIs
  BY DEF CloseEnters, ManagerIs
<1> QED BY <1>4, <1>5, <1>6, <1>7, <1>8 DEF CloseAdvance

\* The manager does what the pool assumes of it, for any number of callers: a start
\* gives its caller a running process or leaves none behind, the process stays until
\* its holder stops it or the manager is closed, no start succeeds once close() was
\* called, and close() ends when no start is under way and no process is left.
THEOREM ManagerRefinement == Spec => RefinesContract
<1>1. Init => Contract!Init
  BY DEF Init, Contract!Init, CallOf, ProcessOf, ManagerIs
<1>2. ContractInv /\ [Next]_vars => [Contract!Next]_(Contract!cvars)
  <2> SUFFICES ASSUME ContractInv, [Next]_vars PROVE [Contract!Next]_(Contract!cvars)
    OBVIOUS
  <2>1. ASSUME NEW t \in Starters, LocalStep(t) PROVE [Contract!Next]_(Contract!cvars)
    BY <2>1, LocalStepContract
  <2>2. CASE (\E c \in Closers : CallClose(c) \/ CloseReturned(c)) \/ CloseAdvance
    BY <2>2, CloseStepContract
  <2>3. CASE UNCHANGED vars
    BY <2>3 DEF vars, Contract!cvars, CallOf, ProcessOf, ManagerIs
  <2> QED BY <2>1, <2>2, <2>3 DEF Next, LocalStep
<1> QED BY <1>1, <1>2, ContractInvariant, PTL DEF Spec, RefinesContract, Contract!Spec
=============================================================================
