---------------------------- MODULE CheckerProofs ----------------------------
(***************************************************************************)
(* The safety of Checker, for any number of checks, targets, permits and   *)
(* restarts and any throughput interval.                                   *)
(***************************************************************************)
EXTENDS Checker, FiniteSetTheorems, SequenceTheorems, TLAPS

Active == {"request", "spawn", "match", "reap"}

\* Where target k may be, and what is known of it there.  The last conjunct is what
\* the verdict rests on: in a cycle that goes on, answered is what the health
\* targets have found.
PlaceAt(k) ==
    /\ task[k] = "waitT" => k \in Throughput
    /\ task[k] \in {"spawn", "match", "reap"} => Kind[k] = "regex"
    /\ child[k] # "none" => task[k] \in {"match", "reap"}
    /\ scheduler = "stopped" => /\ task[k] \in {"off", "spawn", "reap", "done"}
                                /\ task[k] = "spawn" => k \in late
    /\ scheduler = "running" /\ task[k] # "off" => cycle[Of[k]] # "idle"
    /\ k \in Egress /\ cycle[Of[k]] = "targets" => task[k] = "off"
    /\ outcome[k] \in {"cached", "unknown"} => k \in Throughput
    /\ k \in Health /\ scheduler = "running" /\ cycle[Of[k]] # "idle" =>
          (k \in answered <=> task[k] = "done" /\ outcome[k] = "success")
PlaceInv == \A k \in Targets : PlaceAt(k)

\* Permits are conserved.
PermitInv ==
    /\ permits + Cardinality(Holding) = MaxParallel
    /\ tpermits + Cardinality(HoldingThroughput) = MaxThroughput

\* A target waits in a queue once, and only where it waits.
Distinct(q) == \A i, j \in 1..Len(q) : q[i] = q[j] => i = j
Waits(q, place) == \A i \in 1..Len(q) : task[q[i]] = place
QueueInv ==
    /\ Distinct(queue) /\ Waits(queue, "waitG")
    /\ Distinct(tqueue) /\ Waits(tqueue, "waitT")

\* The strays of a checker are those it had permits for; the checker that runs, or
\* that is being stopped, has none.
StraysOf(n) == {o \in strays : o.checker = n}
StrayInv ==
    /\ IsFiniteSet(strays)
    /\ \A o \in strays : o.checker <= restarts /\ (scheduler = "stopped" => o.checker < restarts)
    /\ \A n \in 1..restarts : Cardinality(StraysOf(n)) <= MaxParallel

\* A cycle that goes on has returned nothing, and what the last one has returned
\* rests on its answers.
VerdictInv ==
    /\ answered \subseteq Health
    /\ \A c \in Checks : cycle[c] # "idle" => verdict[c] = "none"
    /\ VerdictSound

CheckerInv == TypeOK /\ PlaceInv /\ PermitInv /\ QueueInv /\ StrayInv /\ VerdictInv

-----------------------------------------------------------------------------
LEMMA SetToSeqProperties ==
    ASSUME NEW S, IsFiniteSet(S)
    PROVE  SetToSeq(S) \in Seq(S) /\ Distinct(SetToSeq(S))
<1> DEFINE n == Cardinality(S)
<1>1. n \in Nat /\ ExistsBijection(1..n, S)
  BY FS_CardinalityType
<1>2. \E f \in [1..n -> S] : IsInjective(f)
  BY <1>1 DEF ExistsBijection, Bijection, Injection
<1>3. SetToSeq(S) \in [1..n -> S] /\ IsInjective(SetToSeq(S))
  <2> DEFINE P(f) == f \in [1..n -> S] /\ IsInjective(f)
  <2>1. P(CHOOSE f \in [1..n -> S] : IsInjective(f))
    BY <1>2, Zenon
  <2> QED BY <2>1 DEF SetToSeq
<1>4. SetToSeq(S) \in Seq(S) /\ DOMAIN SetToSeq(S) = 1..n
  BY <1>1, <1>3, SeqDef
<1>5. 1..Len(SetToSeq(S)) = DOMAIN SetToSeq(S)
  BY <1>4, LenProperties
<1> QED BY <1>3, <1>4, <1>5 DEF IsInjective, Distinct

\* Targets of which none waits in q yet join it.
LEMMA Joined ==
    ASSUME NEW T, NEW q \in Seq(T), NEW r \in Seq(T), Distinct(q), Distinct(r),
           \A i \in 1..Len(q), j \in 1..Len(r) : q[i] # r[j]
    PROVE  q \o r \in Seq(T) /\ Distinct(q \o r)
<1>1. /\ q \o r \in Seq(T) /\ Len(q \o r) = Len(q) + Len(r)
      /\ \A i \in 1..(Len(q) + Len(r)) :
            (q \o r)[i] = IF i <= Len(q) THEN q[i] ELSE r[i - Len(q)]
  BY ConcatProperties
<1>2. Len(q) \in Nat /\ Len(r) \in Nat
  BY LenProperties
<1>3. ASSUME NEW i \in 1..Len(q \o r), NEW j \in 1..Len(q \o r), (q \o r)[i] = (q \o r)[j]
      PROVE  i = j
  <2>1. CASE i <= Len(q) /\ j <= Len(q)
    BY <1>1, <1>2, <1>3, <2>1 DEF Distinct
  <2>2. CASE i > Len(q) /\ j > Len(q)
    <3>1. i - Len(q) \in 1..Len(r) /\ j - Len(q) \in 1..Len(r)
      BY <1>1, <1>2, <2>2
    <3>2. r[i - Len(q)] = r[j - Len(q)]
      BY <1>1, <1>2, <1>3, <2>2
    <3>3. i - Len(q) = j - Len(q)
      BY <3>1, <3>2 DEF Distinct
    <3> QED BY <3>3, <1>2
  <2>3. CASE i <= Len(q) /\ j > Len(q)
    BY <1>1, <1>2, <1>3, <2>3
  <2>4. CASE i > Len(q) /\ j <= Len(q)
    BY <1>1, <1>2, <1>3, <2>4
  <2> QED BY <1>1, <1>2, <2>1, <2>2, <2>3, <2>4
<1> QED BY <1>1, <1>3 DEF Distinct

\* Where the members of a concatenation come from.
LEMMA JoinedPlaces ==
    ASSUME NEW T, NEW q \in Seq(T), NEW r \in Seq(T), NEW i \in 1..Len(q \o r)
    PROVE  \/ \E j \in 1..Len(q) : (q \o r)[i] = q[j]
           \/ \E j \in 1..Len(r) : (q \o r)[i] = r[j]
<1>1. /\ Len(q \o r) = Len(q) + Len(r)
      /\ (q \o r)[i] = IF i <= Len(q) THEN q[i] ELSE r[i - Len(q)]
  BY ConcatProperties
<1>2. Len(q) \in Nat /\ Len(r) \in Nat
  BY LenProperties
<1>3. CASE i <= Len(q)
  BY <1>1, <1>2, <1>3
<1>4. CASE i > Len(q)
  <2>1. i - Len(q) \in 1..Len(r)
    BY <1>1, <1>2, <1>4
  <2> QED BY <1>1, <1>2, <1>4, <2>1
<1> QED BY <1>1, <1>2, <1>3, <1>4

\* The first waiter leaves its queue.
LEMMA Served ==
    ASSUME NEW T, NEW q \in Seq(T), q # <<>>, Distinct(q)
    PROVE  /\ Tail(q) \in Seq(T) /\ Distinct(Tail(q)) /\ Head(q) \in T
           /\ 1 \in 1..Len(q) /\ Head(q) = q[1]
           /\ \A i \in 1..Len(Tail(q)) :
                 i + 1 \in 1..Len(q) /\ Tail(q)[i] = q[i + 1] /\ Tail(q)[i] # Head(q)
<1>1. /\ Head(q) \in T /\ Tail(q) \in Seq(T) /\ Len(Tail(q)) = Len(q) - 1
      /\ \A i \in 1..Len(Tail(q)) : Tail(q)[i] = q[i + 1]
  BY HeadTailProperties
<1>2. Len(q) \in Nat /\ Len(q) # 0
  BY EmptySeq, LenProperties
<1>3. Head(q) = q[1]
  BY SMT
<1>4. \A i \in 1..Len(Tail(q)) : i + 1 \in 1..Len(q)
  BY <1>1, <1>2
<1>5. \A i \in 1..Len(Tail(q)) : q[i + 1] # q[1]
  BY <1>2, <1>4 DEF Distinct
<1>6. ASSUME NEW i \in 1..Len(Tail(q)), NEW j \in 1..Len(Tail(q)), Tail(q)[i] = Tail(q)[j]
      PROVE  i = j
  <2>1. q[i + 1] = q[j + 1]
    BY <1>1, <1>6
  <2>2. i + 1 = j + 1
    BY <1>4, <2>1 DEF Distinct
  <2> QED BY <2>2
<1> QED BY <1>1, <1>2, <1>3, <1>4, <1>5, <1>6 DEF Distinct

-----------------------------------------------------------------------------
LEMMA FiniteParts ==
    /\ IsFiniteSet(Holding) /\ IsFiniteSet(HoldingThroughput)
    /\ Cardinality(Holding) \in Nat /\ Cardinality(HoldingThroughput) \in Nat
    /\ Cardinality(Holding') \in Nat /\ Cardinality(HoldingThroughput') \in Nat
<1>1. /\ Holding \in SUBSET Targets /\ HoldingThroughput \in SUBSET Targets
      /\ Holding' \in SUBSET Targets /\ HoldingThroughput' \in SUBSET Targets
  BY DEF Holding, HoldingThroughput, Throughput
<1>2. /\ IsFiniteSet(Holding) /\ IsFiniteSet(HoldingThroughput)
      /\ IsFiniteSet(Holding') /\ IsFiniteSet(HoldingThroughput')
  BY <1>1, FS_Subset, ConfigAssumption
<1> QED BY <1>2, FS_CardinalityType

\* What is true of strays and of verdicts stays so while neither is touched.
LEMMA StraysUndisturbed ==
    ASSUME StrayInv, UNCHANGED stop
    PROVE  StrayInv'
BY DEF StrayInv, StraysOf, stop

LEMMA VerdictsUndisturbed ==
    ASSUME VerdictInv, UNCHANGED <<cycle, answered, verdict>>
    PROVE  VerdictInv'
BY DEF VerdictInv, VerdictSound

\* A target that does not wait moves on: no queue is disturbed.
LEMMA QueuesUndisturbed ==
    ASSUME TypeOK, QueueInv, UNCHANGED <<queue, tqueue>>, NEW k \in Targets, NEW s,
           task[k] \in Active, task' = [task EXCEPT ![k] = s]
    PROVE  QueueInv'
<1> USE DEF TypeOK, QueueInv
<1>1. Waits(queue, "waitG")'
  <2> SUFFICES ASSUME NEW i \in 1..Len(queue)
               PROVE  task'[queue[i]] = "waitG"
    BY DEF Waits
  <2>1. queue[i] \in Targets /\ task[queue[i]] = "waitG"
    BY ElementOfSeq DEF Waits
  <2> QED BY <2>1 DEF Active
<1>2. Waits(tqueue, "waitT")'
  <2> SUFFICES ASSUME NEW i \in 1..Len(tqueue)
               PROVE  task'[tqueue[i]] = "waitT"
    BY DEF Waits
  <2>1. tqueue[i] \in Targets /\ task[tqueue[i]] = "waitT"
    BY ElementOfSeq DEF Waits, Throughput
  <2> QED BY <2>1 DEF Active
<1> QED BY <1>1, <1>2 DEF Distinct

\* A target that holds a permit returns: Finish(), in every action that ends in it.
LEMMA FinishSafe ==
    ASSUME CheckerInv, NEW k \in Targets,
           NEW result \in {"none", "success", "failure", "error"},
           task[k] \in Active, result = "success" => scheduler = "running",
           child' = [child EXCEPT ![k] = "none"], Finish(k, result),
           UNCHANGED <<cycle, verdict, clock, age, left, stop>>
    PROVE  CheckerInv'
<1> USE DEF CheckerInv, Active
<1>a. /\ task \in [Targets -> {"off", "waitT", "waitG", "request", "spawn", "match", "reap", "done"}]
      /\ task' = [task EXCEPT ![k] = "done"]
  BY DEF TypeOK, Finish
<1>b. /\ outcome' = [outcome EXCEPT ![k] = result]
      /\ answered' = IF result = "success" /\ k \in Health THEN answered \cup {k} ELSE answered
      /\ UNCHANGED <<cycle, scheduler, verdict, queue, tqueue>> /\ late' = late \ {k}
  BY DEF Finish, stop
<1>1. PermitInv'
  <2>1. Holding' = Holding \ {k} /\ k \in Holding
    BY <1>a DEF Holding
  <2>2. /\ HoldingThroughput' = HoldingThroughput \ {k}
        /\ k \in HoldingThroughput <=> k \in Throughput
    BY <1>a DEF HoldingThroughput, PlaceInv, PlaceAt, Throughput
  <2>3. Cardinality(Holding') = Cardinality(Holding) - 1
    BY <2>1, FS_RemoveElement, FiniteParts
  <2>4. Cardinality(HoldingThroughput') =
           IF k \in Throughput THEN Cardinality(HoldingThroughput) - 1
           ELSE Cardinality(HoldingThroughput)
    BY <2>2, FS_RemoveElement, FiniteParts
  <2>5. permits' = permits + 1 /\ tpermits' = (IF k \in Throughput THEN tpermits + 1 ELSE tpermits)
    BY DEF Finish
  <2>6. permits \in Int /\ tpermits \in Int /\ MaxParallel \in Int /\ MaxThroughput \in Int
    BY ConfigAssumption DEF TypeOK
  <2> QED BY <2>3, <2>4, <2>5, <2>6, FiniteParts, SMT DEF PermitInv
<1>2. TypeOK'
  <2>1. permits' \in 0..MaxParallel /\ tpermits' \in 0..MaxThroughput
    <3>1. Cardinality(Holding') \in Nat /\ Cardinality(HoldingThroughput') \in Nat
      BY FiniteParts
    <3> QED BY <3>1, <1>1, ConfigAssumption DEF PermitInv, TypeOK, Finish
  <2>2. fresh' \in [Throughput -> Ages]
    BY ConfigAssumption DEF TypeOK, Finish, Ages
  <2>3. answered' \in SUBSET Targets
    BY <1>b DEF TypeOK
  <2> QED BY <1>a, <1>b, <2>1, <2>2, <2>3 DEF TypeOK, Finish, stop
<1>3. PlaceInv'
  <2> SUFFICES ASSUME NEW j \in Targets
               PROVE  PlaceAt(j)'
    BY DEF PlaceInv
  <2>1. PlaceAt(j)
    BY DEF PlaceInv
  <2>2. CASE j # k
    BY <1>a, <1>b, <2>1, <2>2 DEF PlaceAt, TypeOK
  <2>3. CASE j = k
    <3>1. cycle[Of[k]] = "targets" => k \notin Egress
      BY <2>1, <2>3 DEF PlaceAt
    <3>2. k \in answered => scheduler = "stopped" \/ cycle[Of[k]] = "idle" \/ k \notin Health
      BY <2>1, <2>3 DEF PlaceAt, TypeOK
    <3>3. scheduler = "running" => cycle[Of[k]] # "idle"
      BY <2>1, <2>3 DEF PlaceAt
    <3>4. task'[k] = "done" /\ outcome'[k] = result /\ child'[k] = "none"
      BY <1>a, <1>b DEF TypeOK
    <3> QED BY <1>b, <2>1, <2>3, <3>1, <3>2, <3>3, <3>4 DEF PlaceAt
  <2> QED BY <2>2, <2>3
<1>4. QueueInv'
  <2> HIDE DEF Active
  <2> QED BY <1>a, <1>b, QueuesUndisturbed
<1>5. StrayInv'
  BY StraysUndisturbed
<1>6. VerdictInv'
  <2>1. CASE result = "success" /\ k \in Health
    <3>1. cycle[Of[k]] # "idle"
      BY <2>1 DEF PlaceInv, PlaceAt
    <3>2. ASSUME NEW c \in Checks, cycle[c] = "idle"
          PROVE  answered' \cap TargetsOf(c) = answered \cap TargetsOf(c)
      BY <1>b, <2>1, <3>1, <3>2 DEF TargetsOf
    <3> QED BY <1>b, <2>1, <3>2 DEF VerdictInv, VerdictSound, TargetsOf
  <2>2. CASE ~(result = "success" /\ k \in Health)
    BY <1>b, <2>2, VerdictsUndisturbed
  <2> QED BY <2>1, <2>2
<1> QED BY <1>1, <1>2, <1>3, <1>4, <1>5, <1>6

\* A target with a matcher goes on and keeps its permit.
LEMMA MatcherMoves ==
    ASSUME CheckerInv, NEW k \in Targets, NEW s \in {"spawn", "match", "reap"},
           task[k] \in Active, Kind[k] = "regex", task' = [task EXCEPT ![k] = s],
           child' \in [Targets -> {"none", "alive", "exited"}],
           \A j \in Targets \ {k} : child'[j] = child[j],
           s = "spawn" => child'[k] = "none",
           late \subseteq late', late' \subseteq Targets,
           scheduler = "stopped" => s # "match" /\ (s = "spawn" => k \in late'),
           UNCHANGED <<cycle, outcome, semaphores, answered, verdict, schedule, stop>>
    PROVE  CheckerInv'
<1> USE DEF CheckerInv
<1>a. /\ task \in [Targets -> {"off", "waitT", "waitG", "request", "spawn", "match", "reap", "done"}]
      /\ task[k] \in {"request", "spawn", "match", "reap"}
  BY DEF TypeOK, Active
<1>b. UNCHANGED <<cycle, outcome, answered, verdict, queue, tqueue, permits, tpermits, scheduler>>
  BY DEF semaphores, stop
<1>1. TypeOK'
  BY <1>a DEF TypeOK, semaphores, schedule, stop
<1>2. PlaceInv'
  <2> SUFFICES ASSUME NEW j \in Targets
               PROVE  PlaceAt(j)'
    BY DEF PlaceInv
  <2>1. PlaceAt(j)
    BY DEF PlaceInv
  <2>2. CASE j # k
    <3>1. task'[j] = task[j] /\ child'[j] = child[j]
      BY <1>a, <2>2
    <3> QED BY <1>b, <2>1, <3>1 DEF PlaceAt
  <2>3. CASE j = k
    <3>1. task'[k] = s
      BY <1>a
    <3>2. k \notin Throughput /\ k \notin Egress /\ (cycle[Of[k]] = "targets" => k \notin Egress)
      BY DEF Throughput, Egress
    <3> QED BY <1>a, <1>b, <2>1, <2>3, <3>1, <3>2 DEF PlaceAt
  <2> QED BY <2>2, <2>3
<1>3. PermitInv'
  <2>1. Holding' = Holding
    BY <1>a DEF Holding
  <2>2. HoldingThroughput' = HoldingThroughput
    BY <1>a DEF HoldingThroughput, Throughput
  <2> QED BY <1>b, <2>1, <2>2 DEF PermitInv
<1>4. QueueInv'
  BY <1>b, QueuesUndisturbed
<1>5. StrayInv'
  BY StraysUndisturbed
<1>6. VerdictInv'
  BY <1>b, VerdictsUndisturbed
<1> QED BY <1>1, <1>2, <1>3, <1>4, <1>5, <1>6

-----------------------------------------------------------------------------
\* A target that asks, or whose matcher is being created, has no child.
LEMMA Childless ==
    ASSUME CheckerInv, NEW k \in Targets, task[k] \notin {"match", "reap"}
    PROVE  child = [child EXCEPT ![k] = "none"]
BY DEF CheckerInv, TypeOK, PlaceInv, PlaceAt

\* A target that asks, or whose matcher goes on, has not been cancelled.
LEMMA NotCancelled ==
    ASSUME CheckerInv, NEW k \in Targets, task[k] \in {"request", "match"}
    PROVE  scheduler = "running"
BY DEF CheckerInv, TypeOK, PlaceInv, PlaceAt

LEMMA RespondSafe ==
    ASSUME CheckerInv, NEW k \in Targets, Respond(k)
    PROVE  CheckerInv'
<1>1. scheduler = "running" /\ child = [child EXCEPT ![k] = "none"] /\ task[k] \in Active
  BY NotCancelled, Childless DEF Respond, Active
<1>2. UNCHANGED <<cycle, verdict, clock, age, left, stop>> /\ child' = child
  BY DEF Respond
<1>3. CASE Kind[k] = "regex" /\ task' = [task EXCEPT ![k] = "spawn"]
           /\ UNCHANGED <<outcome, answered, semaphores, fresh, late>>
  <2>1. child[k] = "none" /\ child \in [Targets -> {"none", "alive", "exited"}] /\ late \subseteq Targets
    BY <1>1 DEF CheckerInv, TypeOK, Respond, PlaceInv, PlaceAt
  <2>2. UNCHANGED <<cycle, outcome, semaphores, answered, verdict, schedule, stop>>
    BY <1>2, <1>3 DEF schedule
  <2> QED BY <1>1, <1>2, <1>3, <2>1, <2>2, MatcherMoves
<1>4. ASSUME NEW result \in {"success", "failure", "error"}, Finish(k, result)
      PROVE  CheckerInv'
  BY <1>1, <1>2, <1>4, FinishSafe
<1> QED BY <1>3, <1>4 DEF Respond, Faults

LEMMA EgressRespondsSafe ==
    ASSUME CheckerInv, NEW k \in Targets, EgressResponds(k)
    PROVE  CheckerInv'
<1>1. scheduler = "running" /\ child = [child EXCEPT ![k] = "none"] /\ task[k] \in Active
  BY NotCancelled, Childless DEF EgressResponds, Active
<1>2. UNCHANGED <<cycle, verdict, clock, age, left, stop>> /\ child' = child
  BY DEF EgressResponds
<1>3. PICK result \in {"success", "failure", "error"} : Finish(k, result)
  BY DEF EgressResponds, Faults
<1> QED BY <1>1, <1>2, <1>3, FinishSafe

LEMMA SpawnedSafe ==
    ASSUME CheckerInv, NEW k \in Targets, Spawned(k)
    PROVE  CheckerInv'
<1>1. /\ child = [child EXCEPT ![k] = "none"] /\ task[k] \in Active /\ Kind[k] = "regex"
      /\ scheduler = "stopped" => k \in late
      /\ late \subseteq Targets /\ child \in [Targets -> {"none", "alive", "exited"}]
  BY Childless DEF Spawned, Active, CheckerInv, PlaceInv, PlaceAt, TypeOK
<1>2. UNCHANGED <<cycle, verdict, clock, age, left, stop>>
  BY DEF Spawned
<1>3. CASE Finish(k, "error") /\ UNCHANGED child
  BY <1>1, <1>2, <1>3, FinishSafe
<1>4. CASE /\ child' = [child EXCEPT ![k] = "alive"]
           /\ task' = [task EXCEPT ![k] = IF k \in late THEN "reap" ELSE "match"]
           /\ UNCHANGED <<outcome, answered, semaphores, fresh, late>>
  <2>1. UNCHANGED <<cycle, outcome, semaphores, answered, verdict, schedule, stop>>
    BY <1>2, <1>4 DEF schedule
  <2>2. /\ child' \in [Targets -> {"none", "alive", "exited"}]
        /\ \A j \in Targets \ {k} : child'[j] = child[j]
    BY <1>1, <1>4
  <2>3. CASE k \in late
    BY <1>1, <1>4, <2>1, <2>2, <2>3, MatcherMoves
  <2>4. CASE k \notin late
    BY <1>1, <1>4, <2>1, <2>2, <2>4, MatcherMoves
  <2> QED BY <2>3, <2>4
<1> QED BY <1>3, <1>4 DEF Spawned

LEMMA MatchedSafe ==
    ASSUME CheckerInv, NEW k \in Targets, Matched(k)
    PROVE  CheckerInv'
<1>1. scheduler = "running" /\ task[k] \in Active
  BY NotCancelled DEF Matched, Active
<1>2. UNCHANGED <<cycle, verdict, clock, age, left, stop>> /\ child' = [child EXCEPT ![k] = "none"]
  BY DEF Matched
<1>3. PICK result \in {"success", "failure", "error"} : Finish(k, result)
  BY DEF Matched, Faults
<1> QED BY <1>1, <1>2, <1>3, FinishSafe

LEMMA TimeoutSafe ==
    ASSUME CheckerInv, NEW k \in Targets, Timeout(k)
    PROVE  CheckerInv'
<1>1. UNCHANGED <<cycle, verdict, clock, age, left, stop>> /\ child' = child
  BY DEF Timeout
<1>2. CASE task[k] = "request" /\ Finish(k, "failure")
  <2>1. child = [child EXCEPT ![k] = "none"] /\ task[k] \in Active
    BY <1>2, Childless DEF Active
  <2> QED BY <1>1, <1>2, <2>1, FinishSafe
<1>3. CASE /\ task[k] \in {"spawn", "match"} /\ late' = late \cup {k}
           /\ task' = [task EXCEPT ![k] = IF @ = "match" THEN "reap" ELSE @]
           /\ UNCHANGED <<outcome, answered, semaphores, fresh>>
  <2>1. UNCHANGED <<cycle, outcome, semaphores, answered, verdict, schedule, stop>>
    BY <1>1, <1>3 DEF schedule
  <2>2. /\ task[k] \in Active /\ Kind[k] = "regex" /\ (task[k] = "spawn" => child[k] = "none")
        /\ late' \subseteq Targets /\ late \subseteq late' /\ k \in late'
        /\ child' \in [Targets -> {"none", "alive", "exited"}]
    BY <1>1, <1>3 DEF CheckerInv, PlaceInv, PlaceAt, Active, TypeOK
  <2>3. CASE task[k] = "match"
    <3>1. task' = [task EXCEPT ![k] = "reap"]
      BY <1>3, <2>3
    <3> QED BY <1>1, <2>1, <2>2, <3>1, MatcherMoves
  <2>4. CASE task[k] = "spawn"
    <3>1. task' = [task EXCEPT ![k] = "spawn"]
      BY <1>3, <2>4
    <3> QED BY <1>1, <2>1, <2>2, <2>4, <3>1, MatcherMoves
  <2> QED BY <1>3, <2>3, <2>4
<1> QED BY <1>2, <1>3 DEF Timeout

LEMMA ReapedSafe ==
    ASSUME CheckerInv, NEW k \in Targets, Reaped(k)
    PROVE  CheckerInv'
<1>1. task[k] \in Active
  BY DEF Reaped, Active
<1>2. UNCHANGED <<cycle, verdict, clock, age, left, stop>> /\ child' = [child EXCEPT ![k] = "none"]
  BY DEF Reaped
<1>3. PICK result \in {"none", "failure"} : Finish(k, result)
  BY DEF Reaped
<1> QED BY <1>1, <1>2, <1>3, FinishSafe

LEMMA ChildExitsSafe ==
    ASSUME CheckerInv, NEW k \in Targets, ChildExits(k)
    PROVE  CheckerInv'
<1>1. /\ task[k] \in {"match", "reap"} /\ task[k] \in Active /\ Kind[k] = "regex"
      /\ scheduler = "stopped" => task[k] # "match"
      /\ task' = [task EXCEPT ![k] = task[k]]
      /\ late' \subseteq Targets /\ late \subseteq late'
      /\ child' \in [Targets -> {"none", "alive", "exited"}]
      /\ \A j \in Targets \ {k} : child'[j] = child[j]
  BY DEF ChildExits, CheckerInv, PlaceInv, PlaceAt, TypeOK, Active
<1>2. UNCHANGED <<cycle, outcome, semaphores, answered, verdict, schedule, stop>>
  BY DEF ChildExits
<1> QED BY <1>1, <1>2, MatcherMoves

-----------------------------------------------------------------------------
\* The first waiter of a semaphore gets its permit.
LEMMA AcquireThroughputSafe ==
    ASSUME CheckerInv, NEW k \in Targets, AcquireThroughput(k)
    PROVE  CheckerInv'
<1> USE DEF CheckerInv
<1>a. /\ task \in [Targets -> {"off", "waitT", "waitG", "request", "spawn", "match", "reap", "done"}]
      /\ queue \in Seq(Targets) /\ tqueue \in Seq(Throughput) /\ Throughput \subseteq Targets
      /\ Distinct(queue) /\ Distinct(tqueue)
  BY DEF TypeOK, Throughput, QueueInv
<1>b. /\ tqueue # <<>> /\ k = Head(tqueue) /\ tpermits > 0 /\ tpermits' = tpermits - 1
      /\ tqueue' = Tail(tqueue) /\ queue' = Append(queue, k) /\ task' = [task EXCEPT ![k] = "waitG"]
      /\ UNCHANGED <<cycle, late, outcome, child, permits, answered, verdict, schedule, stop>>
      /\ UNCHANGED <<scheduler, strays, restarts>>
  BY DEF AcquireThroughput, stop
<1>c. /\ Tail(tqueue) \in Seq(Throughput) /\ Distinct(Tail(tqueue)) /\ k \in Throughput
      /\ 1 \in 1..Len(tqueue) /\ k = tqueue[1]
      /\ \A i \in 1..Len(Tail(tqueue)) :
            i + 1 \in 1..Len(tqueue) /\ Tail(tqueue)[i] = tqueue[i + 1] /\ Tail(tqueue)[i] # k
  BY <1>a, <1>b, Served
<1>d. task[k] = "waitT"
  BY <1>c DEF QueueInv, Waits
<1>1. PermitInv'
  <2>1. Holding' = Holding
    BY <1>a, <1>b, <1>d DEF Holding
  <2>2. HoldingThroughput' = HoldingThroughput \cup {k} /\ k \notin HoldingThroughput
    BY <1>a, <1>b, <1>c, <1>d DEF HoldingThroughput
  <2>3. Cardinality(HoldingThroughput') = Cardinality(HoldingThroughput) + 1
    BY <2>2, FS_AddElement, FiniteParts
  <2>4. tpermits \in Int /\ MaxThroughput \in Int
    BY ConfigAssumption DEF TypeOK
  <2> QED BY <1>b, <2>1, <2>3, <2>4, FiniteParts DEF PermitInv
<1>2. TypeOK'
  <2>1. queue' \in Seq(Targets)
    BY <1>a, <1>b, AppendProperties
  <2>2. tpermits' \in 0..MaxThroughput
    BY <1>b, ConfigAssumption DEF TypeOK
  <2> QED BY <1>a, <1>b, <1>c, <2>1, <2>2 DEF TypeOK, schedule
<1>3. PlaceInv'
  <2> SUFFICES ASSUME NEW j \in Targets
               PROVE  PlaceAt(j)'
    BY DEF PlaceInv
  <2>1. PlaceAt(j)
    BY DEF PlaceInv
  <2>2. CASE j # k
    BY <1>a, <1>b, <2>1, <2>2 DEF PlaceAt
  <2>3. CASE j = k
    BY <1>a, <1>b, <1>c, <1>d, <2>1, <2>3 DEF PlaceAt, Throughput, Egress, Health
  <2> QED BY <2>2, <2>3
<1>4. QueueInv'
  <2>1. Distinct(tqueue') /\ Waits(tqueue, "waitT")'
    <3> SUFFICES ASSUME NEW i \in 1..Len(Tail(tqueue))
                 PROVE  task'[Tail(tqueue)[i]] = "waitT"
      BY <1>b, <1>c DEF Waits
    <3>1. Tail(tqueue)[i] \in Throughput
      BY <1>c, ElementOfSeq
    <3>2. Tail(tqueue)[i] # k /\ task[Tail(tqueue)[i]] = "waitT"
      BY <1>c DEF QueueInv, Waits
    <3> QED BY <1>a, <1>b, <3>1, <3>2
  <2>2. /\ Len(queue') = Len(queue) + 1 /\ queue'[Len(queue) + 1] = k /\ Len(queue) \in Nat
        /\ \A i \in 1..Len(queue) : queue'[i] = queue[i]
    BY <1>a, <1>b, AppendProperties, LenProperties
  <2>3. \A i \in 1..Len(queue) : queue[i] \in Targets /\ task[queue[i]] = "waitG" /\ queue[i] # k
    BY <1>a, <1>d, ElementOfSeq DEF QueueInv, Waits
  <2>4. Distinct(queue')
    BY <1>a, <2>2, <2>3 DEF Distinct
  <2>5. Waits(queue, "waitG")'
    BY <1>a, <1>b, <2>2, <2>3 DEF Waits
  <2> QED BY <2>1, <2>4, <2>5 DEF QueueInv
<1>5. StrayInv'
  BY <1>b, StraysUndisturbed
<1>6. VerdictInv'
  BY <1>b, VerdictsUndisturbed
<1> QED BY <1>1, <1>2, <1>3, <1>4, <1>5, <1>6

LEMMA AcquireSafe ==
    ASSUME CheckerInv, NEW k \in Targets, Acquire(k)
    PROVE  CheckerInv'
<1> USE DEF CheckerInv
<1>a. /\ task \in [Targets -> {"off", "waitT", "waitG", "request", "spawn", "match", "reap", "done"}]
      /\ queue \in Seq(Targets) /\ tqueue \in Seq(Throughput) /\ Throughput \subseteq Targets
      /\ Distinct(queue) /\ Distinct(tqueue)
  BY DEF TypeOK, Throughput, QueueInv
<1>b. /\ queue # <<>> /\ k = Head(queue) /\ permits > 0 /\ permits' = permits - 1
      /\ queue' = Tail(queue) /\ task' = [task EXCEPT ![k] = "request"]
      /\ UNCHANGED <<cycle, late, outcome, child, tpermits, tqueue, answered, verdict, schedule, stop>>
      /\ UNCHANGED <<scheduler, strays, restarts>>
  BY DEF Acquire, stop
<1>c. /\ Tail(queue) \in Seq(Targets) /\ Distinct(Tail(queue))
      /\ 1 \in 1..Len(queue) /\ k = queue[1]
      /\ \A i \in 1..Len(Tail(queue)) :
            i + 1 \in 1..Len(queue) /\ Tail(queue)[i] = queue[i + 1] /\ Tail(queue)[i] # k
  BY <1>a, <1>b, Served
<1>d. task[k] = "waitG"
  BY <1>c DEF QueueInv, Waits
<1>1. PermitInv'
  <2>1. HoldingThroughput' = HoldingThroughput
    BY <1>a, <1>b, <1>d DEF HoldingThroughput
  <2>2. Holding' = Holding \cup {k} /\ k \notin Holding
    BY <1>a, <1>b, <1>d DEF Holding
  <2>3. Cardinality(Holding') = Cardinality(Holding) + 1
    BY <2>2, FS_AddElement, FiniteParts
  <2>4. permits \in Int /\ MaxParallel \in Int
    BY ConfigAssumption DEF TypeOK
  <2> QED BY <1>b, <2>1, <2>3, <2>4, FiniteParts DEF PermitInv
<1>2. TypeOK'
  <2>1. permits' \in 0..MaxParallel
    BY <1>b, ConfigAssumption DEF TypeOK
  <2> QED BY <1>a, <1>b, <1>c, <2>1 DEF TypeOK, schedule
<1>3. PlaceInv'
  <2> SUFFICES ASSUME NEW j \in Targets
               PROVE  PlaceAt(j)'
    BY DEF PlaceInv
  <2>1. PlaceAt(j)
    BY DEF PlaceInv
  <2>2. CASE j # k
    BY <1>a, <1>b, <2>1, <2>2 DEF PlaceAt
  <2>3. CASE j = k
    BY <1>a, <1>b, <1>d, <2>1, <2>3 DEF PlaceAt
  <2> QED BY <2>2, <2>3
<1>4. QueueInv'
  <2>1. Distinct(queue') /\ Waits(queue, "waitG")'
    <3> SUFFICES ASSUME NEW i \in 1..Len(Tail(queue))
                 PROVE  task'[Tail(queue)[i]] = "waitG"
      BY <1>b, <1>c DEF Waits
    <3>1. Tail(queue)[i] \in Targets \ {k} /\ task[Tail(queue)[i]] = "waitG"
      BY <1>a, <1>c, ElementOfSeq DEF QueueInv, Waits
    <3> QED BY <1>a, <1>b, <3>1
  <2>2. Waits(tqueue, "waitT")'
    <3> SUFFICES ASSUME NEW i \in 1..Len(tqueue)
                 PROVE  task'[tqueue[i]] = "waitT"
      BY <1>b DEF Waits
    <3>1. tqueue[i] \in Targets /\ task[tqueue[i]] = "waitT"
      BY <1>a, ElementOfSeq DEF QueueInv, Waits
    <3> QED BY <1>a, <1>b, <1>d, <3>1
  <2> QED BY <1>a, <1>b, <2>1, <2>2 DEF QueueInv
<1>5. StrayInv'
  BY <1>b, StraysUndisturbed
<1>6. VerdictInv'
  BY <1>b, VerdictsUndisturbed
<1> QED BY <1>1, <1>2, <1>3, <1>4, <1>5, <1>6

-----------------------------------------------------------------------------
\* The tasks of a cycle and the permits, while only the schedule changes
LEMMA ScheduleMoves ==
    ASSUME CheckerInv, clock' \in 0..(Interval - 1), age' \in [Throughput -> Ages],
           fresh' \in [Throughput -> Ages], left' \in [Throughput -> Ages],
           UNCHANGED <<cycle, task, late, outcome, child, semaphores, answered, verdict, stop>>
    PROVE  CheckerInv'
<1> USE DEF CheckerInv
<1>1. TypeOK'
  BY DEF TypeOK, semaphores, stop
<1>2. PlaceInv'
  BY DEF PlaceInv, PlaceAt, stop
<1>3. PermitInv'
  BY DEF PermitInv, Holding, HoldingThroughput, semaphores
<1>4. QueueInv'
  BY DEF QueueInv, Distinct, Waits, semaphores
<1>5. StrayInv'
  BY StraysUndisturbed
<1>6. VerdictInv'
  BY VerdictsUndisturbed
<1> QED BY <1>1, <1>2, <1>3, <1>4, <1>5, <1>6

LEMMA TickSafe ==
    ASSUME CheckerInv, Tick
    PROVE  CheckerInv'
<1>1. /\ clock \in 0..(Interval - 1) /\ age \in [Throughput -> Ages]
      /\ fresh \in [Throughput -> Ages] /\ left \in [Throughput -> Ages]
      /\ Interval \in Nat \ {0}
  BY ConfigAssumption DEF CheckerInv, TypeOK
<1>2. clock' \in 0..(Interval - 1)
  BY <1>1 DEF Tick
<1> DEFINE older(a) == IF a = None \/ a = Interval THEN a ELSE a + 1
<1>3. \A a \in Ages : older(a) \in Ages
  BY <1>1, ConfigAssumption DEF Ages
<1>4. \A a \in Ages : a # None /\ a # 0 => a - 1 \in Ages
  BY <1>1, ConfigAssumption DEF Ages
<1>5. age' \in [Throughput -> Ages] /\ fresh' \in [Throughput -> Ages]
  BY <1>1, <1>3 DEF Tick
<1>6. left' \in [Throughput -> Ages]
  BY <1>1, <1>4 DEF Tick
<1> QED BY <1>2, <1>5, <1>6, ScheduleMoves DEF Tick

LEMMA ForgetSafe ==
    ASSUME CheckerInv, NEW c \in Checks, Forget(c)
    PROVE  CheckerInv'
<1>1. /\ clock' \in 0..(Interval - 1) /\ age' \in [Throughput -> Ages]
      /\ fresh' \in [Throughput -> Ages] /\ left' \in [Throughput -> Ages]
  BY DEF CheckerInv, TypeOK, Forget, Ages
<1> QED BY <1>1, ScheduleMoves DEF Forget

-----------------------------------------------------------------------------
\* One member of a set gives way to another.
LEMMA Replaced ==
    ASSUME NEW S, NEW x \in S, NEW y, IsFiniteSet(S)
    PROVE  /\ IsFiniteSet((S \ {x}) \cup {y})
           /\ Cardinality((S \ {x}) \cup {y}) <= Cardinality(S)
<1> DEFINE R == S \ {x}
<1>1. IsFiniteSet(R) /\ Cardinality(R) = Cardinality(S) - 1 /\ Cardinality(S) \in Nat
  BY FS_RemoveElement, FS_CardinalityType
<1> HIDE DEF R
<1>2. /\ IsFiniteSet(R \cup {y})
      /\ Cardinality(R \cup {y}) = IF y \in R THEN Cardinality(R) ELSE Cardinality(R) + 1
  BY <1>1, FS_AddElement
<1>3. Cardinality(R \cup {y}) <= Cardinality(S)
  BY <1>1, <1>2
<1> QED BY <1>2, <1>3 DEF R

\* While only the strays move, a checker has as many of them as before, or fewer.
LEMMA StraySafe ==
    ASSUME CheckerInv, NEW o \in strays, Stray(o)
    PROVE  CheckerInv'
<1> USE DEF CheckerInv
<1>a. /\ o \in [target : Targets, checker : 0..MaxRestarts, child : {"none", "alive", "exited"}]
      /\ strays \subseteq [target : Targets, checker : 0..MaxRestarts, child : {"none", "alive", "exited"}]
  BY DEF TypeOK
<1>b. UNCHANGED <<cycle, task, late, outcome, child, semaphores, answered, verdict, schedule,
                  scheduler, restarts>>
  BY DEF Stray
<1>c. \/ strays' = strays \ {o}
      \/ \E s \in {"alive", "exited"} : strays' = (strays \ {o}) \cup {[o EXCEPT !.child = s]}
  BY <1>a DEF Stray
<1>1. TypeOK'
  <2>1. strays' \subseteq [target : Targets, checker : 0..MaxRestarts, child : {"none", "alive", "exited"}]
    BY <1>a, <1>c
  <2> QED BY <1>b, <2>1 DEF TypeOK, semaphores, schedule
<1>2. PlaceInv'
  BY <1>b DEF PlaceInv, PlaceAt
<1>3. PermitInv'
  BY <1>b DEF PermitInv, Holding, HoldingThroughput, semaphores
<1>4. QueueInv'
  BY <1>b DEF QueueInv, Distinct, Waits, semaphores
<1>5. StrayInv'
  <2>1. IsFiniteSet(strays')
    <3>1. IsFiniteSet(strays)
      BY DEF StrayInv
    <3>2. IsFiniteSet(strays \ {o})
      BY <3>1, FS_RemoveElement
    <3>3. ASSUME NEW s PROVE IsFiniteSet((strays \ {o}) \cup {[o EXCEPT !.child = s]})
      BY <3>1, Replaced
    <3> QED BY <1>c, <3>2, <3>3
  <2>2. \A p \in strays' : \E q \in strays : p.checker = q.checker
    BY <1>a, <1>c
  <2>3. ASSUME NEW n \in 1..restarts
        PROVE  Cardinality(StraysOf(n)') <= MaxParallel
    <3> DEFINE S == StraysOf(n)
    <3>1. IsFiniteSet(S) /\ Cardinality(S) <= MaxParallel /\ Cardinality(S) \in Nat /\ S \subseteq strays
      BY FS_Subset, FS_CardinalityType DEF StrayInv, StraysOf
    <3>2. /\ IsFiniteSet(S \ {o})
          /\ Cardinality(S \ {o}) = IF o \in S THEN Cardinality(S) - 1 ELSE Cardinality(S)
      BY <3>1, FS_RemoveElement
    <3>3. MaxParallel \in Nat
      BY ConfigAssumption
    <3>4. CASE strays' = strays \ {o}
      <4>1. S' = S \ {o}
        BY <3>4 DEF StraysOf
      <4> HIDE DEF S
      <4>2. Cardinality(S') <= MaxParallel
        BY <3>1, <3>2, <3>3, <4>1
      <4> QED BY <4>2 DEF S
    <3>5. ASSUME NEW s \in {"alive", "exited"},
                 strays' = (strays \ {o}) \cup {[o EXCEPT !.child = s]}
          PROVE  Cardinality(S') <= MaxParallel
      <4> DEFINE p == [o EXCEPT !.child = s]
      <4>1. p.checker = o.checker
        BY <1>a
      <4> HIDE DEF p
      <4>2. strays' = (strays \ {o}) \cup {p}
        BY <3>5 DEF p
      <4>3. CASE o.checker = n
        <5>1. S' = (S \ {o}) \cup {p} /\ o \in S
          BY <4>1, <4>2, <4>3 DEF StraysOf
        <5> HIDE DEF S
        <5>2. /\ IsFiniteSet((S \ {o}) \cup {p})
              /\ Cardinality((S \ {o}) \cup {p}) <= Cardinality(S)
          BY <3>1, <5>1, Replaced
        <5>3. Cardinality(S') \in Nat /\ Cardinality(S') <= Cardinality(S)
          BY <5>1, <5>2, FS_CardinalityType
        <5>4. Cardinality(S') <= MaxParallel
          BY <3>1, <3>3, <5>3
        <5> QED BY <5>4 DEF S
      <4>4. CASE o.checker # n
        <5>1. S' = S
          BY <4>1, <4>2, <4>4 DEF StraysOf
        <5> QED BY <3>1, <5>1
      <4> QED BY <4>3, <4>4
    <3> QED BY <1>c, <3>4, <3>5
  <2>4. \A p \in strays' : p.checker <= restarts /\ (scheduler = "stopped" => p.checker < restarts)
    BY <2>2 DEF StrayInv
  <2>5. UNCHANGED <<scheduler, restarts>>
    BY <1>b
  <2> QED BY <2>1, <2>3, <2>4, <2>5 DEF StrayInv
<1>6. VerdictInv'
  BY <1>b, VerdictsUndisturbed
<1> QED BY <1>1, <1>2, <1>3, <1>4, <1>5, <1>6

-----------------------------------------------------------------------------
\* Stop() takes back the permit of every target that asks, and of no other.
LEMMA StopSafe ==
    ASSUME CheckerInv, Stop
    PROVE  CheckerInv'
<1> USE DEF CheckerInv
<1> DEFINE asking == {k \in Targets : task[k] = "request"}
<1>a. /\ scheduler = "running" /\ restarts < MaxRestarts
      /\ scheduler' = "stopped" /\ restarts' = restarts + 1
      /\ late' = late \cup {k \in Targets : task[k] \in {"spawn", "match"}}
      /\ queue' = <<>> /\ tqueue' = <<>>
      /\ permits' = permits + Cardinality(asking)
      /\ tpermits' = tpermits + Cardinality(HoldingThroughput)
      /\ UNCHANGED <<cycle, outcome, child, answered, verdict, schedule, strays>>
  BY DEF Stop, HoldingThroughput
<1>b. task' = [k \in Targets |->
           CASE task[k] \in {"waitT", "waitG", "request"} -> "done"
             [] task[k] = "match" -> "reap"
             [] OTHER -> task[k]]
  BY DEF Stop
<1>c. task \in [Targets -> {"off", "waitT", "waitG", "request", "spawn", "match", "reap", "done"}]
  BY DEF TypeOK
<1>d. ASSUME NEW k \in Targets
      PROVE  /\ task[k] \in {"waitT", "waitG", "request"} => task'[k] = "done"
             /\ task[k] = "match" => task'[k] = "reap"
             /\ task[k] \in {"off", "spawn", "reap", "done"} => task'[k] = task[k]
  BY <1>b, <1>c
<1>e. task' \in [Targets -> {"off", "waitT", "waitG", "request", "spawn", "match", "reap", "done"}]
  <2>1. task' = [k \in Targets |-> task'[k]]
    BY <1>b
  <2>2. \A k \in Targets :
           task'[k] \in {"off", "waitT", "waitG", "request", "spawn", "match", "reap", "done"}
    BY <1>c, <1>d
  <2> QED BY <2>1, <2>2
<1>1. PermitInv'
  <2>1. Holding' = Holding \ asking /\ Holding \cap asking = asking
    BY <1>c, <1>d DEF Holding
  <2>2. HoldingThroughput' = {}
    BY <1>c, <1>d DEF HoldingThroughput, Throughput
  <2>3. Cardinality(Holding') = Cardinality(Holding) - Cardinality(asking)
    <3> HIDE DEF asking
    <3>1. Cardinality(Holding \ asking) = Cardinality(Holding) - Cardinality(Holding \cap asking)
      BY FiniteParts, FS_Difference
    <3> QED BY <2>1, <3>1
  <2>4. Cardinality(HoldingThroughput') = 0
    BY <2>2, FS_EmptySet
  <2>5. Cardinality(asking) \in Nat
    <3>1. IsFiniteSet(asking)
      BY FS_Subset, ConfigAssumption
    <3> QED BY <3>1, FS_CardinalityType
  <2>6. permits \in Int /\ tpermits \in Int /\ MaxParallel \in Int /\ MaxThroughput \in Int
    BY ConfigAssumption DEF TypeOK
  <2> HIDE DEF asking
  <2> QED BY <1>a, <2>3, <2>4, <2>5, <2>6, FiniteParts DEF PermitInv
<1>2. TypeOK'
  <2>1. permits' \in 0..MaxParallel /\ tpermits' \in 0..MaxThroughput
    <3>1. permits \in Nat /\ tpermits \in Nat /\ MaxParallel \in Nat /\ MaxThroughput \in Nat
      BY ConfigAssumption DEF TypeOK
    <3>2. Cardinality(asking) \in Nat
      <4>1. IsFiniteSet(asking)
        BY FS_Subset, ConfigAssumption
      <4> QED BY <4>1, FS_CardinalityType
    <3> HIDE DEF asking
    <3>3. permits' \in Nat /\ tpermits' \in Nat
      BY <1>a, <3>1, <3>2, FiniteParts
    <3> QED BY <1>1, <3>1, <3>3, FiniteParts DEF PermitInv
  <2>2. queue' \in Seq(Targets) /\ tqueue' \in Seq(Throughput)
    BY <1>a, EmptySeq
  <2>3. restarts' \in 0..MaxRestarts
    BY <1>a, ConfigAssumption DEF TypeOK
  <2> QED BY <1>a, <1>e, <2>1, <2>2, <2>3 DEF TypeOK, schedule
<1>3. PlaceInv'
  <2> SUFFICES ASSUME NEW k \in Targets
               PROVE  PlaceAt(k)'
    BY DEF PlaceInv
  <2>1. PlaceAt(k)
    BY DEF PlaceInv
  <2>2. scheduler' = "stopped" /\ UNCHANGED <<cycle, outcome, child, answered>>
    BY <1>a
  <2>3. task[k] = "spawn" => k \in late'
    BY <1>a
  <2>4. task[k] \in {"off", "waitT", "waitG", "request", "spawn", "match", "reap", "done"}
    BY <1>c
  <2> QED BY <1>d, <2>1, <2>2, <2>3, <2>4 DEF PlaceAt
<1>4. QueueInv'
  <2>1. Len(queue') = 0 /\ Len(tqueue') = 0
    BY <1>a, EmptySeq
  <2> QED BY <2>1 DEF QueueInv, Distinct, Waits
<1>5. StrayInv'
  <2>1. restarts \in Nat /\ MaxParallel \in Nat /\ \A o \in strays : o.checker \in Nat
    BY ConfigAssumption DEF TypeOK
  <2>2. \A o \in strays : o.checker < restarts + 1
    BY <2>1 DEF StrayInv
  <2>3. ASSUME NEW n \in 1..(restarts + 1)
        PROVE  Cardinality(StraysOf(n)) <= MaxParallel
    <3>1. CASE n \in 1..restarts
      BY <3>1 DEF StrayInv
    <3>2. CASE n = restarts + 1
      <4>1. StraysOf(n) = {}
        BY <2>1, <2>2, <3>2 DEF StraysOf
      <4> QED BY <2>1, <4>1, FS_EmptySet
    <3> QED BY <2>1, <3>1, <3>2
  <2>4. IsFiniteSet(strays)
    BY DEF StrayInv
  <2>5. \A n : StraysOf(n)' = StraysOf(n)
    BY <1>a DEF StraysOf
  <2>6. \A o \in strays : o.checker <= restarts + 1
    BY <2>1, <2>2
  <2> QED BY <1>a, <2>2, <2>3, <2>4, <2>5, <2>6 DEF StrayInv
<1>6. VerdictInv'
  BY <1>a, VerdictsUndisturbed
<1> QED BY <1>1, <1>2, <1>3, <1>4, <1>5, <1>6

\* A cancelled cycle takes its answers with it.
LEMMA CancelledSafe ==
    ASSUME CheckerInv, NEW c \in Checks, Cancelled(c)
    PROVE  CheckerInv'
<1> USE DEF CheckerInv
<1>a. /\ scheduler = "stopped" /\ cycle[c] # "idle" /\ cycle' = [cycle EXCEPT ![c] = "idle"]
      /\ outcome' = [k \in Targets |-> IF Of[k] = c THEN "none" ELSE outcome[k]]
      /\ answered' = answered \ TargetsOf(c)
      /\ fresh' = [k \in Throughput |-> IF Of[k] = c THEN None ELSE fresh[k]]
      /\ UNCHANGED <<task, late, child, semaphores, verdict, clock, age, left, stop>>
      /\ UNCHANGED scheduler
  BY DEF Cancelled, stop
<1>b. cycle \in [Checks -> {"idle", "targets", "egress"}] /\ Of \in [Targets -> Checks]
  BY ConfigAssumption DEF TypeOK
<1>1. TypeOK'
  BY <1>a, <1>b DEF TypeOK, semaphores, stop, Ages
<1>2. PlaceInv'
  <2> SUFFICES ASSUME NEW k \in Targets
               PROVE  PlaceAt(k)'
    BY DEF PlaceInv
  <2>1. PlaceAt(k)
    BY DEF PlaceInv
  <2>2. cycle'[Of[k]] = (IF Of[k] = c THEN "idle" ELSE cycle[Of[k]])
    BY <1>a, <1>b
  <2>3. outcome'[k] = (IF Of[k] = c THEN "none" ELSE outcome[k])
    BY <1>a
  <2>4. scheduler' = "stopped" /\ UNCHANGED <<task, child, late>>
    BY <1>a
  <2> QED BY <1>a, <2>1, <2>2, <2>3, <2>4 DEF PlaceAt
<1>3. PermitInv'
  BY <1>a DEF PermitInv, Holding, HoldingThroughput, semaphores
<1>4. QueueInv'
  BY <1>a DEF QueueInv, Distinct, Waits, semaphores
<1>5. StrayInv'
  BY <1>a, StraysUndisturbed
<1>6. VerdictInv'
  <2>1. verdict[c] = "none"
    BY <1>a DEF VerdictInv
  <2>2. \A d \in Checks \ {c} : answered' \cap TargetsOf(d) = answered \cap TargetsOf(d)
    BY <1>a DEF TargetsOf
  <2>3. \A d \in Checks : cycle'[d] = IF d = c THEN "idle" ELSE cycle[d]
    BY <1>a, <1>b
  <2>4. verdict' = verdict /\ answered' \subseteq answered
    BY <1>a
  <2>5. VerdictSound'
    <3> SUFFICES ASSUME NEW d \in Checks, cycle'[d] = "idle"
                 PROVE  LET good == Cardinality(answered' \cap TargetsOf(d))
                        IN /\ verdict'[d] = "success" => good >= Quorum[d]
                           /\ verdict'[d] = "failure" => good < Quorum[d]
      BY DEF VerdictSound
    <3>1. CASE d = c
      BY <2>1, <2>4, <3>1
    <3>2. CASE d # c
      BY <2>2, <2>3, <2>4, <3>2 DEF VerdictInv, VerdictSound
    <3> QED BY <3>1, <3>2
  <2> QED BY <2>3, <2>4, <2>5 DEF VerdictInv
<1> QED BY <1>1, <1>2, <1>3, <1>4, <1>5, <1>6

\* What the targets of a stopped checker still wait for becomes strays, one for each
\* permit that is held at most; the new checker has all its permits.
LEMMA NewCheckerSafe ==
    ASSUME CheckerInv, NewChecker
    PROVE  CheckerInv'
<1> USE DEF CheckerInv
<1> DEFINE behind == {j \in Targets : task[j] \in {"spawn", "reap"}}
           stray(k) == [target |-> k, checker |-> restarts, child |-> child[k]]
           new == {stray(k) : k \in behind}
<1>a. /\ scheduler = "stopped" /\ scheduler' = "running" /\ \A c \in Checks : cycle[c] = "idle"
      /\ strays' = strays \cup new
      /\ task' = [k \in Targets |-> "off"] /\ outcome' = [k \in Targets |-> "none"]
      /\ child' = [k \in Targets |-> "none"] /\ late' = {}
      /\ left' = [k \in Throughput |-> None]
      /\ permits' = MaxParallel /\ tpermits' = MaxThroughput
      /\ UNCHANGED <<cycle, queue, tqueue, answered, verdict, clock, age, fresh, restarts>>
  BY DEF NewChecker
<1>b. restarts \in 0..MaxRestarts /\ MaxRestarts \in Nat /\ MaxParallel \in Nat
      /\ child \in [Targets -> {"none", "alive", "exited"}]
  BY ConfigAssumption DEF TypeOK
<1>c. /\ IsFiniteSet(behind) /\ Cardinality(behind) <= MaxParallel /\ Cardinality(behind) \in Nat
  <2>1. behind \in SUBSET Holding
    BY DEF Holding
  <2>2. IsFiniteSet(behind) /\ Cardinality(behind) <= Cardinality(Holding)
    BY <2>1, FiniteParts, FS_Subset
  <2>3. Cardinality(behind) \in Nat
    BY <2>2, FS_CardinalityType
  <2>4. Cardinality(Holding) <= MaxParallel
    <3>1. permits \in Nat
      BY ConfigAssumption DEF TypeOK
    <3> QED BY <1>b, <3>1, FiniteParts DEF PermitInv
  <2> HIDE DEF behind
  <2> QED BY <1>b, <2>2, <2>3, <2>4, FiniteParts
<1>d. IsFiniteSet(new) /\ Cardinality(new) <= MaxParallel
  <2> DEFINE f == [k \in behind |-> stray(k)]
  <2>1. f \in Surjection(behind, new)
    <3>1. f \in [behind -> new] /\ \A y \in new : \E x \in behind : f[x] = y
      OBVIOUS
    <3> QED BY <3>1 DEF Surjection
  <2> HIDE DEF f, new, behind
  <2>2. IsFiniteSet(new) /\ Cardinality(new) <= Cardinality(behind)
    BY <1>c, <2>1, FS_Surjection
  <2>3. Cardinality(new) \in Nat
    BY <2>2, FS_CardinalityType
  <2> QED BY <1>b, <1>c, <2>2, <2>3
<1>1. TypeOK'
  <2>1. strays' \in SUBSET [target : Targets, checker : 0..MaxRestarts,
                            child : {"none", "alive", "exited"}]
    BY <1>a, <1>b DEF TypeOK
  <2>2. permits' \in 0..MaxParallel /\ tpermits' \in 0..MaxThroughput
    BY <1>a, ConfigAssumption
  <2> HIDE DEF new
  <2> QED BY <1>a, <2>1, <2>2 DEF TypeOK, Ages
<1>2. PlaceInv'
  <2> SUFFICES ASSUME NEW k \in Targets
               PROVE  PlaceAt(k)'
    BY DEF PlaceInv
  <2>1. /\ task'[k] = "off" /\ outcome'[k] = "none" /\ child'[k] = "none"
        /\ scheduler' = "running" /\ cycle'[Of[k]] = "idle"
    BY <1>a, ConfigAssumption
  <2> QED BY <2>1 DEF PlaceAt
<1>3. PermitInv'
  <2>1. Holding' = {} /\ HoldingThroughput' = {}
    BY <1>a DEF Holding, HoldingThroughput, Throughput
  <2>2. Cardinality(Holding') = 0 /\ Cardinality(HoldingThroughput') = 0
    BY <2>1, FS_EmptySet
  <2> QED BY <1>a, <2>2, ConfigAssumption DEF PermitInv
<1>4. QueueInv'
  <2>1. ASSUME NEW i \in 1..Len(queue) PROVE FALSE
    <3>1. queue[i] \in Targets /\ task[queue[i]] = "waitG"
      BY <2>1, ElementOfSeq DEF TypeOK, QueueInv, Waits
    <3> QED BY <1>a, <3>1 DEF PlaceInv, PlaceAt
  <2>2. ASSUME NEW i \in 1..Len(tqueue) PROVE FALSE
    <3>1. tqueue[i] \in Targets /\ task[tqueue[i]] = "waitT"
      BY <2>2, ElementOfSeq DEF TypeOK, QueueInv, Waits, Throughput
    <3> QED BY <1>a, <3>1 DEF PlaceInv, PlaceAt
  <2> QED BY <1>a, <2>1, <2>2 DEF QueueInv, Distinct, Waits
<1>5. StrayInv'
  <2>1. IsFiniteSet(strays')
    BY <1>a, <1>d, FS_Union DEF StrayInv
  <2>2. \A o \in new : o.checker = restarts
    OBVIOUS
  <2>3. \A o \in strays' : o.checker <= restarts
    BY <1>a, <1>b, <2>2 DEF StrayInv
  <2>4. ASSUME NEW n \in 1..restarts
        PROVE  Cardinality(StraysOf(n)') <= MaxParallel
    <3>1. CASE n = restarts
      <4>1. \A o \in strays : o.checker # restarts
        <5>1. \A o \in strays : o.checker \in Nat /\ o.checker < restarts
          BY <1>a DEF TypeOK, StrayInv
        <5> QED BY <1>b, <5>1
      <4> HIDE DEF new
      <4>2. StraysOf(n)' = new
        BY <1>a, <2>2, <3>1, <4>1 DEF StraysOf
      <4> QED BY <1>d, <4>2
    <3>2. CASE n # restarts
      <4> HIDE DEF new
      <4>1. StraysOf(n)' = StraysOf(n)
        BY <1>a, <2>2, <3>2 DEF StraysOf
      <4> QED BY <4>1 DEF StrayInv
    <3> QED BY <3>1, <3>2
  <2> HIDE DEF new
  <2> QED BY <1>a, <2>1, <2>3, <2>4 DEF StrayInv
<1>6. VerdictInv'
  BY <1>a, VerdictsUndisturbed
<1> QED BY <1>1, <1>2, <1>3, <1>4, <1>5, <1>6

-----------------------------------------------------------------------------
\* Targets that wait nowhere join a queue together.
LEMMA SetJoins ==
    ASSUME NEW T, NEW q \in Seq(T), NEW S \in SUBSET T, IsFiniteSet(S), Distinct(q),
           \A i \in 1..Len(q) : q[i] \notin S
    PROVE  /\ q \o SetToSeq(S) \in Seq(T) /\ Distinct(q \o SetToSeq(S))
           /\ \A i \in 1..Len(q \o SetToSeq(S)) :
                 \/ (q \o SetToSeq(S))[i] \in S
                 \/ \E j \in 1..Len(q) : (q \o SetToSeq(S))[i] = q[j]
<1> DEFINE r == SetToSeq(S)
<1>1. r \in Seq(S) /\ Distinct(r)
  BY SetToSeqProperties
<1> HIDE DEF r
<1>2. r \in Seq(T)
  BY <1>1, SeqMonotonic
<1>3. \A j \in 1..Len(r) : r[j] \in S
  BY <1>1, ElementOfSeq
<1>4. q \o r \in Seq(T) /\ Distinct(q \o r)
  BY <1>1, <1>2, <1>3, Joined
<1>5. \A i \in 1..Len(q \o r) : \/ \E j \in 1..Len(q) : (q \o r)[i] = q[j]
                                \/ \E j \in 1..Len(r) : (q \o r)[i] = r[j]
  BY <1>2, JoinedPlaces
<1>6. \A i \in 1..Len(q \o r) : (q \o r)[i] \in S \/ \E j \in 1..Len(q) : (q \o r)[i] = q[j]
  BY <1>3, <1>5
<1> QED BY <1>4, <1>6 DEF r

LEMMA TargetsEndedSafe ==
    ASSUME CheckerInv, NEW c \in Checks, TargetsEnded(c)
    PROVE  CheckerInv'
<1> USE DEF CheckerInv
<1> DEFINE S == TargetsOf(c) \cap Egress
<1>a. /\ cycle[c] = "targets" /\ scheduler = "running" /\ cycle' = [cycle EXCEPT ![c] = "egress"]
      /\ task' = [k \in Targets |-> IF k \in S THEN "waitG" ELSE task[k]]
      /\ queue' = queue \o SetToSeq(S)
      /\ UNCHANGED <<late, outcome, child, permits, tpermits, tqueue, answered, verdict, schedule, stop>>
      /\ UNCHANGED <<scheduler, strays, restarts>>
  BY DEF TargetsEnded, stop
<1>b. /\ task \in [Targets -> {"off", "waitT", "waitG", "request", "spawn", "match", "reap", "done"}]
      /\ cycle \in [Checks -> {"idle", "targets", "egress"}] /\ Of \in [Targets -> Checks]
      /\ queue \in Seq(Targets) /\ tqueue \in Seq(Throughput)
  BY ConfigAssumption DEF TypeOK
<1>c. S \in SUBSET Targets /\ S \cap Throughput = {} /\ \A k \in S : task[k] = "off" /\ Of[k] = c
  BY <1>a DEF TargetsOf, Egress, Throughput, PlaceInv, PlaceAt
<1>d. \A k \in Targets : cycle'[Of[k]] = IF Of[k] = c THEN "egress" ELSE cycle[Of[k]]
  BY <1>a, <1>b
<1>e. \A k \in Targets : task'[k] = IF k \in S THEN "waitG" ELSE task[k]
  BY <1>a
<1>f. S \subseteq Egress
  OBVIOUS
<1> HIDE DEF S
<1>g. /\ queue' \in Seq(Targets) /\ Distinct(queue')
      /\ \A i \in 1..Len(queue') : queue'[i] \in S \/ \E j \in 1..Len(queue) : queue'[i] = queue[j]
  <2>1. IsFiniteSet(S)
    BY <1>c, FS_Subset, ConfigAssumption
  <2>2. \A i \in 1..Len(queue) : queue[i] \notin S
    BY <1>c DEF QueueInv, Waits
  <2>3. Distinct(queue)
    BY DEF QueueInv
  <2>4. /\ queue \o SetToSeq(S) \in Seq(Targets) /\ Distinct(queue \o SetToSeq(S))
        /\ \A i \in 1..Len(queue \o SetToSeq(S)) :
              \/ (queue \o SetToSeq(S))[i] \in S
              \/ \E j \in 1..Len(queue) : (queue \o SetToSeq(S))[i] = queue[j]
    BY <1>b, <1>c, <2>1, <2>2, <2>3, SetJoins
  <2>5. queue' = queue \o SetToSeq(S)
    BY <1>a
  <2> QED BY <2>4, <2>5, Zenon
<1>1. TypeOK'
  BY <1>a, <1>b, <1>g DEF TypeOK, schedule
<1>2. PlaceInv'
  <2> SUFFICES ASSUME NEW k \in Targets
               PROVE  PlaceAt(k)'
    BY DEF PlaceInv
  <2>1. PlaceAt(k)
    BY DEF PlaceInv
  <2>2. UNCHANGED <<late, outcome, child, answered, scheduler>> /\ scheduler = "running"
    BY <1>a
  <2>3. CASE k \in S
    <3>1. k \notin Health /\ k \notin Throughput
      BY <1>c, <1>f, <2>3 DEF Health
    <3>2. task'[k] = "waitG" /\ task[k] = "off" /\ cycle'[Of[k]] = "egress"
      BY <1>c, <1>d, <1>e, <2>3
    <3> QED BY <2>1, <2>2, <3>1, <3>2 DEF PlaceAt
  <2>4. CASE k \notin S
    <3>1. task'[k] = task[k]
      BY <1>e, <2>4
    <3>2. Of[k] = c => cycle[Of[k]] = "targets" /\ cycle'[Of[k]] = "egress"
      BY <1>a, <1>d
    <3>3. Of[k] # c => cycle'[Of[k]] = cycle[Of[k]]
      BY <1>d
    <3> QED BY <2>1, <2>2, <3>1, <3>2, <3>3 DEF PlaceAt
  <2> QED BY <2>3, <2>4
<1>3. PermitInv'
  <2>1. Holding' = Holding
    BY <1>c, <1>e DEF Holding
  <2>2. HoldingThroughput' = HoldingThroughput
    BY <1>c, <1>e DEF HoldingThroughput, Throughput
  <2> QED BY <1>a, <2>1, <2>2 DEF PermitInv
<1>4. QueueInv'
  <2>1. Waits(queue, "waitG")'
    <3> SUFFICES ASSUME NEW i \in 1..Len(queue')
                 PROVE  task'[queue'[i]] = "waitG"
      BY DEF Waits
    <3>1. queue'[i] \in Targets
      BY <1>g, ElementOfSeq
    <3>2. queue'[i] \in S \/ task[queue'[i]] = "waitG"
      BY <1>g DEF QueueInv, Waits
    <3> QED BY <1>e, <3>1, <3>2
  <2>2. Waits(tqueue, "waitT")'
    <3> SUFFICES ASSUME NEW i \in 1..Len(tqueue)
                 PROVE  task'[tqueue[i]] = "waitT"
      BY <1>a DEF Waits
    <3>1. tqueue[i] \in Throughput /\ task[tqueue[i]] = "waitT"
      BY <1>b, ElementOfSeq DEF QueueInv, Waits
    <3> QED BY <1>c, <1>e, <3>1 DEF Throughput
  <2> QED BY <1>a, <1>g, <2>1, <2>2 DEF QueueInv
<1>5. StrayInv'
  BY <1>a, StraysUndisturbed
<1>6. VerdictInv'
  <2>1. \A d \in Checks : cycle'[d] = IF d = c THEN "egress" ELSE cycle[d]
    BY <1>a, <1>b
  <2>2. UNCHANGED <<answered, verdict>>
    BY <1>a
  <2> QED BY <1>a, <2>1, <2>2 DEF VerdictInv, VerdictSound
<1> QED BY <1>1, <1>2, <1>3, <1>4, <1>5, <1>6

\* The time left until a first measurement is due
LEMMA LeftType ==
    ASSUME TypeOK, NEW k \in Throughput, NEW force \in BOOLEAN
    PROVE  /\ Left(k) \in 0..Interval
           /\ NewLeft(k, force) \in Ages
           /\ left[k] # None => NewLeft(k, force) \in {left[k], None}
<1>1. /\ clock \in Int /\ Offset[k] \in Int /\ Interval \in Nat \ {0}
      /\ left[k] \in Ages /\ None \notin Nat
  BY ConfigAssumption DEF TypeOK, Throughput
<1>2. (clock - Offset[k]) % Interval \in 0..(Interval - 1)
  BY <1>1
<1>3. FirstDue(k) \in 0..Interval
  BY <1>1, <1>2 DEF FirstDue
<1>4. Left(k) \in 0..Interval
  BY <1>1, <1>3 DEF Left, Ages
<1> QED BY <1>1, <1>4 DEF NewLeft, Ages, Left

\* A cycle begins: none of its targets is anywhere yet.
LEMMA BeginSafe ==
    ASSUME CheckerInv, NEW c \in Checks, NEW force \in BOOLEAN, Begin(c, force)
    PROVE  CheckerInv'
<1> USE DEF CheckerInv
<1> DEFINE mine == TargetsOf(c) \ Egress
           skip == {k \in mine \cap Throughput : Plan(k, force) # "run"}
           G == mine \ Throughput
           T == (mine \cap Throughput) \ skip
<1>a. /\ cycle[c] = "idle" /\ scheduler = "running" /\ cycle' = [cycle EXCEPT ![c] = "targets"]
      /\ task' = [k \in Targets |->
                 IF k \notin mine THEN task[k]
                 ELSE IF k \in skip THEN "done"
                 ELSE IF k \in Throughput THEN "waitT" ELSE "waitG"]
      /\ outcome' = [k \in Targets |-> IF k \in skip THEN Plan(k, force) ELSE outcome[k]]
      /\ queue' = queue \o SetToSeq(G) /\ tqueue' = tqueue \o SetToSeq(T)
      /\ left' = [k \in Throughput |-> IF k \in mine THEN NewLeft(k, force) ELSE left[k]]
      /\ answered' = answered \ TargetsOf(c) /\ verdict' = [verdict EXCEPT ![c] = "none"]
      /\ UNCHANGED <<late, child, permits, tpermits, clock, age, fresh, stop>>
      /\ UNCHANGED <<scheduler, strays, restarts>>
  BY DEF Begin, stop
<1>b. /\ task \in [Targets -> {"off", "waitT", "waitG", "request", "spawn", "match", "reap", "done"}]
      /\ cycle \in [Checks -> {"idle", "targets", "egress"}] /\ Of \in [Targets -> Checks]
      /\ verdict \in [Checks -> {"none", "success", "failure", "error"}]
      /\ queue \in Seq(Targets) /\ tqueue \in Seq(Throughput)
      /\ outcome \in [Targets -> {"none", "success", "failure", "error", "cached", "unknown"}]
  BY ConfigAssumption DEF TypeOK
<1>c. \A k \in TargetsOf(c) : k \in Targets /\ task[k] = "off" /\ Of[k] = c
  BY <1>a DEF TargetsOf, PlaceInv, PlaceAt
<1>d. \A k \in skip : k \in Throughput /\ Plan(k, force) \in {"cached", "unknown"}
  BY DEF Plan
<1>e. mine \subseteq TargetsOf(c) /\ skip \subseteq mine /\ mine \cap Egress = {}
      /\ G \subseteq mine /\ T \subseteq mine /\ T \subseteq Throughput /\ G \cap Throughput = {}
      /\ T \cap skip = {} /\ \A k \in mine : k \in G \/ k \in T \/ k \in skip
  OBVIOUS
<1>f. \A k \in Targets : Of[k] = c <=> k \in TargetsOf(c)
  BY DEF TargetsOf
<1>g. \A k \in Targets : k \notin mine /\ Of[k] = c => k \in Egress
  BY DEF TargetsOf
<1> HIDE DEF mine, skip, G, T
<1>h. \A k \in Targets :
         /\ k \in skip => task'[k] = "done" /\ outcome'[k] = Plan(k, force)
         /\ k \in T => task'[k] = "waitT" /\ outcome'[k] = outcome[k]
         /\ k \in G => task'[k] = "waitG" /\ outcome'[k] = outcome[k]
         /\ k \notin mine => task'[k] = task[k] /\ outcome'[k] = outcome[k]
  BY <1>a, <1>d, <1>e
<1>i. \A d \in Checks : /\ cycle'[d] = IF d = c THEN "targets" ELSE cycle[d]
                        /\ verdict'[d] = IF d = c THEN "none" ELSE verdict[d]
  BY <1>a, <1>b
<1>j. /\ queue' \in Seq(Targets) /\ Distinct(queue')
      /\ \A i \in 1..Len(queue') : queue'[i] \in G \/ \E j \in 1..Len(queue) : queue'[i] = queue[j]
  <2>1. IsFiniteSet(G) /\ G \in SUBSET Targets
    BY <1>c, <1>e, FS_Subset, ConfigAssumption
  <2>2. \A i \in 1..Len(queue) : queue[i] \notin G
    BY <1>c, <1>e DEF QueueInv, Waits
  <2>3. Distinct(queue)
    BY DEF QueueInv
  <2>4. /\ queue \o SetToSeq(G) \in Seq(Targets) /\ Distinct(queue \o SetToSeq(G))
        /\ \A i \in 1..Len(queue \o SetToSeq(G)) :
              \/ (queue \o SetToSeq(G))[i] \in G
              \/ \E j \in 1..Len(queue) : (queue \o SetToSeq(G))[i] = queue[j]
    BY <1>b, <2>1, <2>2, <2>3, SetJoins
  <2>5. queue' = queue \o SetToSeq(G)
    BY <1>a
  <2> QED BY <2>4, <2>5, Zenon
<1>k. /\ tqueue' \in Seq(Throughput) /\ Distinct(tqueue')
      /\ \A i \in 1..Len(tqueue') :
            tqueue'[i] \in T \/ \E j \in 1..Len(tqueue) : tqueue'[i] = tqueue[j]
  <2>1. IsFiniteSet(T) /\ T \in SUBSET Throughput
    BY <1>c, <1>e, FS_Subset, ConfigAssumption DEF Throughput
  <2>2. \A i \in 1..Len(tqueue) : tqueue[i] \notin T
    BY <1>c, <1>e DEF QueueInv, Waits
  <2>3. Distinct(tqueue)
    BY DEF QueueInv
  <2>4. /\ tqueue \o SetToSeq(T) \in Seq(Throughput) /\ Distinct(tqueue \o SetToSeq(T))
        /\ \A i \in 1..Len(tqueue \o SetToSeq(T)) :
              \/ (tqueue \o SetToSeq(T))[i] \in T
              \/ \E j \in 1..Len(tqueue) : (tqueue \o SetToSeq(T))[i] = tqueue[j]
    BY <1>b, <2>1, <2>2, <2>3, SetJoins
  <2>5. tqueue' = tqueue \o SetToSeq(T)
    BY <1>a
  <2> QED BY <2>4, <2>5, Zenon
<1>1. TypeOK'
  <2>1. task' \in [Targets -> {"off", "waitT", "waitG", "request", "spawn", "match", "reap", "done"}]
    BY <1>a, <1>b
  <2>2. outcome' \in [Targets -> {"none", "success", "failure", "error", "cached", "unknown"}]
    BY <1>a, <1>b, <1>d
  <2>3. left' \in [Throughput -> Ages]
    BY <1>a, LeftType DEF TypeOK
  <2>4. cycle' \in [Checks -> {"idle", "targets", "egress"}]
        /\ verdict' \in [Checks -> {"none", "success", "failure", "error"}]
    BY <1>a, <1>b
  <2>5. answered' \in SUBSET Targets
    BY <1>a DEF TypeOK
  <2>6. UNCHANGED <<late, child, permits, tpermits, clock, age, fresh, scheduler, strays, restarts>>
    BY <1>a
  <2> QED BY <1>j, <1>k, <2>1, <2>2, <2>3, <2>4, <2>5, <2>6 DEF TypeOK
<1>2. PlaceInv'
  <2> SUFFICES ASSUME NEW k \in Targets
               PROVE  PlaceAt(k)'
    BY DEF PlaceInv
  <2>1. PlaceAt(k)
    BY DEF PlaceInv
  <2>2. /\ UNCHANGED <<late, child, scheduler>> /\ scheduler = "running"
        /\ answered' = answered \ TargetsOf(c)
    BY <1>a
  <2>3. CASE Of[k] # c
    <3>1. k \notin mine /\ k \notin TargetsOf(c)
      BY <1>e, <1>f, <2>3
    <3>2. task'[k] = task[k] /\ outcome'[k] = outcome[k] /\ cycle'[Of[k]] = cycle[Of[k]]
      BY <1>b, <1>h, <1>i, <2>3, <3>1
    <3>3. k \in answered' <=> k \in answered
      BY <2>2, <3>1
    <3> QED BY <2>1, <2>2, <3>2, <3>3 DEF PlaceAt
  <2>4. CASE Of[k] = c
    <3>1. task[k] = "off" /\ k \notin answered' /\ cycle'[Of[k]] = "targets"
      BY <1>c, <1>f, <1>i, <2>2, <2>4
    <3>2. CASE k \notin mine
      <4>1. k \in Egress /\ task'[k] = "off" /\ outcome'[k] = outcome[k]
        BY <1>g, <1>h, <2>4, <3>1, <3>2
      <4> QED BY <2>1, <2>2, <3>1, <4>1 DEF PlaceAt
    <3>3. CASE k \in G
      <4>1. task'[k] = "waitG" /\ outcome'[k] = outcome[k] /\ k \notin Egress
        BY <1>e, <1>h, <3>3
      <4> QED BY <2>1, <2>2, <3>1, <4>1 DEF PlaceAt
    <3>4. CASE k \in T
      <4>1. task'[k] = "waitT" /\ outcome'[k] = outcome[k] /\ k \notin Egress /\ k \in Throughput
        BY <1>e, <1>h, <3>4
      <4> QED BY <2>1, <2>2, <3>1, <4>1 DEF PlaceAt
    <3>5. CASE k \in skip
      <4>1. task'[k] = "done" /\ k \notin Egress /\ k \in Throughput /\ k \notin Health
        BY <1>d, <1>e, <1>h, <3>5 DEF Health
      <4> QED BY <2>1, <2>2, <3>1, <4>1 DEF PlaceAt
    <3> QED BY <1>e, <3>2, <3>3, <3>4, <3>5
  <2> QED BY <2>3, <2>4
<1>3. PermitInv'
  <2>1. Holding' = Holding
    <3>1. \A k \in Targets : task'[k] \in Active <=> task[k] \in Active
      BY <1>c, <1>e, <1>h DEF Active
    <3> QED BY <3>1 DEF Holding, Active
  <2>2. HoldingThroughput' = HoldingThroughput
    <3>1. \A k \in Throughput : task'[k] \in {"waitG", "request"} <=> task[k] \in {"waitG", "request"}
      BY <1>c, <1>e, <1>h DEF Throughput
    <3> QED BY <3>1 DEF HoldingThroughput
  <2> QED BY <1>a, <2>1, <2>2 DEF PermitInv
<1>4. QueueInv'
  <2>1. Waits(queue, "waitG")'
    <3> SUFFICES ASSUME NEW i \in 1..Len(queue')
                 PROVE  task'[queue'[i]] = "waitG"
      BY DEF Waits
    <3>1. queue'[i] \in Targets
      BY <1>j, ElementOfSeq
    <3>2. queue'[i] \in G \/ task[queue'[i]] = "waitG"
      BY <1>j DEF QueueInv, Waits
    <3> QED BY <1>c, <1>e, <1>h, <3>1, <3>2
  <2>2. Waits(tqueue, "waitT")'
    <3> SUFFICES ASSUME NEW i \in 1..Len(tqueue')
                 PROVE  task'[tqueue'[i]] = "waitT"
      BY DEF Waits
    <3>1. tqueue'[i] \in Targets
      BY <1>k, ElementOfSeq DEF Throughput
    <3>2. tqueue'[i] \in T \/ task[tqueue'[i]] = "waitT"
      BY <1>k DEF QueueInv, Waits
    <3> QED BY <1>c, <1>e, <1>h, <3>1, <3>2
  <2> QED BY <1>j, <1>k, <2>1, <2>2 DEF QueueInv
<1>5. StrayInv'
  BY <1>a, StraysUndisturbed
<1>6. VerdictInv'
  <2>1. \A d \in Checks \ {c} : answered' \cap TargetsOf(d) = answered \cap TargetsOf(d)
    BY <1>a DEF TargetsOf
  <2>2. answered' \subseteq answered
    BY <1>a
  <2>3. VerdictSound'
    <3> SUFFICES ASSUME NEW d \in Checks, cycle'[d] = "idle"
                 PROVE  LET good == Cardinality(answered' \cap TargetsOf(d))
                        IN /\ verdict'[d] = "success" => good >= Quorum[d]
                           /\ verdict'[d] = "failure" => good < Quorum[d]
      BY DEF VerdictSound
    <3>1. d # c /\ cycle[d] = "idle" /\ verdict'[d] = verdict[d]
      BY <1>i
    <3> QED BY <2>1, <3>1 DEF VerdictInv, VerdictSound
  <2> QED BY <1>i, <2>2, <2>3 DEF VerdictInv
<1> QED BY <1>1, <1>2, <1>3, <1>4, <1>5, <1>6

\* A cycle ends: its verdict is that of what its own health targets have found, which
\* is what answered says of them.
LEMMA EndSafe ==
    ASSUME CheckerInv, NEW c \in Checks, End(c)
    PROVE  CheckerInv'
<1> USE DEF CheckerInv
<1> DEFINE ran(k) == outcome[k] \notin {"cached", "unknown"}
           found(b) == [k \in Targets |->
                 IF b /\ k \in TargetsOf(c) /\ ran(k) THEN "error" ELSE outcome[k]]
           mine == TargetsOf(c) \cap Health
<1>a. /\ cycle[c] = "egress" /\ scheduler = "running" /\ cycle' = [cycle EXCEPT ![c] = "idle"]
      /\ fresh' = [k \in Throughput |-> IF Of[k] = c THEN None ELSE fresh[k]]
      /\ task' = [k \in Targets |-> IF Of[k] = c THEN "off" ELSE task[k]]
      /\ outcome' = [k \in Targets |-> IF Of[k] = c THEN "none" ELSE outcome[k]]
      /\ UNCHANGED <<late, child, semaphores, answered, clock, left, stop>>
      /\ UNCHANGED <<permits, tpermits, queue, tqueue, scheduler, strays, restarts>>
  BY DEF End, stop, semaphores
<1>b. PICK broken \in BOOLEAN :
         /\ verdict' = [verdict EXCEPT ![c] = Verdict(c, found(broken))]
         /\ age' = [k \in Throughput |->
                 IF Of[k] = c /\ ran(k) THEN (IF broken THEN 0 ELSE fresh[k]) ELSE age[k]]
  BY DEF End
<1>c. /\ task \in [Targets -> {"off", "waitT", "waitG", "request", "spawn", "match", "reap", "done"}]
      /\ cycle \in [Checks -> {"idle", "targets", "egress"}] /\ Of \in [Targets -> Checks]
      /\ verdict \in [Checks -> {"none", "success", "failure", "error"}]
      /\ outcome \in [Targets -> {"none", "success", "failure", "error", "cached", "unknown"}]
  BY ConfigAssumption DEF TypeOK
<1>d. \A k \in Targets : Of[k] = c => task[k] = "done"
  BY DEF End, Ended, TargetsOf
<1>e. \A k \in Targets :
         /\ Of[k] = c => task'[k] = "off" /\ outcome'[k] = "none" /\ cycle'[Of[k]] = "idle"
         /\ Of[k] # c => task'[k] = task[k] /\ outcome'[k] = outcome[k] /\ cycle'[Of[k]] = cycle[Of[k]]
  BY <1>a, <1>c
<1>f. Verdict(c, found(broken)) \in {"success", "failure", "error"}
  BY DEF Verdict
<1>1. TypeOK'
  <2>1. age' \in [Throughput -> Ages]
    BY <1>b, ConfigAssumption DEF TypeOK, Ages
  <2>2. fresh' \in [Throughput -> Ages]
    BY <1>a DEF TypeOK, Ages
  <2>3. verdict' \in [Checks -> {"none", "success", "failure", "error"}]
    BY <1>b, <1>c, <1>f
  <2>4. /\ task' \in [Targets -> {"off", "waitT", "waitG", "request", "spawn", "match", "reap", "done"}]
        /\ outcome' \in [Targets -> {"none", "success", "failure", "error", "cached", "unknown"}]
        /\ cycle' \in [Checks -> {"idle", "targets", "egress"}]
    BY <1>a, <1>c
  <2> QED BY <1>a, <2>1, <2>2, <2>3, <2>4 DEF TypeOK
<1>2. PlaceInv'
  <2> SUFFICES ASSUME NEW k \in Targets
               PROVE  PlaceAt(k)'
    BY DEF PlaceInv
  <2>1. PlaceAt(k)
    BY DEF PlaceInv
  <2>2. UNCHANGED <<late, child, scheduler, answered>> /\ scheduler = "running"
    BY <1>a
  <2>3. CASE Of[k] = c
    <3>1. child[k] = "none"
      BY <1>d, <2>1, <2>3 DEF PlaceAt
    <3> QED BY <1>e, <2>2, <2>3, <3>1 DEF PlaceAt
  <2>4. CASE Of[k] # c
    BY <1>e, <2>1, <2>2, <2>4 DEF PlaceAt
  <2> QED BY <2>3, <2>4
<1>3. PermitInv'
  <2>1. Holding' = Holding
    BY <1>d, <1>e DEF Holding
  <2>2. HoldingThroughput' = HoldingThroughput
    BY <1>d, <1>e DEF HoldingThroughput, Throughput
  <2> QED BY <1>a, <2>1, <2>2 DEF PermitInv
<1>4. QueueInv'
  <2>1. Waits(queue, "waitG")'
    <3> SUFFICES ASSUME NEW i \in 1..Len(queue)
                 PROVE  task'[queue[i]] = "waitG"
      BY <1>a DEF Waits
    <3>1. queue[i] \in Targets /\ task[queue[i]] = "waitG"
      BY ElementOfSeq DEF TypeOK, QueueInv, Waits
    <3> QED BY <1>d, <1>e, <3>1
  <2>2. Waits(tqueue, "waitT")'
    <3> SUFFICES ASSUME NEW i \in 1..Len(tqueue)
                 PROVE  task'[tqueue[i]] = "waitT"
      BY <1>a DEF Waits
    <3>1. tqueue[i] \in Targets /\ task[tqueue[i]] = "waitT"
      BY ElementOfSeq DEF TypeOK, QueueInv, Waits, Throughput
    <3> QED BY <1>d, <1>e, <3>1
  <2> QED BY <1>a, <2>1, <2>2 DEF QueueInv, Distinct
<1>5. StrayInv'
  BY <1>a, StraysUndisturbed
<1>6. VerdictInv'
  <2> DEFINE good == Cardinality(answered \cap TargetsOf(c))
             v == Verdict(c, found(broken))
  <2>1. (v = "success" => good >= Quorum[c]) /\ (v = "failure" => good < Quorum[c])
    <3>1. Quorum[c] \in Nat /\ Quorum[c] >= 1 /\ Quorum[c] <= Cardinality(mine)
          /\ IsFiniteSet(mine) /\ Cardinality(mine) \in Nat
      <4>1. mine \in SUBSET Targets
        BY DEF TargetsOf
      <4>2. IsFiniteSet(mine)
        BY <4>1, FS_Subset, ConfigAssumption
      <4>3. Cardinality(mine) \in Nat
        BY <4>2, FS_CardinalityType
      <4>4. Quorum[c] \in 1..Cardinality(mine)
        BY ConfigAssumption
      <4> QED BY <4>2, <4>3, <4>4
    <3>2. CASE ~broken
      <4>1. \A k \in mine : k \in answered <=> outcome[k] = "success"
        BY <1>a, <1>d DEF PlaceInv, PlaceAt, TargetsOf
      <4>2. \A k \in mine : found(broken)[k] = outcome[k]
        BY <3>2 DEF TargetsOf
      <4>3. {k \in mine : found(broken)[k] = "success"} = answered \cap TargetsOf(c)
        BY <4>1, <4>2 DEF VerdictInv
      <4>4. IsFiniteSet(answered \cap TargetsOf(c))
        BY FS_Subset, ConfigAssumption DEF TargetsOf
      <4>5. good \in Nat
        BY <4>4, FS_CardinalityType
      <4>6. v = "success" <=> good >= Quorum[c]
        BY <4>3 DEF Verdict
      <4> HIDE DEF good, v
      <4> QED BY <3>1, <4>5, <4>6
    <3>3. CASE broken
      <4>1. \A k \in mine : found(broken)[k] = "error"
        BY <3>3 DEF PlaceInv, PlaceAt, TargetsOf, Health
      <4>2. mine # {}
        BY <3>1, FS_EmptySet
      <4>3. {k \in mine : found(broken)[k] = "success"} = {}
        BY <4>1
      <4>4. Cardinality({k \in mine : found(broken)[k] = "success"}) = 0
        BY <4>3, FS_EmptySet
      <4>5. ~(Cardinality({k \in mine : found(broken)[k] = "success"}) >= Quorum[c])
        BY <3>1, <4>4
      <4>6. \E k \in mine : found(broken)[k] = "error"
        BY <4>1, <4>2
      <4>7. v = "error"
        BY <4>5, <4>6 DEF Verdict
      <4> QED BY <4>7
    <3> QED BY <3>2, <3>3
  <2>2. \A d \in Checks : /\ cycle'[d] = IF d = c THEN "idle" ELSE cycle[d]
                          /\ verdict'[d] = IF d = c THEN v ELSE verdict[d]
    BY <1>a, <1>b, <1>c
  <2>3. answered' = answered
    BY <1>a
  <2> HIDE DEF v
  <2> QED BY <2>1, <2>2, <2>3 DEF VerdictInv, VerdictSound
<1> QED BY <1>1, <1>2, <1>3, <1>4, <1>5, <1>6

LEMMA InitSafe ==
    ASSUME Init
    PROVE  CheckerInv
<1>1. TypeOK
  <2>1. queue \in Seq(Targets) /\ tqueue \in Seq(Throughput)
    BY EmptySeq DEF Init
  <2> QED BY <2>1, ConfigAssumption DEF Init, TypeOK, Ages
<1>2. PlaceInv
  BY ConfigAssumption DEF Init, PlaceInv, PlaceAt
<1>3. PermitInv
  <2>1. Holding = {} /\ HoldingThroughput = {}
    BY DEF Init, Holding, HoldingThroughput, Throughput
  <2> QED BY <2>1, FS_EmptySet, ConfigAssumption DEF Init, PermitInv
<1>4. QueueInv
  <2>1. Len(queue) = 0 /\ Len(tqueue) = 0
    BY EmptySeq DEF Init
  <2> QED BY <2>1 DEF QueueInv, Distinct, Waits
<1>5. StrayInv
  BY FS_EmptySet DEF Init, StrayInv
<1>6. VerdictInv
  BY DEF Init, VerdictInv, VerdictSound
<1> QED BY <1>1, <1>2, <1>3, <1>4, <1>5, <1>6 DEF CheckerInv

LEMMA StutterSafe ==
    ASSUME CheckerInv, UNCHANGED vars
    PROVE  CheckerInv'
<1>1. /\ UNCHANGED <<cycle, task, late, outcome, child, semaphores, answered, verdict, stop>>
      /\ UNCHANGED <<clock, age, fresh, left>>
  BY DEF vars, semaphores, stop
<1>2. /\ clock' \in 0..(Interval - 1) /\ age' \in [Throughput -> Ages]
      /\ fresh' \in [Throughput -> Ages] /\ left' \in [Throughput -> Ages]
  BY <1>1 DEF CheckerInv, TypeOK
<1> QED BY <1>1, <1>2, ScheduleMoves

\* The inductive invariant of the checker: where targets can be, which of them the
\* queues and the permits are about, and what answered and the verdicts are worth.
THEOREM CheckerInvariant == Spec => []CheckerInv
<1>1. Init => CheckerInv
  BY InitSafe
<1>2. CheckerInv /\ [Next]_vars => CheckerInv'
  <2> SUFFICES ASSUME CheckerInv, [Next]_vars
               PROVE  CheckerInv'
    OBVIOUS
  <2>1. ASSUME NEW c \in Checks, NEW force \in BOOLEAN, Begin(c, force) PROVE CheckerInv'
    BY <2>1, BeginSafe
  <2>2. ASSUME NEW c \in Checks, CycleStep(c) \/ Forget(c) PROVE CheckerInv'
    BY <2>2, TargetsEndedSafe, EndSafe, CancelledSafe, ForgetSafe DEF CycleStep
  <2>3. ASSUME NEW k \in Targets, AcquireThroughput(k) \/ Acquire(k) \/ ChildExits(k) PROVE CheckerInv'
    BY <2>3, AcquireThroughputSafe, AcquireSafe, ChildExitsSafe
  <2>4. ASSUME NEW k \in Targets, TargetStep(k) PROVE CheckerInv'
    BY <2>4, RespondSafe, EgressRespondsSafe, SpawnedSafe, MatchedSafe, TimeoutSafe, ReapedSafe
       DEF TargetStep
  <2>5. ASSUME NEW o \in strays, Stray(o) PROVE CheckerInv'
    BY <2>5, StraySafe
  <2>6. CASE Stop \/ NewChecker \/ Tick
    BY <2>6, StopSafe, NewCheckerSafe, TickSafe
  <2>7. CASE UNCHANGED vars
    BY <2>7, StutterSafe
  <2> QED BY <2>1, <2>2, <2>3, <2>4, <2>5, <2>6, <2>7 DEF Next
<1> QED BY <1>1, <1>2, PTL DEF Spec

\* Whatever way a target takes out, its permits come back; a child exists only
\* while its target holds a permit; and a checker leaves behind no more matchers
\* than it had permits (_start_regex_process, _wait_killed, check_target).
THEOREM NothingLeaksAlways == Spec => []NothingLeaks
<1>1. CheckerInv => NothingLeaks
  BY DEF CheckerInv, PermitInv, PlaceInv, PlaceAt, StrayInv, StraysOf, NothingLeaks, Holding
<1> QED BY <1>1, CheckerInvariant, PTL

\* A verdict rests on the answers of its own cycle (check_target_set).
THEOREM VerdictSoundAlways == Spec => []VerdictSound
<1>1. CheckerInv => VerdictSound
  BY DEF CheckerInv, VerdictInv
<1> QED BY <1>1, CheckerInvariant, PTL

\* A first measurement that has been put off is not put off further
\* (_throughput_initial_due).
THEOREM DeferralShrinksAlways == Spec => DeferralShrinks
<1> DEFINE A == \A k \in Throughput : left[k] # None /\ left'[k] # None => left'[k] <= left[k]
<1>1. CheckerInv /\ [Next]_vars => [A]_vars
  <2> SUFFICES ASSUME CheckerInv, Next, NEW k \in Throughput, left[k] # None, left'[k] # None
               PROVE  left'[k] <= left[k]
    OBVIOUS
  <2>1. TypeOK /\ left[k] \in Nat
    BY ConfigAssumption DEF CheckerInv, TypeOK, Ages
  <2>2. ASSUME NEW c \in Checks, NEW force \in BOOLEAN, Begin(c, force) PROVE left'[k] <= left[k]
    <3>1. left'[k] \in {NewLeft(k, force), left[k]}
      BY <2>2 DEF Begin
    <3> QED BY <2>1, <3>1, LeftType
  <2>3. CASE Tick
    BY <2>1, <2>3 DEF Tick
  <2>4. CASE NewChecker
    BY <2>4 DEF NewChecker
  <2>5. CASE left' = left
    BY <2>1, <2>5
  <2>6. ASSUME NEW j \in Targets, TargetStep(j) PROVE left' = left
    BY <2>6 DEF TargetStep, Respond, EgressResponds, Spawned, Matched, Timeout, Reaped
  <2>7. ASSUME NEW j \in Targets, AcquireThroughput(j) \/ Acquire(j) \/ ChildExits(j) PROVE left' = left
    BY <2>7 DEF AcquireThroughput, Acquire, ChildExits, schedule
  <2>8. ASSUME NEW c \in Checks, CycleStep(c) \/ Forget(c) PROVE left' = left
    BY <2>8 DEF CycleStep, TargetsEnded, End, Cancelled, Forget, schedule
  <2>9. ASSUME Stop \/ \E o \in strays : Stray(o) PROVE left' = left
    BY <2>9 DEF Stop, Stray, schedule
  <2> QED BY <2>2, <2>3, <2>4, <2>5, <2>6, <2>7, <2>8, <2>9 DEF Next
<1> QED BY <1>1, CheckerInvariant, PTL DEF Spec, DeferralShrinks
=============================================================================
