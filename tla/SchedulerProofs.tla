--------------------------- MODULE SchedulerProofs ---------------------------
(***************************************************************************)
(* Proofs about Scheduler, for every number of checks, workers, callers    *)
(* and queue slots.                                                        *)
(***************************************************************************)
EXTENDS Scheduler, TLAPS

\* What Append does to a sequence of items.
LEMMA AppendFacts ==
    ASSUME NEW S, NEW q \in Seq(S), NEW e \in S
    PROVE  /\ Append(q, e) \in Seq(S)
           /\ Len(Append(q, e)) = Len(q) + 1
           /\ DOMAIN Append(q, e) = 1..(Len(q) + 1)
           /\ DOMAIN q = 1..Len(q) /\ Len(q) \in Nat
           /\ \A k \in 1..Len(q) : Append(q, e)[k] = q[k] /\ q[k] \in S
           /\ Append(q, e)[Len(q) + 1] = e
OBVIOUS

\* What taking the head off a sequence of items leaves.
LEMMA TailFacts ==
    ASSUME NEW S, NEW q \in Seq(S), q # <<>>
    PROVE  /\ Tail(q) \in Seq(S)
           /\ Head(q) = q[1] /\ Head(q) \in S /\ 1 \in DOMAIN q
           /\ Len(q) \in Nat /\ Len(q) >= 1 /\ Len(Tail(q)) = Len(q) - 1
           /\ DOMAIN Tail(q) = 1..(Len(q) - 1)
           /\ DOMAIN q = 1..Len(q)
           /\ \A k \in 1..(Len(q) - 1) : Tail(q)[k] = q[k + 1]
OBVIOUS

\* The records that stand for producer tasks are producers.
LEMMA ProducerRecords ==
    /\ NoProducer \in Producer /\ NoProducer.pc = "none" /\ NoProducer.job = NoJob
    /\ \A j \in Job : /\ NewProducer(j) \in Producer
                      /\ NewProducer(j).job = j /\ NewProducer(j).pc = "sleep"
    /\ \A p \in Producer :
          /\ Cancel(p) \in Producer /\ Cancel(p).job = p.job /\ Cancel(p).pc = p.pc
          /\ [p EXCEPT !.pc = "sleep", !.cancel = "no"] \in Producer
          /\ [p EXCEPT !.pc = "sleep", !.cancel = "no"].job = p.job
          /\ [p EXCEPT !.pc = "sleep", !.cancel = "no"].pc = "sleep"
          /\ \A i \in Ids : AfterReport(i, p) \in Producer
BY DEF Producer, NoProducer, NewProducer, Cancel, AfterReport

\* The records that stand for worker tasks are workers.
LEMMA WorkerRecords ==
    /\ NoWorker \in Worker /\ NoWorker.pc = "none" /\ NoWorker.item = NoItem
    /\ IdleWorker \in Worker /\ IdleWorker.pc = "get" /\ IdleWorker.item = NoItem
    /\ \A w \in Worker : /\ Cancel(w) \in Worker /\ Cancel(w).item = w.item
                         /\ Cancel(w).pc = w.pc
    /\ \A e \in Item : [pc |-> "run", item |-> e, cancel |-> "no"] \in Worker
BY DEF Worker, NoWorker, IdleWorker, Cancel

\* The queue after a get and after a put.
LEMMA QueueItems ==
    ASSUME TypeOK
    PROVE  /\ queue # <<>> => /\ Head(queue) \in Item /\ Tail(queue) \in Seq(Item)
                              /\ Head(queue).id \in Ids /\ Head(queue).gen \in Gens
           /\ \A i \in Ids, g \in Gens, f \in Futures \cup {NoFuture} :
                 /\ WorkItem(i, g, f) \in Item
                 /\ WorkItem(i, g, f).id = i /\ WorkItem(i, g, f).gen = g
                 /\ WorkItem(i, g, f).fut = f
                 /\ Append(queue, WorkItem(i, g, f)) \in Seq(Item)
<1>1. queue \in Seq(Item)
      BY DEF TypeOK
<1>2. ASSUME queue # <<>>
      PROVE  Head(queue) \in Item /\ Tail(queue) \in Seq(Item)
      BY <1>1, <1>2
<1>3. \A e \in Item : e.id \in Ids /\ e.gen \in Gens
      BY DEF Item
<1>4. \A i \in Ids, g \in Gens, f \in Futures \cup {NoFuture} :
         /\ WorkItem(i, g, f) \in Item /\ WorkItem(i, g, f).id = i
         /\ WorkItem(i, g, f).gen = g /\ WorkItem(i, g, f).fut = f
      BY DEF Item, WorkItem
<1>5. \A e \in Item : Append(queue, e) \in Seq(Item)
      BY <1>1
<1>. QED  BY <1>2, <1>3, <1>4, <1>5

\* The types of what a put changes.
LEMMA PutItem ==
    ASSUME TypeOK, NEW i \in Ids, NEW g \in Gens, NEW f \in Futures \cup {NoFuture},
           Put(WorkItem(i, g, f))
    PROVE  /\ queue' \in Seq(Item) /\ queued' \subseteq Ids
           /\ queuedGen' \in [Ids -> Gens \cup {Unknown}]
<1>1. queue' \in Seq(Item)
      BY QueueItems DEF Put
<1>2. queued' = queued \cup {i} /\ queuedGen' = [queuedGen EXCEPT ![i] = g]
      BY DEF Put, WorkItem
<1>. QED  BY <1>1, <1>2 DEF TypeOK

-----------------------------------------------------------------------------
\* The types, and with them: a busy worker has an item and a live producer a
\* job, through every interleaving of the tasks.
LEMMA TypeInductive == TypeOK /\ [Next]_vars => TypeOK'
<1> SUFFICES ASSUME TypeOK, [Next]_vars PROVE TypeOK'
    OBVIOUS
<1> USE LimitsPositive, Markers DEF TypeOK, Busy
<1>1. CASE Start
      BY <1>1 DEF Start, IdleWorker, NewProducer, Worker, Producer
<1>2. CASE Stop
  <2>0. /\ producer' = [i \in Ids |-> Cancel(producer[i])]
        /\ \A i \in Ids : producer[i] \in Producer
        BY <1>2 DEF Stop
  <2>a. \A i \in Ids : /\ Cancel(producer[i]) \in Producer
                      /\ Cancel(producer[i]).pc = producer[i].pc
                      /\ Cancel(producer[i]).job = producer[i].job
        BY <2>0, ProducerRecords
  <2>1. /\ producer' \in [Ids -> Producer]
        /\ \A i \in Ids : producer'[i].pc # "none" <=> producer'[i].job # NoJob
        BY <2>0, <2>a
  <2>2. /\ worker' \in [Workers -> Worker]
        /\ \A w \in Workers : Busy(w)' <=> worker'[w].item # NoItem
        BY <1>2, WorkerRecords DEF Stop
  <2>. QED  BY <1>2, <2>1, <2>2 DEF Stop
<1>3. CASE StopDone
  <2>1. fut' \in [Futures -> FutureState]
        BY <1>3 DEF StopDone, FuturesAfterDrain, FutureState
  <2>2. queue' \in Seq(Item) /\ queued' \subseteq Ids /\ running' \subseteq Ids
        BY <1>3 DEF StopDone
  <2>. QED  BY <1>3, <2>1, <2>2 DEF StopDone
<1>4. CASE UpdateDone
      BY <1>4 DEF UpdateDone
<1>5. ASSUME NEW desired \in [Ids -> Job \cup {NoJob}], Update(desired)
      PROVE  TypeOK'
  <2>1. known' \in [Ids -> Gens \cup {Removed, Unknown}]
        BY <1>5 DEF Update, KnownAfterUpdate, Job
  <2>2. producer' \in [Ids -> Producer] /\ draining' \in [Ids -> Producer]
        BY <1>5, ProducerRecords DEF Update
  <2>3. \A i \in Ids : producer'[i].pc # "none" <=> producer'[i].job # NoJob
        BY <1>5, ProducerRecords, NoJob \notin Job DEF Update, Job
  <2>. QED  BY <1>5, <2>1, <2>2, <2>3 DEF Update
<1>6. ASSUME NEW f \in Futures, Manual(f)
      PROVE  TypeOK'
  <2>1. ASSUME NEW i \in Ids, NEW g \in Gens, RunOnce(f, i, g)
        PROVE  TypeOK'
    <3>2. fut' \in [Futures -> FutureState]
          BY <2>1 DEF RunOnce, FutureState
    <3>3. /\ queue' \in Seq(Item) /\ queued' \subseteq Ids
          /\ queuedGen' \in [Ids -> Gens \cup {Unknown}]
          BY <2>1, PutItem DEF RunOnce
    <3>. QED  BY <2>1, <3>2, <3>3 DEF RunOnce
  <2>2. CASE CallerStep(f)
        BY <2>2 DEF CallerStep, FutureState
  <2>3. CASE CallerReturn(f)
        BY <2>3 DEF CallerReturn, FutureState
  <2>. QED  BY <1>6, <2>1, <2>2, <2>3 DEF Manual
<1>7. ASSUME NEW i \in Ids, ProducerTask(i) \/ DrainingEnds(i)
      PROVE  TypeOK'
  <2>1. CASE ProducerTick(i)
    <3>1. producer[i].job \in Job
          BY <2>1 DEF ProducerTick, Producer
    <3>2. producer[i].job.gen \in Gens
          BY <3>1 DEF Job
    <3>3. /\ queue' \in Seq(Item) /\ queued' \subseteq Ids
          /\ queuedGen' \in [Ids -> Gens \cup {Unknown}]
          BY <2>1, <3>2, PutItem DEF ProducerTick
    <3>4. \A pc \in {"sleep", "report"} :
             /\ [producer[i] EXCEPT !.pc = pc] \in Producer
             /\ [producer[i] EXCEPT !.pc = pc].job # NoJob
             /\ [producer[i] EXCEPT !.pc = pc].pc # "none"
          BY <2>1 DEF ProducerTick, Producer
    <3>5. \/ UNCHANGED producer
          \/ \E pc \in {"sleep", "report"} :
                producer' = [producer EXCEPT ![i] = [producer[i] EXCEPT !.pc = pc]]
          BY <2>1 DEF ProducerTick
    <3>6. /\ producer' \in [Ids -> Producer]
          /\ \A j \in Ids : producer'[j].pc # "none" <=> producer'[j].job # NoJob
      <4>1. CASE UNCHANGED producer
            BY <4>1
      <4>2. ASSUME NEW pc \in {"sleep", "report"},
                   producer' = [producer EXCEPT ![i] = [producer[i] EXCEPT !.pc = pc]]
            PROVE  /\ producer' \in [Ids -> Producer]
                   /\ \A j \in Ids : producer'[j].pc # "none" <=> producer'[j].job # NoJob
        <5> DEFINE p == [producer[i] EXCEPT !.pc = pc]
        <5>1. p \in Producer /\ p.pc # "none" /\ p.job # NoJob
              BY <3>4
        <5>2. producer' = [producer EXCEPT ![i] = p]
              BY <4>2
        <5> HIDE DEF p
        <5>. QED  BY <5>1, <5>2
      <4>. QED  BY <3>5, <4>1, <4>2
    <3>. QED  BY <2>1, <3>3, <3>6 DEF ProducerTick
  <2>2. CASE ProducerReported(i)
        BY <2>2, ProducerRecords DEF ProducerReported, AfterReport
  <2>3. CASE ProducerCancelled(i)
        BY <2>3 DEF ProducerCancelled, NoProducer, Producer
  <2>4. CASE DrainingEnds(i)
    <3>0. \/ draining' = [draining EXCEPT ![i] = NoProducer]
          \/ draining' = [draining EXCEPT ![i] = AfterReport(i, draining[i])]
          BY <2>4 DEF DrainingEnds
    <3>a. draining[i] \in Producer
          OBVIOUS
    <3>b. NoProducer \in Producer /\ AfterReport(i, draining[i]) \in Producer
          BY <3>a, ProducerRecords
    <3>1. draining' \in [Ids -> Producer]
          BY <3>0, <3>b
    <3>. QED  BY <2>4, <3>1 DEF DrainingEnds
  <2>. QED  BY <1>7, <2>1, <2>2, <2>3, <2>4 DEF ProducerTask
<1>8. ASSUME NEW w \in Workers, WorkerTask(w)
      PROVE  TypeOK'
  <2>0. ASSUME NEW outcome \in FutureState, NEW next \in {IdleWorker, NoWorker},
               Busy(w), Finish(w, outcome, next)
        PROVE  TypeOK'
    <3>1. worker[w].item \in Item
          BY <2>0 DEF Worker
    <3>2. fut' \in [Futures -> FutureState]
          BY <2>0 DEF Finish, Resolve, FutureState
    <3>3. known' \in [Ids -> Gens \cup {Removed, Unknown}]
          BY <2>0, <3>1 DEF Finish, ForgetRemoved, Item
    <3>4. running' \subseteq Ids /\ runningGen' \in [Ids -> Gens \cup {Unknown}]
          BY <2>0, <3>1 DEF Finish, Item
    <3>5. /\ worker' \in [Workers -> Worker]
          /\ \A v \in Workers : Busy(v)' <=> worker'[v].item # NoItem
          BY <2>0, WorkerRecords DEF Finish
    <3>. QED  BY <2>0, <3>2, <3>3, <3>4, <3>5 DEF Finish
  <2>1. CASE WorkerGet(w)
    <3>0. /\ Head(queue) \in Item /\ Tail(queue) \in Seq(Item)
          /\ Head(queue).id \in Ids /\ Head(queue).gen \in Gens
          BY <2>1, QueueItems DEF WorkerGet
    <3>1. /\ queue' \in Seq(Item) /\ queued' \subseteq Ids
          /\ queuedGen' \in [Ids -> Gens \cup {Unknown}]
          BY <2>1, <3>0 DEF WorkerGet
    <3>2. CASE IsObsolete(Head(queue))
          BY <2>1, <3>0, <3>1, <3>2 DEF WorkerGet, Resolve, FutureState, ForgetRemoved
    <3>3. CASE ~IsObsolete(Head(queue))
      <4>0. worker' = [worker EXCEPT ![w] =
                          [pc |-> "run", item |-> Head(queue), cancel |-> "no"]]
            BY <2>1, <3>3 DEF WorkerGet
      <4>a. Head(queue) # NoItem
            BY <3>0 DEF Item
      <4>1. /\ worker' \in [Workers -> Worker]
            /\ \A v \in Workers : Busy(v)' <=> worker'[v].item # NoItem
            BY <4>0, <4>a, <3>0, WorkerRecords
      <4>2. /\ running' \subseteq Ids /\ runningGen' \in [Ids -> Gens \cup {Unknown}]
            BY <2>1, <3>0, <3>3 DEF WorkerGet
      <4>. QED  BY <2>1, <3>1, <3>3, <4>1, <4>2 DEF WorkerGet
    <3>. QED  BY <3>2, <3>3
  <2>2. CASE RunnerReturns(w)
        BY <2>0, <2>2 DEF RunnerReturns, FutureState
  <2>3. CASE RunnerRaises(w)
        BY <2>3 DEF RunnerRaises, Worker
  <2>4. CASE WorkerReported(w)
        BY <2>0, <2>4 DEF WorkerReported, FutureState
  <2>5. CASE WorkerCancelled(w)
    <3>1. CASE worker[w].pc = "get"
          BY <2>5, <3>1, WorkerRecords DEF WorkerCancelled
    <3>2. CASE Busy(w)
          BY <2>0, <2>5, <3>2 DEF WorkerCancelled, FutureState
    <3>. QED  BY <2>5, <3>1, <3>2 DEF WorkerCancelled
  <2>. QED  BY <1>8, <2>1, <2>2, <2>3, <2>4, <2>5 DEF WorkerTask
<1>9. CASE UNCHANGED vars
      BY <1>9 DEF vars
<1>. QED  BY <1>1, <1>2, <1>3, <1>4, <1>5, <1>6, <1>7, <1>8, <1>9 DEF Next

\* The constructor leaves well-typed state.
LEMMA InitTypeOK == Init => TypeOK
<1> SUFFICES ASSUME Init PROVE TypeOK
    OBVIOUS
<1>1. /\ producer \in [Ids -> Producer] /\ draining \in [Ids -> Producer]
      /\ worker \in [Workers -> Worker]
      /\ \A i \in Ids : producer[i].pc # "none" <=> producer[i].job # NoJob
      /\ \A w \in Workers : Busy(w) <=> worker[w].item # NoItem
      BY ProducerRecords, WorkerRecords DEF Init, Busy
<1>2. queue \in Seq(Item) /\ queued \subseteq Ids /\ running \subseteq Ids
      BY DEF Init
<1>. QED  BY <1>1, <1>2 DEF Init, TypeOK, FutureState

\* Every variable keeps its type in every behaviour of the scheduler.
THEOREM TypeCorrect == Spec => []TypeOK
BY InitTypeOK, TypeInductive, PTL DEF Spec

-----------------------------------------------------------------------------
\* What the queue, the workers and the books kept of them say together.
Occupancy == NoOverlap /\ Bookkeeping /\ QueueBounded

\* A step that moves no item leaves the occupancy as it is.
LEMMA SameOccupancy ==
    ASSUME TypeOK, Occupancy,
           UNCHANGED <<queue, queued, queuedGen, running, runningGen>>,
           \A w \in Workers : /\ Busy(w)' <=> Busy(w)
                             /\ worker'[w].item = worker[w].item
    PROVE  Occupancy'
BY DEF Occupancy, NoOverlap, Bookkeeping, QueueBounded

\* Putting an item of a check that is neither queued nor running.
LEMMA PutOccupancy ==
    ASSUME TypeOK, Occupancy, NEW i \in Ids, NEW g \in Gens,
           NEW f \in Futures \cup {NoFuture},
           ~AlreadyScheduled(i), ~QueueFull, Put(WorkItem(i, g, f)),
           UNCHANGED <<worker, running, runningGen>>
    PROVE  Occupancy'
<1> DEFINE e == WorkItem(i, g, f)
<1>1. e \in Item /\ e.id = i /\ e.gen = g
      BY QueueItems
<1>2. queue \in Seq(Item)
      BY DEF TypeOK
<1>3. /\ queue' = Append(queue, e) /\ queued' = queued \cup {i}
      /\ queuedGen' = [queuedGen EXCEPT ![i] = g]
      BY <1>1 DEF Put
<1> HIDE DEF e
<1>4. /\ Len(queue) \in Nat /\ Len(queue') = Len(queue) + 1
      /\ DOMAIN queue = 1..Len(queue) /\ DOMAIN queue' = 1..(Len(queue) + 1)
      /\ \A k \in 1..Len(queue) : queue'[k] = queue[k] /\ queue[k] \in Item
      /\ queue'[Len(queue) + 1] = e
      BY <1>1, <1>2, <1>3, AppendFacts
<1>5. i \notin queued /\ i \notin running
      BY DEF AlreadyScheduled
<1>6. \A k \in DOMAIN queue : queue[k].id \in Ids /\ queue[k].id # i
      BY <1>4, <1>5 DEF Occupancy, Bookkeeping, Item
<1>7. \A w \in Workers : /\ Busy(w) => worker[w].item.id # i
                        /\ Busy(w)' <=> Busy(w)
      BY <1>5 DEF Occupancy, Bookkeeping, Busy
<1>8. NoOverlap'
      BY <1>1, <1>4, <1>6, <1>7 DEF Occupancy, NoOverlap
<1>9. Bookkeeping'
  <2>1. \A j \in Ids : j \in queued' <=> \E k \in DOMAIN queue' : queue'[k].id = j
        BY <1>1, <1>3, <1>4 DEF Occupancy, Bookkeeping
  <2>2. \A k \in DOMAIN queue' : queuedGen'[queue'[k].id] = queue'[k].gen
        BY <1>1, <1>3, <1>4, <1>6 DEF Occupancy, Bookkeeping, TypeOK
  <2>3. \A j \in Ids : j \notin queued' => queuedGen'[j] = Unknown
        BY <1>3 DEF Occupancy, Bookkeeping, TypeOK
  <2>. QED  BY <1>7, <2>1, <2>2, <2>3 DEF Occupancy, Bookkeeping
<1>10. QueueBounded'
      BY <1>4, LimitsPositive DEF QueueFull, QueueBounded
<1>. QED  BY <1>8, <1>9, <1>10 DEF Occupancy

\* A worker takes the head off the queue: the item is dropped or moves to it.
LEMMA GetOccupancy ==
    ASSUME TypeOK, Occupancy, NEW w \in Workers, WorkerGet(w)
    PROVE  Occupancy'
<1> DEFINE e == Head(queue)
<1>1. /\ queue \in Seq(Item) /\ queue # <<>> /\ queue' = Tail(queue)
      /\ worker[w].pc = "get" /\ ~Busy(w)
      BY DEF TypeOK, WorkerGet, Busy
<1>2. /\ Len(queue) \in Nat /\ Len(queue) >= 1 /\ Len(queue') = Len(queue) - 1
      /\ DOMAIN queue = 1..Len(queue) /\ DOMAIN queue' = 1..(Len(queue) - 1)
      /\ \A k \in 1..(Len(queue) - 1) : queue'[k] = queue[k + 1]
      /\ e = queue[1] /\ e \in Item
      BY <1>1, TailFacts
<1>a. \A k \in DOMAIN queue : queue[k] \in Item
      BY <1>1
<1>3. e.id \in Ids /\ e.gen \in Gens
      BY <1>2 DEF Item
<1>4. /\ queued' = queued \ {e.id}
      /\ queuedGen' = [queuedGen EXCEPT ![e.id] = Unknown]
  <2>1. queuedGen[e.id] = e.gen
        BY <1>2 DEF Occupancy, Bookkeeping
  <2>. QED  BY <2>1 DEF WorkerGet
<1>5. \/ UNCHANGED <<running, runningGen, worker>>
      \/ /\ running' = running \cup {e.id}
         /\ runningGen' = [runningGen EXCEPT ![e.id] = e.gen]
         /\ worker' = [worker EXCEPT ![w] =
                          [pc |-> "run", item |-> e, cancel |-> "no"]]
      BY DEF WorkerGet
<1> HIDE DEF e
<1>6. \A k \in DOMAIN queue' : /\ k + 1 \in DOMAIN queue /\ queue'[k] = queue[k + 1]
                              /\ queue'[k] \in Item
      BY <1>2, <1>a
<1>7. \A k \in DOMAIN queue' : queue'[k].id \in Ids /\ queue'[k].id # e.id
  <2>1. \A k \in DOMAIN queue' : queue[k + 1].id # queue[1].id
        BY <1>2, <1>6 DEF Occupancy, NoOverlap
  <2>. QED  BY <1>2, <1>6, <2>1 DEF Item
<1>8. \A v \in Workers : Busy(v) => worker[v].item.id # e.id
      BY <1>2 DEF Occupancy, NoOverlap
<1>9. /\ \A k, l \in DOMAIN queue' : queue'[k].id = queue'[l].id => k = l
      /\ \A j \in Ids : j \in queued' <=> \E k \in DOMAIN queue' : queue'[k].id = j
      /\ \A k \in DOMAIN queue' : queuedGen'[queue'[k].id] = queue'[k].gen
      /\ \A j \in Ids : j \notin queued' => queuedGen'[j] = Unknown
  <2>1. \A k, l \in DOMAIN queue' : queue'[k].id = queue'[l].id => k = l
    <3>1. \A k, l \in DOMAIN queue' : queue'[k].id = queue'[l].id => k + 1 = l + 1
          BY <1>6 DEF Occupancy, NoOverlap
    <3>. QED  BY <1>2, <3>1
  <2>2. \A j \in Ids : j \in queued' <=> \E k \in DOMAIN queue' : queue'[k].id = j
    <3> SUFFICES ASSUME NEW j \in Ids
                 PROVE  j \in queued' <=> \E k \in DOMAIN queue' : queue'[k].id = j
        OBVIOUS
    <3>1. ASSUME j \in queued' PROVE \E k \in DOMAIN queue' : queue'[k].id = j
      <4>1. PICK k \in DOMAIN queue : queue[k].id = j
            BY <1>4, <3>1 DEF Occupancy, Bookkeeping
      <4>2. k # 1
            BY <1>2, <1>4, <3>1, <4>1
      <4>3. k - 1 \in DOMAIN queue' /\ queue'[k - 1] = queue[k]
            BY <1>2, <4>2
      <4>. QED  BY <4>1, <4>3
    <3>2. ASSUME NEW k \in DOMAIN queue', queue'[k].id = j PROVE j \in queued'
          BY <1>4, <1>6, <1>7, <3>2 DEF Occupancy, Bookkeeping
    <3>. QED  BY <3>1, <3>2
  <2>3. \A k \in DOMAIN queue' : queuedGen'[queue'[k].id] = queue'[k].gen
        BY <1>3, <1>4, <1>6, <1>7 DEF Occupancy, Bookkeeping, TypeOK
  <2>4. \A j \in Ids : j \notin queued' => queuedGen'[j] = Unknown
        BY <1>3, <1>4 DEF Occupancy, Bookkeeping, TypeOK
  <2>. QED  BY <2>1, <2>2, <2>3, <2>4
<1>10. QueueBounded'
      BY <1>2, LimitsPositive DEF Occupancy, QueueBounded
<1>11. CASE UNCHANGED <<running, runningGen, worker>>
  <2>1. \A v \in Workers : Busy(v)' <=> Busy(v)
        BY <1>11 DEF Busy
  <2>2. NoOverlap'
        BY <1>6, <1>9, <1>11, <2>1 DEF Occupancy, NoOverlap
  <2>3. Bookkeeping'
        BY <1>9, <1>11, <2>1 DEF Occupancy, Bookkeeping
  <2>. QED  BY <1>10, <2>2, <2>3 DEF Occupancy
<1>12. CASE /\ running' = running \cup {e.id}
            /\ runningGen' = [runningGen EXCEPT ![e.id] = e.gen]
            /\ worker' = [worker EXCEPT ![w] =
                             [pc |-> "run", item |-> e, cancel |-> "no"]]
  <2>1. /\ Busy(w)' /\ worker'[w].item = e
        /\ \A v \in Workers \ {w} : worker'[v] = worker[v] /\ (Busy(v)' <=> Busy(v))
        BY <1>12 DEF Busy, TypeOK
  <2>2. NoOverlap'
    <3>1. \A u, v \in Workers : Busy(u)' /\ Busy(v)' /\ worker'[u].item.id = worker'[v].item.id
                                => u = v
          BY <1>8, <2>1 DEF Occupancy, NoOverlap
    <3>2. \A k \in DOMAIN queue', v \in Workers :
             Busy(v)' => queue'[k].id # worker'[v].item.id
          BY <1>6, <1>7, <2>1 DEF Occupancy, NoOverlap
    <3>. QED  BY <1>9, <3>1, <3>2 DEF NoOverlap
  <2>3. Bookkeeping'
    <3>1. \A j \in Ids : j \in running' <=>
             \E v \in Workers : Busy(v)' /\ worker'[v].item.id = j
          BY <1>1, <1>12, <2>1 DEF Occupancy, Bookkeeping
    <3>2. \A v \in Workers : Busy(v)' =>
             runningGen'[worker'[v].item.id] = worker'[v].item.gen
      <4>1. \A v \in Workers : Busy(v) => worker[v].item.id \in Ids
            BY DEF TypeOK, Worker, Item
      <4>. QED  BY <1>3, <1>8, <1>12, <2>1, <4>1 DEF Occupancy, Bookkeeping, TypeOK
    <3>3. \A j \in Ids : j \notin running' => runningGen'[j] = Unknown
          BY <1>3, <1>12 DEF Occupancy, Bookkeeping, TypeOK
    <3>. QED  BY <1>9, <3>1, <3>2, <3>3 DEF Bookkeeping
  <2>. QED  BY <1>10, <2>2, <2>3 DEF Occupancy
<1>. QED  BY <1>5, <1>11, <1>12

\* A worker drops its item, whatever the outcome.
LEMMA FinishOccupancy ==
    ASSUME TypeOK, Occupancy, NEW w \in Workers, Busy(w), NEW outcome,
           NEW next \in {IdleWorker, NoWorker}, Finish(w, outcome, next)
    PROVE  Occupancy'
<1> DEFINE e == worker[w].item
<1>1. e \in Item /\ e.id \in Ids /\ e.gen \in Gens
      BY DEF TypeOK, Worker, Item
<1>2. /\ UNCHANGED <<queue, queued, queuedGen>>
      /\ running' = running \ {e.id}
      /\ runningGen' = [runningGen EXCEPT ![e.id] = Unknown]
  <2>1. runningGen[e.id] = e.gen
        BY DEF Occupancy, Bookkeeping
  <2>. QED  BY <2>1 DEF Finish
<1>3. /\ ~Busy(w)'
      /\ \A v \in Workers \ {w} : worker'[v] = worker[v] /\ (Busy(v)' <=> Busy(v))
      BY WorkerRecords DEF Finish, Busy, TypeOK
<1>4. \A v \in Workers \ {w} : Busy(v) => worker[v].item.id # e.id
      BY DEF Occupancy, NoOverlap
<1> HIDE DEF e
<1>5. NoOverlap'
      BY <1>2, <1>3 DEF Occupancy, NoOverlap
<1>6. Bookkeeping'
  <2>1. \A j \in Ids : j \in running' <=>
           \E v \in Workers : Busy(v)' /\ worker'[v].item.id = j
        BY <1>2, <1>3, <1>4 DEF Occupancy, Bookkeeping, e
  <2>2. \A v \in Workers : Busy(v)' =>
           runningGen'[worker'[v].item.id] = worker'[v].item.gen
    <3>1. \A v \in Workers : Busy(v) => worker[v].item.id \in Ids
          BY DEF TypeOK, Worker, Item
    <3>. QED  BY <1>1, <1>2, <1>3, <1>4, <3>1 DEF Occupancy, Bookkeeping, TypeOK
  <2>3. \A j \in Ids : j \notin running' => runningGen'[j] = Unknown
        BY <1>1, <1>2 DEF Occupancy, Bookkeeping, TypeOK
  <2>. QED  BY <1>2, <2>1, <2>2, <2>3 DEF Occupancy, Bookkeeping
<1>7. QueueBounded'
      BY <1>2 DEF Occupancy, QueueBounded
<1>. QED  BY <1>5, <1>6, <1>7 DEF Occupancy

-----------------------------------------------------------------------------
\* The inductive invariant.  NoOverlap alone is not inductive: admission looks
\* at the sets _queued and _running, so they have to be exact (Bookkeeping);
\* start() creates workers, so none may be left from before (StopLeavesNoTask).
IInv == TypeOK /\ Occupancy /\ StopLeavesNoTask

\* Every step keeps the queue, the workers and the books in agreement.
LEMMA OccupancyInductive == IInv /\ [Next]_vars => Occupancy'
<1> SUFFICES ASSUME IInv, [Next]_vars PROVE Occupancy'
    OBVIOUS
<1> USE DEF IInv
<1>1. CASE Start
  <2>1. \A w \in Workers : ~Busy(w) /\ ~Busy(w)' /\ worker[w].item = NoItem
        BY <1>1 DEF Start, StopLeavesNoTask, Busy, IdleWorker, TypeOK
  <2>2. \A w \in Workers : worker'[w].item = NoItem
        BY <1>1, WorkerRecords DEF Start
  <2>. QED  BY <1>1, <2>1, <2>2, SameOccupancy DEF Start
<1>2. CASE Stop
  <2>1. \A w \in Workers : worker[w] \in Worker /\ worker'[w] = Cancel(worker[w])
        BY <1>2 DEF Stop, TypeOK
  <2>2. \A w \in Workers : /\ Busy(w)' <=> Busy(w)
                          /\ worker'[w].item = worker[w].item
        BY <2>1, WorkerRecords DEF Busy
  <2>. QED  BY <1>2, <2>2, SameOccupancy DEF Stop
<1>3. CASE StopDone
  <2>1. /\ queue' = <<>> /\ DOMAIN queue' = {} /\ Len(queue') = 0
        /\ queued' = {} /\ running' = {}
        /\ \A i \in Ids : queuedGen'[i] = Unknown /\ runningGen'[i] = Unknown
        BY <1>3 DEF StopDone
  <2>2. \A w \in Workers : ~Busy(w)'
        BY <1>3 DEF StopDone, Busy
  <2>3. NoOverlap' /\ Bookkeeping'
        BY <2>1, <2>2 DEF NoOverlap, Bookkeeping
  <2>. QED  BY <2>1, <2>3, LimitsPositive DEF Occupancy, QueueBounded
<1>4. CASE UpdateDone
      BY <1>4, SameOccupancy DEF UpdateDone, Busy
<1>5. ASSUME NEW desired \in [Ids -> Job \cup {NoJob}], Update(desired)
      PROVE  Occupancy'
      BY <1>5, SameOccupancy DEF Update, Busy
<1>6. ASSUME NEW f \in Futures, Manual(f)
      PROVE  Occupancy'
  <2>1. ASSUME NEW i \in Ids, NEW g \in Gens, RunOnce(f, i, g)
        PROVE  Occupancy'
    <3>1. CASE UNCHANGED <<queue, queued, queuedGen>>
          BY <2>1, <3>1, SameOccupancy DEF RunOnce, Busy
    <3>2. CASE ~AlreadyScheduled(i) /\ ~QueueFull /\ Put(WorkItem(i, g, f))
          BY <2>1, <3>2, PutOccupancy DEF RunOnce
    <3>. QED  BY <2>1, <3>1, <3>2 DEF RunOnce
  <2>2. CASE CallerStep(f) \/ CallerReturn(f)
        BY <2>2, SameOccupancy DEF CallerStep, CallerReturn, Busy
  <2>. QED  BY <1>6, <2>1, <2>2 DEF Manual
<1>7. ASSUME NEW i \in Ids, ProducerTask(i) \/ DrainingEnds(i)
      PROVE  Occupancy'
  <2>1. CASE ProducerTick(i)
    <3>1. producer[i].job.gen \in Gens
          BY <2>1 DEF ProducerTick, TypeOK, Producer, Job
    <3>2. CASE UNCHANGED <<queue, queued, queuedGen>>
          BY <2>1, <3>2, SameOccupancy DEF ProducerTick, Busy
    <3>3. CASE /\ ~AlreadyScheduled(i) /\ ~QueueFull
               /\ Put(WorkItem(i, producer[i].job.gen, NoFuture))
          BY <2>1, <3>1, <3>3, PutOccupancy DEF ProducerTick
    <3>. QED  BY <2>1, <3>2, <3>3 DEF ProducerTick
  <2>2. CASE ProducerReported(i) \/ ProducerCancelled(i) \/ DrainingEnds(i)
        BY <2>2, SameOccupancy DEF ProducerReported, ProducerCancelled, DrainingEnds, Busy
  <2>. QED  BY <1>7, <2>1, <2>2 DEF ProducerTask
<1>8. ASSUME NEW w \in Workers, WorkerTask(w)
      PROVE  Occupancy'
  <2>1. CASE WorkerGet(w)
        BY <2>1, GetOccupancy
  <2>2. CASE RunnerReturns(w)
        BY <2>2, FinishOccupancy DEF RunnerReturns, Busy
  <2>3. CASE RunnerRaises(w)
    <3>1. \A v \in Workers : /\ Busy(v)' <=> Busy(v)
                            /\ worker'[v].item = worker[v].item
          BY <2>3 DEF RunnerRaises, Busy, TypeOK, Worker
    <3>. QED  BY <2>3, <3>1, SameOccupancy DEF RunnerRaises
  <2>4. CASE WorkerReported(w)
        BY <2>4, FinishOccupancy DEF WorkerReported, Busy
  <2>5. CASE WorkerCancelled(w)
    <3>1. CASE worker[w].pc = "get"
      <4>1. \A v \in Workers : /\ Busy(v)' <=> Busy(v)
                              /\ worker'[v].item = worker[v].item
            BY <2>5, <3>1, WorkerRecords DEF WorkerCancelled, Busy, TypeOK
      <4>. QED  BY <2>5, <3>1, <4>1, SameOccupancy DEF WorkerCancelled, Busy
    <3>2. CASE Busy(w)
          BY <2>5, <3>2, FinishOccupancy DEF WorkerCancelled, Busy
    <3>. QED  BY <2>5, <3>1, <3>2 DEF WorkerCancelled
  <2>. QED  BY <1>8, <2>1, <2>2, <2>3, <2>4, <2>5 DEF WorkerTask
<1>9. CASE UNCHANGED vars
      BY <1>9, SameOccupancy DEF vars, Busy
<1>. QED  BY <1>1, <1>2, <1>3, <1>4, <1>5, <1>6, <1>7, <1>8, <1>9 DEF Next

\* stop() leaves no task, and update() none of the producers it replaced.
LEMMA NoTaskInductive == TypeOK /\ StopLeavesNoTask /\ [Next]_vars => StopLeavesNoTask'
<1> SUFFICES ASSUME TypeOK, StopLeavesNoTask, [Next]_vars PROVE StopLeavesNoTask'
    OBVIOUS
<1> USE DEF StopLeavesNoTask
<1>1. CASE Start
      BY <1>1 DEF Start
<1>2. CASE Stop
      BY <1>2 DEF Stop
<1>3. CASE StopDone
      BY <1>3 DEF StopDone
<1>4. CASE UpdateDone
      BY <1>4 DEF UpdateDone, Drained
<1>5. ASSUME NEW desired \in [Ids -> Job \cup {NoJob}], Update(desired)
      PROVE  StopLeavesNoTask'
  <2>1. ~started' => /\ \A i \in Ids : producer'[i].pc = "none"
                     /\ \A w \in Workers : worker'[w].pc = "none"
        BY <1>5, ProducerRecords DEF Update, Replaced
  <2>2. ctl' # "updating" => \A i \in Ids : draining'[i].pc = "none"
        BY <1>5 DEF Update
  <2>. QED  BY <2>1, <2>2
<1>6. ASSUME NEW f \in Futures, Manual(f)
      PROVE  StopLeavesNoTask'
      BY <1>6 DEF Manual, RunOnce, CallerStep, CallerReturn
<1>7. ASSUME NEW i \in Ids, ProducerTask(i) \/ DrainingEnds(i)
      PROVE  StopLeavesNoTask'
  <2>1. CASE ProducerTick(i)
        BY <2>1 DEF ProducerTick
  <2>2. CASE ProducerReported(i)
        BY <2>2 DEF ProducerReported
  <2>3. CASE ProducerCancelled(i)
        BY <2>3, ProducerRecords DEF ProducerCancelled, TypeOK
  <2>4. CASE DrainingEnds(i)
        BY <2>4 DEF DrainingEnds
  <2>. QED  BY <1>7, <2>1, <2>2, <2>3, <2>4 DEF ProducerTask
<1>8. ASSUME NEW w \in Workers, WorkerTask(w)
      PROVE  StopLeavesNoTask'
  <2>1. started /\ UNCHANGED <<started, ctl, draining>>
        BY <1>8 DEF WorkerTask, WorkerGet, RunnerReturns, RunnerRaises,
                    WorkerReported, WorkerCancelled, Finish, Busy
  <2>. QED  BY <2>1
<1>9. CASE UNCHANGED vars
      BY <1>9 DEF vars
<1>. QED  BY <1>1, <1>2, <1>3, <1>4, <1>5, <1>6, <1>7, <1>8, <1>9 DEF Next

\* The constructor establishes the inductive invariant.
LEMMA InitIInv == Init => IInv
<1> SUFFICES ASSUME Init PROVE IInv
    OBVIOUS
<1>1. TypeOK
      BY InitTypeOK
<1>2. /\ \A w \in Workers : ~Busy(w) /\ worker[w].pc = "none"
      /\ \A i \in Ids : producer[i].pc = "none" /\ draining[i].pc = "none"
      BY ProducerRecords, WorkerRecords DEF Init, Busy
<1>3. DOMAIN queue = {} /\ Len(queue) = 0
      BY DEF Init
<1>4. NoOverlap /\ Bookkeeping
      BY <1>2, <1>3 DEF Init, NoOverlap, Bookkeeping
<1>. QED  BY <1>1, <1>2, <1>3, <1>4, LimitsPositive
          DEF IInv, Occupancy, QueueBounded, StopLeavesNoTask

\* A check never overlaps with itself: the queue and the workers together hold
\* at most one item of each check, for any number of checks, workers, queue
\* slots and callers, and whatever start, update, stop and run_once interleave.
THEOREM NoOverlapCorrect == Spec => []NoOverlap
<1>1. IInv /\ [Next]_vars => IInv'
      BY TypeInductive, OccupancyInductive, NoTaskInductive DEF IInv
<1>2. IInv => NoOverlap
      BY DEF IInv, Occupancy
<1>. QED  BY InitIInv, <1>1, <1>2, PTL DEF Spec

\* The sets and generation maps the scheduler keeps are exact at every await.
THEOREM BookkeepingCorrect == Spec => []Bookkeeping
<1>1. IInv /\ [Next]_vars => IInv'
      BY TypeInductive, OccupancyInductive, NoTaskInductive DEF IInv
<1>2. IInv => Bookkeeping
      BY DEF IInv, Occupancy
<1>. QED  BY InitIInv, <1>1, <1>2, PTL DEF Spec

\* No worker or producer outlives stop(), no replaced producer its update().
THEOREM StopLeavesNoTaskCorrect == Spec => []StopLeavesNoTask
<1>1. IInv /\ [Next]_vars => IInv'
      BY TypeInductive, OccupancyInductive, NoTaskInductive DEF IInv
<1>2. IInv => StopLeavesNoTask
      BY DEF IInv
<1>. QED  BY InitIInv, <1>1, <1>2, PTL DEF Spec

-----------------------------------------------------------------------------
\* What _known_generations says of the schedule.
KnownInv == KnownAgreesWithJobs /\ NoTombstoneLeak

\* Forgetting a tombstone keeps the map in agreement and leaves none behind.
LEMMA ForgetKeepsKnown ==
    ASSUME TypeOK, KnownAgreesWithJobs, NEW i \in Ids, NEW q, NEW r,
           \A j \in Ids : known[j] = Removed /\ j # i => j \in q \cup r,
           known' = ForgetRemoved(i, q, r), jobs' = jobs,
           queued' = q, running' = r
    PROVE  KnownInv'
<1>1. known' \in [Ids -> Gens \cup {Removed, Unknown}]
      BY DEF ForgetRemoved, TypeOK
<1>2. \A j \in Ids : j # i => known'[j] = known[j]
      BY DEF ForgetRemoved, TypeOK
<1>3. known'[i] = known[i] \/ known'[i] = Unknown
      BY DEF ForgetRemoved, TypeOK
<1>4. known'[i] = Removed => i \in q \cup r
  <2>1. known[i] = Removed => jobs[i] = NoJob
        BY Markers DEF KnownAgreesWithJobs, TypeOK, Job
  <2>2. CASE known[i] = Removed /\ i \notin q \cup r
        BY <2>1, <2>2, Markers DEF ForgetRemoved, TypeOK
  <2>. QED  BY <1>3, <2>2, Markers
<1>5. KnownAgreesWithJobs'
      BY <1>2, <1>3 DEF KnownAgreesWithJobs
<1>6. NoTombstoneLeak'
      BY <1>2, <1>4 DEF NoTombstoneLeak
<1>. QED  BY <1>5, <1>6 DEF KnownInv

\* Every step keeps _known_generations in agreement with _jobs, and forgets a
\* tombstone with the last item of its check.
LEMMA KnownInductive == IInv /\ KnownInv /\ [Next]_vars => KnownInv'
<1> SUFFICES ASSUME IInv, KnownInv, [Next]_vars PROVE KnownInv'
    OBVIOUS
<1> USE DEF IInv
<1>0. ASSUME UNCHANGED <<jobs, known>>,
             queued \subseteq queued', running \subseteq running'
      PROVE  KnownInv'
      BY <1>0 DEF KnownInv, KnownAgreesWithJobs, NoTombstoneLeak
<1>3. CASE StopDone
  <2>1. \A i \in Ids : known'[i] = Unknown
        BY <1>3 DEF StopDone
  <2>. QED  BY <2>1, Markers DEF KnownInv, KnownAgreesWithJobs, NoTombstoneLeak
<1>5. ASSUME NEW desired \in [Ids -> Job \cup {NoJob}], Update(desired)
      PROVE  KnownInv'
  <2>1. /\ jobs' = desired /\ queued' = queued /\ running' = running
        /\ \A i \in Ids : known'[i] = KnownAfterUpdate(desired, i)
        BY <1>5 DEF Update
  <2>2. KnownAgreesWithJobs'
        BY <2>1, Markers DEF KnownAfterUpdate, KnownInv, KnownAgreesWithJobs, TypeOK
  <2>3. NoTombstoneLeak'
        BY <2>1, Markers DEF KnownAfterUpdate, NoTombstoneLeak
  <2>. QED  BY <2>2, <2>3 DEF KnownInv
<1>6. CASE Start \/ Stop \/ UpdateDone \/ UNCHANGED vars
      BY <1>0, <1>6 DEF Start, Stop, UpdateDone, vars
<1>7. ASSUME NEW f \in Futures, Manual(f)
      PROVE  KnownInv'
  <2>1. UNCHANGED <<jobs, known, running>> /\ queued \subseteq queued'
        BY <1>7 DEF Manual, RunOnce, CallerStep, CallerReturn, Put
  <2>. QED  BY <1>0, <2>1
<1>8. ASSUME NEW i \in Ids, ProducerTask(i) \/ DrainingEnds(i)
      PROVE  KnownInv'
  <2>1. UNCHANGED <<jobs, known, running>> /\ queued \subseteq queued'
        BY <1>8 DEF ProducerTask, ProducerTick, ProducerReported, ProducerCancelled,
                    DrainingEnds, Put
  <2>. QED  BY <1>0, <2>1
<1>9. ASSUME NEW w \in Workers, WorkerTask(w)
      PROVE  KnownInv'
  <2>0. ASSUME Busy(w), NEW outcome, NEW next, Finish(w, outcome, next)
        PROVE  KnownInv'
    <3> DEFINE i == worker[w].item.id
    <3>1. i \in Ids
          BY <2>0 DEF TypeOK, Worker, Item
    <3>2. /\ known' = ForgetRemoved(i, queued, running \ {i}) /\ jobs' = jobs
          /\ queued' = queued /\ running' = running \ {i}
          BY <2>0 DEF Finish
    <3> HIDE DEF i
    <3>3. \A j \in Ids : known[j] = Removed /\ j # i => j \in queued \cup (running \ {i})
          BY DEF KnownInv, NoTombstoneLeak
    <3>. QED  BY <3>1, <3>2, <3>3, ForgetKeepsKnown DEF KnownInv
  <2>1. CASE WorkerGet(w)
    <3> DEFINE i == Head(queue).id
    <3>1. i \in Ids /\ queued' = queued \ {i} /\ jobs' = jobs
          BY <2>1, QueueItems DEF WorkerGet
    <3>2. CASE IsObsolete(Head(queue))
      <4>1. /\ known' = ForgetRemoved(i, queued \ {i}, running) /\ running' = running
            BY <2>1, <3>2 DEF WorkerGet
      <4> HIDE DEF i
      <4>2. \A j \in Ids : known[j] = Removed /\ j # i => j \in (queued \ {i}) \cup running
            BY DEF KnownInv, NoTombstoneLeak
      <4>. QED  BY <3>1, <4>1, <4>2, ForgetKeepsKnown DEF KnownInv
    <3>3. CASE ~IsObsolete(Head(queue))
      <4>1. known' = known /\ running' = running \cup {i}
            BY <2>1, <3>3 DEF WorkerGet
      <4> HIDE DEF i
      <4>. QED  BY <3>1, <4>1 DEF KnownInv, KnownAgreesWithJobs, NoTombstoneLeak
    <3>. QED  BY <3>2, <3>3
  <2>2. CASE RunnerRaises(w)
        BY <1>0, <2>2 DEF RunnerRaises
  <2>3. CASE RunnerReturns(w) \/ WorkerReported(w)
        BY <2>0, <2>3 DEF RunnerReturns, WorkerReported, Busy
  <2>4. CASE WorkerCancelled(w)
        BY <1>0, <2>0, <2>4 DEF WorkerCancelled
  <2>. QED  BY <1>9, <2>1, <2>2, <2>3, <2>4 DEF WorkerTask
<1>. QED  BY <1>3, <1>5, <1>6, <1>7, <1>8, <1>9 DEF Next

\* A tombstone never outlives the work it is kept for.
THEOREM NoTombstoneLeakCorrect == Spec => []NoTombstoneLeak
<1>1. IInv /\ [Next]_vars => IInv'
      BY TypeInductive, OccupancyInductive, NoTaskInductive DEF IInv
<1>2. Init => KnownInv
      BY Markers DEF Init, KnownInv, KnownAgreesWithJobs, NoTombstoneLeak
<1>3. KnownInv => NoTombstoneLeak
      BY DEF KnownInv
<1>. QED  BY InitIInv, <1>1, <1>2, <1>3, KnownInductive, PTL DEF Spec

\* No worker ever starts periodic work of a generation that is not the one
\* scheduled at that moment.
THEOREM StartsOnlyCurrentWorkCorrect == Spec => StartsOnlyCurrentWork
<1> DEFINE Started(w) ==
        LET item == worker'[w].item
        IN  worker[w].pc = "get" /\ worker'[w].pc = "run" /\ item.fut = NoFuture
            => jobs[item.id] # NoJob /\ jobs[item.id].gen = item.gen
<1>1. IInv /\ [Next]_vars => IInv'
      BY TypeInductive, OccupancyInductive, NoTaskInductive DEF IInv
<1>2. Init => KnownInv
      BY Markers DEF Init, KnownInv, KnownAgreesWithJobs, NoTombstoneLeak
<1>3. ASSUME IInv, KnownInv, [Next]_vars, NEW w \in Workers
      PROVE  Started(w)
  <2> SUFFICES ASSUME worker[w].pc = "get", worker'[w].pc = "run",
                      worker'[w].item.fut = NoFuture
               PROVE  /\ jobs[worker'[w].item.id] # NoJob
                      /\ jobs[worker'[w].item.id].gen = worker'[w].item.gen
      OBVIOUS
  <2> USE <1>3 DEF IInv
  <2>1. WorkerGet(w)
    <3>1. ASSUME NEW v \in Workers, WorkerTask(v) PROVE WorkerGet(w)
      <4>1. CASE v = w
            BY <3>1, <4>1, WorkerRecords
            DEF WorkerTask, RunnerReturns, RunnerRaises, WorkerReported,
                WorkerCancelled, Finish, Busy, TypeOK
      <4>2. CASE v # w
            BY <3>1, <4>2 DEF WorkerTask, WorkerGet, RunnerReturns, RunnerRaises,
                WorkerReported, WorkerCancelled, Finish, TypeOK
      <4>. QED  BY <4>1, <4>2
    <3>2. CASE Start
          BY <3>2, WorkerRecords DEF Start
    <3>3. CASE Stop
      <4>1. worker[w] \in Worker /\ worker'[w] = Cancel(worker[w])
            BY <3>3 DEF Stop, TypeOK
      <4>. QED  BY <4>1, WorkerRecords
    <3>4. ASSUME UNCHANGED worker PROVE FALSE
          BY <3>4
    <3>. QED  BY <3>1, <3>2, <3>3, <3>4
              DEF Next, vars, StopDone, UpdateDone, Update, Manual, RunOnce, CallerStep,
                  CallerReturn, ProducerTask, ProducerTick, ProducerReported,
                  ProducerCancelled, DrainingEnds
  <2>2. ~IsObsolete(Head(queue)) /\ worker'[w].item = Head(queue)
        BY <2>1 DEF WorkerGet, TypeOK
  <2>3. Head(queue).id \in Ids /\ Head(queue).gen \in Gens
        BY <2>1, QueueItems DEF WorkerGet
  <2>. QED  BY <2>2, <2>3, Markers DEF IsObsolete, KnownInv, KnownAgreesWithJobs
<1>4. IInv /\ KnownInv /\ [Next]_vars => [\A w \in Workers : Started(w)]_vars
      BY <1>3
<1>. QED  BY InitIInv, <1>1, <1>2, <1>4, KnownInductive, PTL
          DEF Spec, StartsOnlyCurrentWork
=============================================================================
