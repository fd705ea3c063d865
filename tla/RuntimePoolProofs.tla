-------------------------- MODULE RuntimePoolProofs --------------------------
(***************************************************************************)
(* The safety of RuntimePool, for any number of workers, profiles, slots   *)
(* and remembered runtimes, and for any backoff.                           *)
(***************************************************************************)
EXTENDS RuntimePool, FiniteSetTheorems, TLAPS

UserRecord == [pc : UserPcs, check : Check \cup {<<>>}, rt : Runtimes \cup {NoRt}, delay : Nat]
EntryRecord == [rt : Runtimes \cup {NoRt}, gen : Gens \cup {NoGen}, stable : Nat]
RuntimeRecord == [state : {"none", "up", "exited", "stopping", "stopped"},
                  profile : Profiles \cup {<<>>}]
OwnerRecord == [pc : {"idle", "waiting", "evicting"}, key : Keys \cup {<<>>}, todo : SUBSET Keys]
Backoffs == [Profiles -> [delay : Nat, wait : Nat]]
Queued == [Keys -> Seq(Users \cup {Owner})]

\* The part of the type invariant that the proofs need
Shapes ==
    /\ inventory \in Inventories
    /\ status \in {"open", "closing", "managerClosing", "closed"}
    /\ desired \in [Keys -> Gens \cup {NoGen, AnyGen}]
    /\ slots \in Nat
    /\ persistent \in [Keys -> EntryRecord]
    /\ keyQueue \in Queued
    /\ backoff \in Backoffs
    /\ keyLocks \subseteq Keys
    /\ runtime \in [Runtimes -> RuntimeRecord]
    /\ user \in [Users -> UserRecord]
    /\ owner \in OwnerRecord

KeyOf(u) == user[u].check.key
StartPcs == {"wantStart", "wantSlot", "starting", "warming", "discard"}
Alone == {"replace", "retire"}

\* User u is where it has the lock of its key.
InKey(u) ==
    user[u].pc \in Alone \/ (user[u].pc \in StartPcs /\ ~IsFresh(user[u].check))

(***************************************************************************)
(* What is true of a user wherever it is: it has a runtime from the moment *)
(* the manager has started one for it, that runtime is of the profile of   *)
(* its check, and where it is in the middle of replacing, starting or      *)
(* retiring what is kept under its key, it has the lock of the key, and    *)
(* the key has something, or nothing, to keep.                             *)
(***************************************************************************)
UserAt(u) ==
    LET a == user[u] IN
    /\ a.pc # "idle" => a.check \in Check
    /\ a.rt = NoRt <=> a.pc \in {"idle", "wantKey", "replace", "wantStart", "wantSlot", "starting"}
    /\ a.pc \in {"wantKey", "check", "wantRetire", "wantFinish"} \cup Alone => ~IsFresh(a.check)
    /\ a.pc = "stopping" => IsFresh(a.check)
    /\ a.rt # NoRt => runtime[a.rt].profile = ProfileOf(a.check)
    /\ InKey(u) => /\ Holds(keyQueue[KeyOf(u)], u)
                   /\ persistent[KeyOf(u)].rt = NoRt <=> a.pc \in StartPcs

\* What is kept under a key is a runtime of that key and generation.
EntryAt(k) ==
    persistent[k].rt # NoRt =>
        persistent[k].gen \in Gens /\ runtime[persistent[k].rt].profile = <<k, persistent[k].gen>>

\* The keys that reconcile() or close() has still to visit
Pending == IF owner.pc = "idle" THEN {} ELSE owner.todo \cup {owner.key}

\* While it waits for a lock or for a process to stop, whatever is published under
\* a key that it has passed already is wanted.
OwnerAt ==
    /\ owner.pc # "idle" => owner.key \in Keys
    /\ owner.pc = "evicting" => Holds(keyQueue[owner.key], Owner) /\ persistent[owner.key].rt # NoRt
    /\ status \in {"managerClosing", "closed"} => owner.pc = "idle"
    /\ Closed => \A k \in Keys : desired[k] = NoGen
    /\ \A k \in Held \ Pending : desired[k] \in {persistent[k].gen, AnyGen}
    /\ status = "closed" => \A r \in Runtimes : ~Running(r)

PoolInv ==
    /\ Shapes /\ SlotsConserved /\ EveryProcessOwned /\ OwnerAt
    /\ \A u \in Users : UserAt(u)
    /\ \A k \in Keys : EntryAt(k)

-----------------------------------------------------------------------------
\* Whoever leaves a queue leaves its head in place, unless it is the head.
LEMMA WithoutKeepsHead ==
    ASSUME NEW S, NEW q \in Seq(S), NEW p
    PROVE  /\ Without(q, p) \in Seq(S)
           /\ \A h : h # p /\ Holds(q, h) => Holds(Without(q, p), h)
<1>1. CASE \E i \in DOMAIN q : q[i] = p
  <2> DEFINE i == CHOOSE i \in DOMAIN q : q[i] = p
  <2>1. i \in 1..Len(q) /\ q[i] = p
    BY <1>1
  <2>2. Without(q, p) = SubSeq(q, 1, i - 1) \o SubSeq(q, i + 1, Len(q))
    BY <1>1 DEF Without
  <2> HIDE DEF i
  <2>3. SubSeq(q, 1, i - 1) \in Seq(S) /\ SubSeq(q, i + 1, Len(q)) \in Seq(S)
    BY <2>1
  <2>4. ASSUME q # <<>>, Head(q) # p
        PROVE  SubSeq(q, 1, i - 1) # <<>> /\ Head(SubSeq(q, 1, i - 1)) = Head(q)
    BY <2>1, <2>4
  <2> QED
    BY <2>2, <2>3, <2>4 DEF Holds
<1>2. CASE ~\E i \in DOMAIN q : q[i] = p
  BY <1>2 DEF Without, Holds
<1> QED
  BY <1>1, <1>2

\* So do a task that joins a queue, and its head when it leaves.
LEMMA AppendKeepsHead ==
    ASSUME NEW S, NEW q \in Seq(S), NEW p \in S
    PROVE  /\ Append(q, p) \in Seq(S)
           /\ \A h : Holds(q, h) => Holds(Append(q, p), h)
           /\ q = <<>> => Holds(Append(q, p), p)
BY DEF Holds

LEMMA TailOfHead ==
    ASSUME NEW S, NEW q \in Seq(S), NEW p, Holds(q, p)
    PROVE  Tail(q) \in Seq(S) /\ \A h : h # p => ~Holds(q, h)
BY DEF Holds

-----------------------------------------------------------------------------
Holders == {u \in Users : HoldsSlot(u)}

LEMMA FiniteSlots ==
    /\ IsFiniteSet(Holders) /\ Cardinality(Holders) \in Nat
    /\ IsFiniteSet(Held) /\ Cardinality(Held) \in Nat
<1>1. Holders \in SUBSET Users /\ Held \in SUBSET Keys
  BY DEF Holders, Held
<1> QED
  BY <1>1, FiniteAssumption, FS_Subset, FS_CardinalityType

LEMMA SlotsByHolders ==
    /\ SlotsConserved <=> slots + Cardinality(Held) + Cardinality(Holders) = Limit
    /\ SlotsConserved' <=> slots' + Cardinality(Held') + Cardinality(Holders') = Limit
BY DEF SlotsConserved, Holders

\* The ways in which slots move between the semaphore, the users and the keys
LEMMA SlotsSame ==
    ASSUME SlotsConserved, slots' = slots, Held' = Held, Holders' = Holders
    PROVE  SlotsConserved'
BY SlotsByHolders

LEMMA SlotTaken ==
    ASSUME SlotsConserved, slots \in Nat, NEW u \in Users, u \notin Holders,
           slots' = slots - 1, Held' = Held, Holders' = Holders \cup {u}
    PROVE  SlotsConserved'
<1>1. Cardinality(Holders') = Cardinality(Holders) + 1
  BY FiniteSlots, FS_AddElement
<1> QED
  BY <1>1, SlotsByHolders, FiniteSlots, LimitAssumption

LEMMA SlotGivenBack ==
    ASSUME SlotsConserved, slots \in Nat, NEW u \in Users, u \in Holders,
           slots' = slots + 1, Held' = Held, Holders' = Holders \ {u}
    PROVE  SlotsConserved'
<1>1. Cardinality(Holders') = Cardinality(Holders) - 1
  BY FiniteSlots, FS_RemoveElement
<1> QED
  BY <1>1, SlotsByHolders, FiniteSlots, LimitAssumption

LEMMA SlotPublished ==
    ASSUME SlotsConserved, slots \in Nat, NEW u \in Users, u \in Holders,
           NEW k \in Keys, k \notin Held,
           slots' = slots, Held' = Held \cup {k}, Holders' = Holders \ {u}
    PROVE  SlotsConserved'
<1>1. Cardinality(Holders') = Cardinality(Holders) - 1
  BY FiniteSlots, FS_RemoveElement
<1>2. Cardinality(Held') = Cardinality(Held) + 1
  BY FiniteSlots, FS_AddElement
<1> QED
  BY <1>1, <1>2, SlotsByHolders, FiniteSlots, LimitAssumption

LEMMA SlotOfKeyGivenBack ==
    ASSUME SlotsConserved, slots \in Nat, NEW k \in Keys, k \in Held,
           slots' = slots + 1, Held' = Held \ {k}, Holders' = Holders
    PROVE  SlotsConserved'
<1>1. Cardinality(Held') = Cardinality(Held) - 1
  BY FiniteSlots, FS_RemoveElement
<1> QED
  BY <1>1, SlotsByHolders, FiniteSlots, LimitAssumption

-----------------------------------------------------------------------------
\* The processes a step of user u stops, starts or forgets are its own: it leaves
\* the others, the locks they have and what they look at as they are.
StepOf(u) ==
    /\ \A v \in Users \ {u} : user'[v] = user[v]
    /\ \A k \in Keys : \A h \in (Users \cup {Owner}) \ {u} :
          Holds(keyQueue[k], h) => Holds(keyQueue'[k], h)
    /\ \A k \in Keys : \/ persistent'[k] = persistent[k]
                       \/ /\ Holds(keyQueue[k], u)
                          /\ EntryAt(k)'
                          /\ persistent'[k].rt # NoRt =>
                                ~Closed /\ desired[k] \in {persistent'[k].gen, AnyGen}
    /\ \A r \in Runtimes :
          \/ \E v \in Users \ {u} : user[v].rt = r
          \/ \E k \in Keys : persistent'[k].rt = r /\ persistent[k].rt = r
          => runtime'[r].profile = runtime[r].profile
    /\ \A r \in Runtimes : Running(r)' =>
          \/ HoldsSlot(u)' /\ user'[u].rt = r
          \/ \E k \in Keys : persistent'[k].rt = r
          \/ Running(r) /\ (\A k \in Keys : persistent[k].rt # r)
                        /\ ~(HoldsSlot(u) /\ user[u].rt = r)
    /\ status = "closed" => \A r \in Runtimes : Running(r)' => Running(r)

LEMMA OneUserMoves ==
    ASSUME PoolInv, NEW u \in Users, UNCHANGED shared,
           Shapes', SlotsConserved', StepOf(u), UserAt(u)'
    PROVE  PoolInv'
<1> USE DEF PoolInv
<1>0. inventory' = inventory /\ status' = status /\ desired' = desired /\ owner' = owner
  BY DEF shared
<1>1. ASSUME NEW v \in Users \ {u} PROVE UserAt(v)'
  <2>1. UserAt(v) /\ user'[v] = user[v] /\ user[v] \in UserRecord
    BY DEF StepOf, Shapes
  <2>2. user[v].rt # NoRt => runtime'[user[v].rt].profile = runtime[user[v].rt].profile
    BY <2>1 DEF StepOf, UserRecord, NoRt
  <2>3. ASSUME InKey(v)
        PROVE  /\ Holds(keyQueue'[KeyOf(v)], v)
               /\ persistent'[KeyOf(v)] = persistent[KeyOf(v)]
    <3>1. KeyOf(v) \in Keys /\ Holds(keyQueue[KeyOf(v)], v)
      BY <2>1, <2>3 DEF UserAt, InKey, Check, KeyOf, Alone, StartPcs
    <3>2. ~Holds(keyQueue[KeyOf(v)], u)
      BY <3>1 DEF Holds
    <3> QED
      BY <3>1, <3>2 DEF StepOf
  <2>4. (InKey(v)' <=> InKey(v)) /\ KeyOf(v)' = KeyOf(v)
    BY <2>1 DEF InKey, KeyOf
  <2> QED
    BY <2>1, <2>2, <2>3, <2>4 DEF UserAt
<1>2. ASSUME NEW k \in Keys PROVE EntryAt(k)'
  <2>1. CASE persistent'[k] = persistent[k]
    <3>1. EntryAt(k) /\ persistent[k] \in EntryRecord
      BY DEF Shapes
    <3>2. persistent[k].rt # NoRt =>
             runtime'[persistent[k].rt].profile = runtime[persistent[k].rt].profile
      BY <2>1, <3>1 DEF StepOf, EntryRecord
    <3> QED
      BY <2>1, <3>1, <3>2 DEF EntryAt
  <2> QED
    BY <2>1 DEF StepOf
<1>3. EveryProcessOwned'
  <2> SUFFICES ASSUME NEW r \in Runtimes, Running(r)'
               PROVE  \/ \E k \in Keys : persistent'[k].rt = r
                      \/ \E v \in Users : HoldsSlot(v)' /\ user'[v].rt = r
    BY DEF EveryProcessOwned
  <2>1. ASSUME Running(r), \A k \in Keys : persistent[k].rt # r,
               ~(HoldsSlot(u) /\ user[u].rt = r)
        PROVE  \E v \in Users : HoldsSlot(v)' /\ user'[v].rt = r
    <3>1. PICK v \in Users : HoldsSlot(v) /\ user[v].rt = r
      BY <2>1 DEF EveryProcessOwned
    <3>2. v # u /\ user'[v] = user[v]
      BY <3>1, <2>1 DEF StepOf
    <3> QED
      BY <3>1, <3>2 DEF HoldsSlot, At
  <2> QED
    BY <2>1 DEF StepOf
<1>4. OwnerAt'
  <2>1. owner'.pc = "evicting" =>
           Holds(keyQueue'[owner'.key], Owner) /\ persistent'[owner'.key].rt # NoRt
    <3> SUFFICES ASSUME owner.pc = "evicting"
                 PROVE  /\ Holds(keyQueue'[owner.key], Owner)
                        /\ persistent'[owner.key] = persistent[owner.key]
      BY <1>0 DEF OwnerAt
    <3>1. owner.key \in Keys /\ Holds(keyQueue[owner.key], Owner) /\ Owner # u
      BY NamesAssumption DEF OwnerAt
    <3>2. ~Holds(keyQueue[owner.key], u)
      BY <3>1 DEF Holds
    <3> QED
      BY <3>1, <3>2 DEF StepOf
  <2>2. Pending' = Pending
    BY <1>0 DEF Pending
  <2>3. ASSUME NEW k \in Held' \ Pending'
        PROVE  desired'[k] \in {persistent'[k].gen, AnyGen}
    <3>1. CASE persistent'[k] = persistent[k]
      BY <1>0, <2>2, <2>3, <3>1 DEF OwnerAt, Held
    <3>2. CASE persistent'[k] # persistent[k]
      BY <1>0, <2>3, <3>2 DEF StepOf, Held
    <3> QED
      BY <3>1, <3>2
  <2>4. status' = "closed" => \A r \in Runtimes : ~Running(r)'
    BY <1>0 DEF OwnerAt, StepOf
  <2>5. Closed' <=> Closed
    BY <1>0 DEF Closed
  <2> QED
    BY <1>0, <2>1, <2>3, <2>4, <2>5 DEF OwnerAt
<1> QED
  BY <1>1, <1>2, <1>3, <1>4

-----------------------------------------------------------------------------
\* User u is now at pc with check c and runtime r, the others are where they were.
MovedTo(u, pc, c, r) ==
    /\ user' \in [Users -> UserRecord]
    /\ user'[u].pc = pc /\ user'[u].check = c /\ user'[u].rt = r
    /\ \A v \in Users \ {u} : user'[v] = user[v]

LEMMA UserAssigned ==
    ASSUME Shapes, NEW u \in Users, NEW a \in UserRecord, user' = [user EXCEPT ![u] = a]
    PROVE  MovedTo(u, a.pc, a.check, a.rt)
BY DEF Shapes, MovedTo

LEMMA MovesOn ==
    ASSUME Shapes, NEW u \in Users, NEW p \in UserPcs, user' = [user EXCEPT ![u].pc = p]
    PROVE  MovedTo(u, p, user[u].check, user[u].rt)
BY DEF Shapes, MovedTo, UserRecord

LEMMA MovesOnWithRuntime ==
    ASSUME Shapes, NEW u \in Users, NEW p \in UserPcs, NEW r \in Runtimes,
           user' = [user EXCEPT ![u].pc = p, ![u].rt = r]
    PROVE  MovedTo(u, p, user[u].check, r)
<1> DEFINE a == [user[u] EXCEPT !.pc = p, !.rt = r]
<1>1. user[u] \in UserRecord
  BY DEF Shapes
<1>2. a \in UserRecord /\ a.pc = p /\ a.check = user[u].check /\ a.rt = r
  BY <1>1 DEF UserRecord
<1>3. user' = [user EXCEPT ![u] = a]
  BY DEF Shapes
<1> QED
  BY <1>2, <1>3, UserAssigned

LEMMA MovesOnWithDelay ==
    ASSUME Shapes, NEW u \in Users, NEW p \in UserPcs, NEW d \in Nat,
           user' = [user EXCEPT ![u].pc = p, ![u].delay = d]
    PROVE  MovedTo(u, p, user[u].check, user[u].rt)
<1> DEFINE a == [user[u] EXCEPT !.pc = p, !.delay = d]
<1>1. user[u] \in UserRecord
  BY DEF Shapes
<1>2. a \in UserRecord /\ a.pc = p /\ a.check = user[u].check /\ a.rt = user[u].rt
  BY <1>1 DEF UserRecord
<1>3. user' = [user EXCEPT ![u] = a]
  BY DEF Shapes
<1> QED
  BY <1>2, <1>3, UserAssigned

LEMMA MovesOnWithBoth ==
    ASSUME Shapes, NEW u \in Users, NEW p \in UserPcs, NEW r \in Runtimes, NEW d \in Nat,
           user' = [user EXCEPT ![u].pc = p, ![u].rt = r, ![u].delay = d]
    PROVE  MovedTo(u, p, user[u].check, r)
<1> DEFINE a == [user[u] EXCEPT !.pc = p, !.rt = r, !.delay = d]
<1>1. user[u] \in UserRecord
  BY DEF Shapes
<1>2. a \in UserRecord /\ a.pc = p /\ a.check = user[u].check /\ a.rt = r
  BY <1>1 DEF UserRecord
<1>3. user' = [user EXCEPT ![u] = a]
  BY DEF Shapes
<1> QED
  BY <1>2, <1>3, UserAssigned

\* The locks others than u have, they keep.
HeadsKept(u) ==
    /\ keyQueue' \in Queued
    /\ \A k \in Keys : \A h \in (Users \cup {Owner}) \ {u} :
          Holds(keyQueue[k], h) => Holds(keyQueue'[k], h)

LEMMA Leaves ==
    ASSUME Shapes, NEW u \in Users, Leave(u)
    PROVE  MovedTo(u, "idle", <<>>, NoRt) /\ HeadsKept(u)
<1>1. NoUser \in UserRecord
  BY DEF NoUser, UserRecord, UserPcs
<1>2. MovedTo(u, "idle", <<>>, NoRt)
  BY <1>1, UserAssigned DEF Leave, NoUser
<1>3. \A k \in Keys : keyQueue[k] \in Seq(Users \cup {Owner})
  BY DEF Shapes, Queued
<1>4. HeadsKept(u)
  BY <1>3, WithoutKeepsHead DEF Leave, HeadsKept, Queued
<1> QED
  BY <1>2, <1>4

LEMMA Joins ==
    ASSUME Shapes, NEW u \in Users, NEW k \in Keys,
           keyQueue' = [keyQueue EXCEPT ![k] = Append(@, u)]
    PROVE  HeadsKept(u)
<1>1. \A j \in Keys : keyQueue[j] \in Seq(Users \cup {Owner})
  BY DEF Shapes, Queued
<1>2. /\ Append(keyQueue[k], u) \in Seq(Users \cup {Owner})
      /\ \A h : Holds(keyQueue[k], h) => Holds(Append(keyQueue[k], u), h)
  BY <1>1, AppendKeepsHead
<1> QED
  BY <1>1, <1>2 DEF Shapes, Queued, HeadsKept

LEMMA Releases ==
    ASSUME Shapes, NEW u \in Users, NEW k \in Keys, Holds(keyQueue[k], u),
           keyQueue' = [keyQueue EXCEPT ![k] = Tail(@)]
    PROVE  HeadsKept(u)
<1>1. \A j \in Keys : keyQueue[j] \in Seq(Users \cup {Owner})
  BY DEF Shapes, Queued
<1> QED
  BY <1>1, TailOfHead DEF Shapes, Queued, HeadsKept

LEMMA StaysInQueue ==
    ASSUME Shapes, NEW u, UNCHANGED keyQueue
    PROVE  HeadsKept(u)
BY DEF Shapes, HeadsKept

-----------------------------------------------------------------------------
IsUp(rts, r) == rts[r].state \in {"up", "stopping"}

LEMMA BeginStopFacts ==
    ASSUME NEW rts \in [Runtimes -> RuntimeRecord], NEW r \in Runtimes
    PROVE  /\ BeginStop(rts, r) \in [Runtimes -> RuntimeRecord]
           /\ \A s \in Runtimes : /\ BeginStop(rts, r)[s].profile = rts[s].profile
                                  /\ IsUp(BeginStop(rts, r), s) <=> IsUp(rts, s)
BY DEF BeginStop, RuntimeRecord, IsUp

LEMMA StoppedFacts ==
    ASSUME Shapes, NEW r \in Runtimes
    PROVE  /\ Stopped(r) \in [Runtimes -> RuntimeRecord]
           /\ \A s \in Runtimes : /\ Stopped(r)[s].profile = runtime[s].profile
                                  /\ IsUp(Stopped(r), s) <=> s # r /\ Running(s)
BY DEF Shapes, Stopped, RuntimeRecord, IsUp, Running

\* An ended runtime is forgotten only when nobody refers to it.
LEMMA CollectedFacts ==
    ASSUME NEW rts \in [Runtimes -> RuntimeRecord], runtime' = Collected(rts)
    PROVE  /\ runtime' \in [Runtimes -> RuntimeRecord]
           /\ \A s \in Runtimes : Running(s)' <=> IsUp(rts, s)
           /\ \A k \in Keys, s \in Runtimes : persistent'[k].rt = s => runtime'[s] = rts[s]
           /\ \A u \in Users, s \in Runtimes : user'[u].rt = s => runtime'[s] = rts[s]
<1>1. NoRuntime \in RuntimeRecord /\ NoRuntime.state = "none"
  BY DEF NoRuntime, RuntimeRecord
<1>2. runtime' \in [Runtimes -> RuntimeRecord]
  BY <1>1 DEF Collected
<1>3. \A s \in Runtimes : Running(s)' <=> IsUp(rts, s)
  BY <1>1 DEF Collected, Running, IsUp
<1> QED
  BY <1>2, <1>3 DEF Collected

\* Nothing starts, and what others refer to stays.
NothingStarts ==
    /\ runtime' \in [Runtimes -> RuntimeRecord]
    /\ \A r \in Runtimes : Running(r)' => Running(r)
    /\ \A r \in Runtimes :
          (\E v \in Users : user'[v].rt = r) \/ (\E k \in Keys : persistent'[k].rt = r)
          => runtime'[r].profile = runtime[r].profile

LEMMA ProcessesStay ==
    ASSUME Shapes, UNCHANGED runtime
    PROVE  NothingStarts
BY DEF Shapes, NothingStarts, Running

LEMMA ProcessesStopping ==
    ASSUME Shapes, NEW r \in Runtimes, runtime' = Stopping(r)
    PROVE  NothingStarts
BY BeginStopFacts DEF Shapes, NothingStarts, Running, IsUp, Stopping

LEMMA ProcessesCollected ==
    ASSUME Shapes, runtime' = Collected(runtime)
    PROVE  NothingStarts
BY CollectedFacts DEF Shapes, NothingStarts, Running, IsUp

LEMMA ProcessStopped ==
    ASSUME Shapes, NEW r \in Runtimes, runtime' = Collected(Stopped(r))
    PROVE  NothingStarts /\ ~Running(r)'
<1> DEFINE rts == Stopped(r)
<1>1. /\ rts \in [Runtimes -> RuntimeRecord]
      /\ \A s \in Runtimes : /\ rts[s].profile = runtime[s].profile
                             /\ IsUp(rts, s) <=> s # r /\ Running(s)
  BY StoppedFacts
<1>2. runtime' = Collected(rts)
  OBVIOUS
<1> HIDE DEF rts
<1> QED
  BY <1>1, <1>2, CollectedFacts DEF NothingStarts

-----------------------------------------------------------------------------
\* A step of u that moves no slot and starts no process
LEMMA QuietStep ==
    ASSUME PoolInv, NEW u \in Users, UNCHANGED <<slots, persistent>>, UNCHANGED shared,
           backoff' \in Backoffs, keyLocks' \subseteq Keys,
           NEW p, NEW c, NEW r, MovedTo(u, p, c, r), HeadsKept(u), NothingStarts,
           HoldsSlot(u)' <=> HoldsSlot(u), HoldsSlot(u) => user'[u].rt = user[u].rt, UserAt(u)'
    PROVE  PoolInv'
<1> USE DEF PoolInv
<1>1. Shapes'
  BY DEF Shapes, shared, MovedTo, HeadsKept, NothingStarts
<1>2. SlotsConserved'
  <2>1. Holders' = Holders
    BY DEF Holders, HoldsSlot, At, MovedTo
  <2>2. Held' = Held
    BY DEF Held
  <2> QED
    BY <2>1, <2>2, SlotsSame
<1>3. StepOf(u)
  <2>1. \A s \in Runtimes : Running(s)' =>
          \/ HoldsSlot(u)' /\ user'[u].rt = s
          \/ \E k \in Keys : persistent'[k].rt = s
          \/ Running(s) /\ (\A k \in Keys : persistent[k].rt # s)
                        /\ ~(HoldsSlot(u) /\ user[u].rt = s)
    BY DEF NothingStarts
  <2>2. \A s \in Runtimes :
          \/ \E v \in Users \ {u} : user[v].rt = s
          \/ \E k \in Keys : persistent'[k].rt = s /\ persistent[k].rt = s
          => runtime'[s].profile = runtime[s].profile
    BY DEF NothingStarts, MovedTo
  <2> QED
    BY <2>1, <2>2 DEF StepOf, MovedTo, HeadsKept, NothingStarts
<1> QED
  BY <1>1, <1>2, <1>3, OneUserMoves

\* A record of the backoffs stays one.
LEMMA AfterFailureType ==
    ASSUME NEW b \in [delay : Nat, wait : Nat]
    PROVE  AfterFailure(b) \in [delay : Nat, wait : Nat] /\ AfterFailure(b).delay \in Nat
BY BackoffAssumption DEF AfterFailure, Min2

LEMMA FailureRecorded ==
    ASSUME Shapes, NEW p, backoff' = [backoff EXCEPT ![p] = AfterFailure(@)]
    PROVE  backoff' \in Backoffs
BY AfterFailureType DEF Shapes, Backoffs

LEMMA ResetType ==
    ASSUME Shapes, NEW k
    PROVE  AfterReset(k) \in Backoffs
<1>1. NoBackoff \in [delay : Nat, wait : Nat]
  BY DEF NoBackoff
<1> QED
  BY <1>1 DEF Shapes, Backoffs, AfterReset

\* Where user u is, what is known of it and of its check
LEMMA CheckOf ==
    ASSUME PoolInv, NEW u \in Users, user[u].pc # "idle"
    PROVE  /\ user[u] \in UserRecord /\ user[u].check \in Check
           /\ KeyOf(u) \in Keys /\ ProfileOf(user[u].check) \in Profiles
           /\ persistent[KeyOf(u)] \in EntryRecord /\ UserAt(u)
<1>1. UserAt(u) /\ user[u] \in UserRecord /\ user[u].check \in Check
  BY DEF PoolInv, Shapes, UserAt
<1> QED
  BY <1>1 DEF PoolInv, Shapes, Check, KeyOf, ProfileOf, Profiles

LEMMA IdleAt ==
    ASSUME NEW u \in Users, MovedTo(u, "idle", <<>>, NoRt)
    PROVE  UserAt(u)' /\ ~HoldsSlot(u)'
BY DEF MovedTo, UserAt, InKey, Alone, StartPcs, HoldsSlot, At

\* u leaves from where it has no slot.
LEMMA LeavesQuietly ==
    ASSUME PoolInv, NEW u \in Users, Leave(u), ~HoldsSlot(u), NothingStarts,
           UNCHANGED <<slots, persistent>>, UNCHANGED shared,
           backoff' \in Backoffs, keyLocks' \subseteq Keys
    PROVE  PoolInv'
<1>1. MovedTo(u, "idle", <<>>, NoRt) /\ HeadsKept(u)
  BY Leaves DEF PoolInv
<1> QED
  BY <1>1, IdleAt, QuietStep

LEMMA AcquireKeeps ==
    ASSUME PoolInv, NEW u \in Users, NEW c \in inventory, Acquire(u, c)
    PROVE  PoolInv'
<1>1. c \in Check /\ c.key \in Keys
  BY InventoriesAssumption DEF PoolInv, Shapes, Check
<1>2. NothingStarts /\ backoff' \in Backoffs
  BY ProcessesStay DEF Acquire, PoolInv, Shapes
<1>3. CASE IsFresh(c)
  <2> DEFINE a == [NoUser EXCEPT !.pc = "wantStart", !.check = c]
  <2>1. a \in UserRecord /\ a.pc = "wantStart" /\ a.check = c /\ a.rt = NoRt
    BY <1>1 DEF NoUser, UserRecord, UserPcs
  <2>2. MovedTo(u, "wantStart", c, NoRt)
    BY <1>3, <2>1, UserAssigned DEF Acquire, PoolInv
  <2>3. HeadsKept(u) /\ keyLocks' \subseteq Keys
    BY <1>3, StaysInQueue DEF Acquire, PoolInv, Shapes
  <2>4. UserAt(u)' /\ (HoldsSlot(u)' <=> HoldsSlot(u)) /\ (HoldsSlot(u) => user'[u].rt = user[u].rt)
    BY <1>1, <1>3, <2>2 DEF MovedTo, UserAt, InKey, Alone, StartPcs, HoldsSlot, At, Acquire
  <2> QED
    BY <1>2, <2>2, <2>3, <2>4, QuietStep DEF Acquire
<1>4. CASE ~IsFresh(c)
  <2> DEFINE a == [NoUser EXCEPT !.pc = "wantKey", !.check = c]
  <2>1. a \in UserRecord /\ a.pc = "wantKey" /\ a.check = c /\ a.rt = NoRt
    BY <1>1 DEF NoUser, UserRecord, UserPcs
  <2>2. MovedTo(u, "wantKey", c, NoRt)
    BY <1>4, <2>1, UserAssigned DEF Acquire, PoolInv
  <2>3. HeadsKept(u) /\ keyLocks' \subseteq Keys
    BY <1>1, <1>4, Joins DEF Acquire, PoolInv, Shapes
  <2>4. UserAt(u)' /\ (HoldsSlot(u)' <=> HoldsSlot(u)) /\ (HoldsSlot(u) => user'[u].rt = user[u].rt)
    BY <1>1, <1>4, <2>2 DEF MovedTo, UserAt, InKey, Alone, StartPcs, HoldsSlot, At, Acquire
  <2> QED
    BY <1>2, <2>2, <2>3, <2>4, QuietStep DEF Acquire
<1> QED
  BY <1>3, <1>4

LEMMA ObsoleteKeeps ==
    ASSUME PoolInv, NEW u \in Users, Obsolete(u)
    PROVE  PoolInv'
BY LeavesQuietly, ProcessesStay DEF Obsolete, HasKey, At, HoldsSlot, PoolInv, Shapes

LEMMA ReuseKeeps ==
    ASSUME PoolInv, NEW u \in Users, Reuse(u)
    PROVE  PoolInv'
<1> DEFINE c == user[u].check
           r == persistent[KeyOf(u)].rt
<1>1. /\ user[u].pc = "wantKey" /\ KeyOf(u) = c.key /\ Holds(keyQueue[c.key], u)
      /\ r # NoRt /\ persistent[c.key].gen = c.gen
      /\ user' = [user EXCEPT ![u].pc = "check", ![u].rt = r]
      /\ keyQueue' = [keyQueue EXCEPT ![c.key] = Tail(@)]
      /\ backoff' = AfterReset(c.key)
      /\ UNCHANGED <<slots, persistent, keyLocks, runtime>> /\ UNCHANGED shared
  BY DEF Reuse, HasKey, At, KeyOf
<1>2. c \in Check /\ c.key \in Keys /\ persistent[c.key] \in EntryRecord /\ UserAt(u)
  BY <1>1, CheckOf
<1>3. r \in Runtimes /\ runtime[r].profile = ProfileOf(c)
  BY <1>1, <1>2 DEF PoolInv, EntryAt, EntryRecord, ProfileOf
<1>4. MovedTo(u, "check", c, r)
  BY <1>1, <1>3, MovesOnWithRuntime DEF PoolInv, UserPcs
<1>5. HeadsKept(u) /\ NothingStarts /\ backoff' \in Backoffs /\ keyLocks' \subseteq Keys
  BY <1>1, <1>2, Releases, ProcessesStay, ResetType DEF PoolInv, Shapes
<1>6. UserAt(u)' /\ ~HoldsSlot(u)' /\ ~HoldsSlot(u)
  BY <1>1, <1>2, <1>3, <1>4 DEF MovedTo, UserAt, InKey, Alone, StartPcs, HoldsSlot, At
<1> QED
  BY <1>1, <1>4, <1>5, <1>6, QuietStep

LEMMA ReplaceKeeps ==
    ASSUME PoolInv, NEW u \in Users, Replace(u)
    PROVE  PoolInv'
<1> DEFINE c == user[u].check
           r == persistent[KeyOf(u)].rt
<1>1. /\ user[u].pc = "wantKey" /\ KeyOf(u) = c.key /\ Holds(keyQueue[c.key], u)
      /\ r # NoRt /\ user' = [user EXCEPT ![u].pc = "replace"]
      /\ runtime' = Stopping(r)
      /\ UNCHANGED <<slots, persistent, keyLocks, keyQueue, backoff>> /\ UNCHANGED shared
  BY DEF Replace, HasKey, At, KeyOf
<1>2. c \in Check /\ c.key \in Keys /\ persistent[c.key] \in EntryRecord /\ UserAt(u)
  BY <1>1, CheckOf
<1>3. r \in Runtimes
  BY <1>1, <1>2 DEF EntryRecord
<1>4. MovedTo(u, "replace", c, user[u].rt)
  BY <1>1, <1>3, MovesOn DEF PoolInv, UserPcs
<1>5. HeadsKept(u) /\ NothingStarts /\ backoff' \in Backoffs /\ keyLocks' \subseteq Keys
  BY <1>1, <1>3, StaysInQueue, ProcessesStopping DEF PoolInv, Shapes
<1>6. UserAt(u)' /\ ~HoldsSlot(u)' /\ ~HoldsSlot(u)
  BY <1>1, <1>2, <1>4 DEF MovedTo, UserAt, InKey, Alone, StartPcs, HoldsSlot, At, KeyOf
<1> QED
  BY <1>1, <1>4, <1>5, <1>6, QuietStep

LEMMA BeginStartKeeps ==
    ASSUME PoolInv, NEW u \in Users, BeginStart(u)
    PROVE  PoolInv'
<1> DEFINE c == user[u].check
           d == backoff[ProfileOf(c)].delay
<1>1. /\ user[u].pc = "wantKey" /\ KeyOf(u) = c.key /\ Holds(keyQueue[c.key], u)
      /\ persistent[KeyOf(u)].rt = NoRt
      /\ user' = [user EXCEPT ![u].pc = "wantStart", ![u].delay = d]
      /\ UNCHANGED <<slots, persistent, keyLocks, keyQueue, backoff, runtime>> /\ UNCHANGED shared
  BY DEF BeginStart, HasKey, At, KeyOf
<1>2. /\ c \in Check /\ c.key \in Keys /\ persistent[c.key] \in EntryRecord /\ UserAt(u)
      /\ ProfileOf(c) \in Profiles
  BY <1>1, CheckOf
<1>3. d \in Nat
  BY <1>2 DEF PoolInv, Shapes, Backoffs
<1>4. MovedTo(u, "wantStart", c, user[u].rt)
  BY <1>1, <1>3, MovesOnWithDelay DEF PoolInv, UserPcs
<1>5. HeadsKept(u) /\ NothingStarts /\ backoff' \in Backoffs /\ keyLocks' \subseteq Keys
  BY <1>1, StaysInQueue, ProcessesStay DEF PoolInv, Shapes
<1>6. UserAt(u)' /\ ~HoldsSlot(u)' /\ ~HoldsSlot(u)
  BY <1>1, <1>2, <1>4 DEF MovedTo, UserAt, InKey, Alone, StartPcs, HoldsSlot, At, KeyOf
<1> QED
  BY <1>1, <1>4, <1>5, <1>6, QuietStep

LEMMA EnforceBackoffKeeps ==
    ASSUME PoolInv, NEW u \in Users, EnforceBackoff(u)
    PROVE  PoolInv'
<1>1. /\ user[u].pc = "wantStart"
      /\ UNCHANGED <<slots, persistent, keyLocks, backoff, runtime>> /\ UNCHANGED shared
  BY DEF EnforceBackoff, At
<1>2. NothingStarts /\ backoff' \in Backoffs /\ keyLocks' \subseteq Keys /\ ~HoldsSlot(u)
  BY <1>1, ProcessesStay DEF PoolInv, Shapes, HoldsSlot, At
<1>3. CASE Leave(u)
  BY <1>1, <1>2, <1>3, LeavesQuietly
<1>4. CASE user' = [user EXCEPT ![u].pc = "wantSlot"] /\ UNCHANGED keyQueue
  <2>1. MovedTo(u, "wantSlot", user[u].check, user[u].rt) /\ HeadsKept(u)
    BY <1>4, MovesOn, StaysInQueue DEF PoolInv, UserPcs
  <2>2. UserAt(u)' /\ ~HoldsSlot(u)'
    BY <1>1, <1>4, <2>1, CheckOf DEF MovedTo, UserAt, InKey, Alone, StartPcs, HoldsSlot, At, KeyOf
  <2> QED
    BY <1>1, <1>2, <2>1, <2>2, QuietStep
<1> QED
  BY <1>3, <1>4 DEF EnforceBackoff

\* u waits for the lock of its key, with the runtime it has.
LEMMA WaitForKeyKeeps ==
    ASSUME PoolInv, NEW u \in Users, NEW p \in {"wantRetire", "wantFinish"}, WaitForKey(u, p),
           user[u].pc \in {"check", "using"}, ~IsFresh(user[u].check),
           UNCHANGED <<slots, persistent, backoff, runtime>>, UNCHANGED shared
    PROVE  PoolInv'
<1>1. UserAt(u) /\ KeyOf(u) \in Keys
  BY CheckOf
<1>2. MovedTo(u, p, user[u].check, user[u].rt)
  BY MovesOn DEF WaitForKey, PoolInv, UserPcs
<1>3. HeadsKept(u) /\ keyLocks' \subseteq Keys /\ backoff' \in Backoffs /\ NothingStarts
  BY <1>1, Joins, ProcessesStay DEF WaitForKey, KeyOf, PoolInv, Shapes
<1>4. UserAt(u)' /\ ~HoldsSlot(u)' /\ ~HoldsSlot(u)
  BY <1>1, <1>2 DEF MovedTo, UserAt, InKey, Alone, StartPcs, HoldsSlot, At, WaitForKey
<1> QED
  BY <1>2, <1>3, <1>4, QuietStep

\* The stop of the runtime of u begins.
LEMMA BeginsStopping ==
    ASSUME PoolInv, NEW u \in Users, NEW p \in {"discard", "stopping", "retire"},
           user' = [user EXCEPT ![u].pc = p], runtime' = Stopping(user[u].rt),
           p = "discard" => user[u].pc = "warming",
           p = "stopping" => user[u].pc = "using" /\ IsFresh(user[u].check),
           p = "retire" => /\ user[u].pc \in {"wantRetire", "wantFinish"} /\ IsCurrent(u)
                           /\ Holds(keyQueue[KeyOf(u)], u),
           UNCHANGED <<slots, persistent, keyLocks, keyQueue>>, UNCHANGED shared,
           backoff' \in Backoffs
    PROVE  PoolInv'
<1>1. UserAt(u) /\ KeyOf(u) \in Keys /\ user[u] \in UserRecord
  BY CheckOf
<1>2. user[u].rt # NoRt /\ user[u].rt \in Runtimes
  BY <1>1 DEF UserAt, UserRecord
<1>3. MovedTo(u, p, user[u].check, user[u].rt)
  BY MovesOn DEF PoolInv, UserPcs
<1>4. HeadsKept(u) /\ keyLocks' \subseteq Keys /\ NothingStarts
  BY <1>2, StaysInQueue, ProcessesStopping DEF PoolInv, Shapes
<1>5. runtime'[user[u].rt].profile = runtime[user[u].rt].profile
  BY <1>2, <1>3, <1>4 DEF NothingStarts, MovedTo
<1>6. UserAt(u)'
  BY <1>1, <1>2, <1>3, <1>5 DEF MovedTo, UserAt, InKey, Alone, StartPcs, At, KeyOf, IsCurrent
<1>7. (HoldsSlot(u)' <=> HoldsSlot(u)) /\ user'[u].rt = user[u].rt
  BY <1>3 DEF MovedTo, HoldsSlot, At
<1> QED
  BY <1>3, <1>4, <1>6, <1>7, QuietStep

LEMMA WarmUpFailsKeeps ==
    ASSUME PoolInv, NEW u \in Users, WarmUpFails(u)
    PROVE  PoolInv'
<1>1. backoff' \in Backoffs
  BY FailureRecorded DEF WarmUpFails, PoolInv
<1> QED
  BY <1>1, BeginsStopping DEF WarmUpFails, At

LEMMA CheckPassesKeeps ==
    ASSUME PoolInv, NEW u \in Users, CheckPasses(u)
    PROVE  PoolInv'
<1>1. UserAt(u) /\ user[u].pc = "check"
  BY CheckOf DEF CheckPasses, At
<1>2. MovedTo(u, "using", user[u].check, user[u].rt)
  BY MovesOn DEF CheckPasses, PoolInv, UserPcs
<1>3. HeadsKept(u) /\ keyLocks' \subseteq Keys /\ backoff' \in Backoffs /\ NothingStarts
  BY StaysInQueue, ProcessesStay DEF CheckPasses, PoolInv, Shapes
<1>4. UserAt(u)' /\ ~HoldsSlot(u)' /\ ~HoldsSlot(u)
  BY <1>1, <1>2 DEF MovedTo, UserAt, InKey, Alone, StartPcs, HoldsSlot, At, CheckPasses
<1> QED
  BY <1>2, <1>3, <1>4, QuietStep DEF CheckPasses

LEMMA CheckFailsKeeps ==
    ASSUME PoolInv, NEW u \in Users, CheckFails(u)
    PROVE  PoolInv'
<1>1. UserAt(u) /\ user[u].pc = "check"
  BY CheckOf DEF CheckFails, At
<1> QED
  BY <1>1, WaitForKeyKeeps DEF CheckFails, UserAt

LEMMA UseEndsKeeps ==
    ASSUME PoolInv, NEW u \in Users, UseEnds(u)
    PROVE  PoolInv'
<1>0. /\ user[u].pc = "using" /\ backoff' \in Backoffs
      /\ UNCHANGED <<slots, persistent, backoff>> /\ UNCHANGED shared
  BY DEF UseEnds, At, PoolInv, Shapes
<1>1. CASE IsFresh(user[u].check)
  BY <1>0, <1>1, BeginsStopping DEF UseEnds
<1>2. CASE ~IsFresh(user[u].check)
  <2>1. UNCHANGED runtime
    BY <1>2 DEF UseEnds
  <2>2. CASE \E p \in {"wantFinish", "wantRetire"} : WaitForKey(u, p)
    BY <1>0, <1>2, <2>1, <2>2, WaitForKeyKeeps
  <2>3. CASE Leave(u) /\ UNCHANGED keyLocks
    BY <1>0, <1>2, <2>1, <2>3, LeavesQuietly, ProcessesStay DEF HoldsSlot, At, PoolInv, Shapes
  <2> QED
    BY <1>2, <2>2, <2>3 DEF UseEnds
<1> QED
  BY <1>1, <1>2

LEMMA RetireKeeps ==
    ASSUME PoolInv, NEW u \in Users, Retire(u)
    PROVE  PoolInv'
<1>1. /\ user[u].pc \in {"wantRetire", "wantFinish"} /\ IsCurrent(u)
      /\ Holds(keyQueue[KeyOf(u)], u)
  BY DEF Retire, HasKey, At, KeyOf
<1>2. backoff' \in Backoffs
  BY DEF Retire, PoolInv, Shapes
<1> QED
  BY <1>1, <1>2, BeginsStopping DEF Retire

LEMMA FinishKeeps ==
    ASSUME PoolInv, NEW u \in Users, Finish(u)
    PROVE  PoolInv'
<1>1. backoff' \in Backoffs
  BY ResetType DEF Finish, PoolInv, Shapes
<1>2. ~HoldsSlot(u)
  BY DEF Finish, HasKey, At, HoldsSlot
<1>3. NothingStarts /\ keyLocks' \subseteq Keys
  BY ProcessesCollected DEF Finish, PoolInv, Shapes
<1> QED
  BY <1>1, <1>2, <1>3, LeavesQuietly DEF Finish

-----------------------------------------------------------------------------
LEMMA TakeSlotKeeps ==
    ASSUME PoolInv, NEW u \in Users, TakeSlot(u)
    PROVE  PoolInv'
<1> USE DEF PoolInv
<1>0. /\ user[u].pc = "wantSlot" /\ slots > 0 /\ slots' = slots - 1
      /\ user' = [user EXCEPT ![u].pc = "starting"]
      /\ UNCHANGED <<persistent, keyLocks, keyQueue, backoff, runtime>> /\ UNCHANGED shared
  BY DEF TakeSlot, At
<1>1. MovedTo(u, "starting", user[u].check, user[u].rt) /\ HeadsKept(u) /\ NothingStarts
  BY <1>0, MovesOn, StaysInQueue, ProcessesStay DEF UserPcs
<1>2. Shapes'
  BY <1>0, <1>1 DEF Shapes, shared, MovedTo
<1>3. UserAt(u)' /\ HoldsSlot(u)' /\ ~HoldsSlot(u)
  BY <1>0, <1>1, CheckOf DEF MovedTo, UserAt, InKey, Alone, StartPcs, HoldsSlot, At, KeyOf
<1>4. SlotsConserved'
  <2>1. Holders' = Holders \cup {u} /\ u \notin Holders
    BY <1>1, <1>3 DEF Holders, HoldsSlot, At, MovedTo
  <2>2. Held' = Held
    BY <1>0 DEF Held
  <2> QED
    BY <1>0, <2>1, <2>2, SlotTaken DEF Shapes
<1>5. StepOf(u)
  BY <1>0, <1>1, <1>3 DEF StepOf, MovedTo, HeadsKept, Running
<1> QED
  BY <1>0, <1>2, <1>3, <1>4, <1>5, OneUserMoves

\* u leaves from where it has a slot, its process, if it has one, having stopped.
LEMMA LeavesWithSlot ==
    ASSUME PoolInv, NEW u \in Users, Leave(u), HoldsSlot(u), slots' = slots + 1, NothingStarts,
           \A r \in Runtimes : r = user[u].rt => ~Running(r)',
           UNCHANGED <<persistent, keyLocks>>, UNCHANGED shared, backoff' \in Backoffs
    PROVE  PoolInv'
<1> USE DEF PoolInv
<1>1. MovedTo(u, "idle", <<>>, NoRt) /\ HeadsKept(u)
  BY Leaves
<1>2. Shapes'
  BY <1>1 DEF Shapes, shared, MovedTo, HeadsKept, NothingStarts
<1>3. UserAt(u)' /\ ~HoldsSlot(u)'
  BY <1>1, IdleAt
<1>4. SlotsConserved'
  <2>1. Holders' = Holders \ {u} /\ u \in Holders
    BY <1>1, <1>3 DEF Holders, HoldsSlot, At, MovedTo
  <2>2. Held' = Held
    BY DEF Held
  <2> QED
    BY <2>1, <2>2, SlotGivenBack DEF Shapes
<1>5. StepOf(u)
  <2>1. \A r \in Runtimes : Running(r)' => Running(r) /\ user[u].rt # r
    BY DEF NothingStarts
  <2> QED
    BY <1>1, <2>1 DEF StepOf, MovedTo, HeadsKept, NothingStarts
<1> QED
  BY <1>2, <1>3, <1>4, <1>5, OneUserMoves

LEMMA StartFailsKeeps ==
    ASSUME PoolInv, NEW u \in Users, StartFails(u)
    PROVE  PoolInv'
<1>1. user[u].pc = "starting" /\ HoldsSlot(u) /\ user[u].rt = NoRt
  BY CheckOf DEF StartFails, At, HoldsSlot, UserAt
<1>2. backoff' \in Backoffs /\ NothingStarts
  BY FailureRecorded, ProcessesStay DEF StartFails, PoolInv
<1>3. \A r \in Runtimes : r # user[u].rt
  BY <1>1 DEF NoRt, Runtimes
<1> QED
  BY <1>1, <1>2, <1>3, LeavesWithSlot DEF StartFails

LEMMA DiscardedKeeps ==
    ASSUME PoolInv, NEW u \in Users, Discarded(u)
    PROVE  PoolInv'
<1>1. user[u].pc \in {"discard", "stopping"} /\ HoldsSlot(u)
  BY DEF Discarded, HoldsSlot
<1>2. PICK r \in Runtimes : r = user[u].rt
  BY <1>1, CheckOf DEF UserAt, UserRecord
<1>3. NothingStarts /\ ~Running(r)' /\ backoff' \in Backoffs
  BY <1>2, ProcessStopped DEF Discarded, PoolInv, Shapes
<1> QED
  BY <1>1, <1>2, <1>3, LeavesWithSlot DEF Discarded

LEMMA CancelledKeeps ==
    ASSUME PoolInv, NEW u \in Users, Cancelled(u)
    PROVE  PoolInv'
<1>0. UNCHANGED <<persistent, keyLocks, backoff>> /\ UNCHANGED shared
      /\ backoff' \in Backoffs /\ keyLocks' \subseteq Keys
  BY DEF Cancelled, PoolInv, Shapes
<1>1. CASE /\ user[u].pc \in {"wantKey", "wantStart", "wantSlot", "check", "wantRetire",
                              "wantFinish"}
           /\ Leave(u) /\ UNCHANGED slots /\ runtime' = Collected(runtime)
  BY <1>0, <1>1, LeavesQuietly, ProcessesCollected DEF PoolInv, HoldsSlot, At
<1>2. CASE At(u, "starting") /\ slots' = slots + 1 /\ Leave(u) /\ UNCHANGED runtime
  <2>1. HoldsSlot(u) /\ user[u].rt = NoRt
    BY <1>2, CheckOf DEF At, HoldsSlot, UserAt
  <2> QED
    BY <1>0, <1>2, <2>1, LeavesWithSlot, ProcessesStay DEF PoolInv, NoRt, Runtimes
<1>3. CASE /\ At(u, "warming")
           /\ user' = [user EXCEPT ![u].pc = "discard"]
           /\ runtime' = Stopping(user[u].rt)
           /\ UNCHANGED <<slots, keyQueue>>
  BY <1>0, <1>3, BeginsStopping DEF At
<1> QED
  BY <1>1, <1>2, <1>3 DEF Cancelled

-----------------------------------------------------------------------------
\* The runtime r is the one that was started for u, and the others are as they were.
Launched(u, r) ==
    /\ user[u].pc \in {"starting", "warming"} /\ status # "closed"
    /\ user[u].rt \in {NoRt, r}
    /\ runtime' \in [Runtimes -> RuntimeRecord]
    /\ runtime'[r].profile = ProfileOf(user[u].check)
    /\ \A s \in Runtimes \ {r} :
          runtime'[s].profile = runtime[s].profile /\ (Running(s)' => Running(s))
    /\ (\E v \in Users \ {u} : user[v].rt = r) \/ (\E k \in Keys : persistent[k].rt = r)
       => runtime'[r].profile = runtime[r].profile

\* u has it, and the slot it was started in.
LEMMA LaunchedForUser ==
    ASSUME PoolInv, NEW u \in Users, NEW r \in Runtimes, Launched(u, r),
           NEW p \in {"warming", "discard", "using"}, p = "using" => IsFresh(user[u].check),
           MovedTo(u, p, user[u].check, r),
           UNCHANGED <<slots, persistent, keyLocks, keyQueue>>, UNCHANGED shared,
           backoff' \in Backoffs
    PROVE  PoolInv'
<1> USE DEF PoolInv
<1>0. UserAt(u) /\ user[u].pc \in {"starting", "warming"}
  BY CheckOf DEF Launched
<1>1. Shapes'
  BY DEF Shapes, shared, MovedTo, Launched
<1>2. HoldsSlot(u)' /\ HoldsSlot(u) /\ user'[u].rt = r
  BY <1>0 DEF HoldsSlot, At, MovedTo
<1>3. UserAt(u)'
  BY <1>0 DEF Launched, MovedTo, UserAt, InKey, Alone, StartPcs, KeyOf, NoRt, Runtimes
<1>4. SlotsConserved'
  <2>1. Holders' = Holders
    BY <1>2 DEF Holders, HoldsSlot, At, MovedTo
  <2>2. Held' = Held
    BY DEF Held
  <2> QED
    BY <2>1, <2>2, SlotsSame
<1>5. StepOf(u)
  <2>1. \A s \in Runtimes : Running(s)' =>
          \/ HoldsSlot(u)' /\ user'[u].rt = s
          \/ \E k \in Keys : persistent'[k].rt = s
          \/ Running(s) /\ (\A k \in Keys : persistent[k].rt # s)
                        /\ ~(HoldsSlot(u) /\ user[u].rt = s)
    BY <1>2 DEF Launched, NoRt, Runtimes
  <2>2. \A s \in Runtimes :
          \/ \E v \in Users \ {u} : user[v].rt = s
          \/ \E k \in Keys : persistent'[k].rt = s /\ persistent[k].rt = s
          => runtime'[s].profile = runtime[s].profile
    BY DEF Launched
  <2> QED
    BY <2>1, <2>2 DEF StepOf, MovedTo, Launched
<1> QED
  BY <1>1, <1>3, <1>4, <1>5, OneUserMoves

\* It is published under its key, and the slot goes with it.
LEMMA LaunchedForKey ==
    ASSUME PoolInv, NEW u \in Users, NEW r \in Runtimes, Launched(u, r),
           ~IsFresh(user[u].check), ~Closed, IsDesired(user[u].check),
           persistent' = [persistent EXCEPT ![KeyOf(u)] =
                             [rt |-> r, gen |-> user[u].check.gen, stable |-> user[u].delay]],
           keyQueue' = [keyQueue EXCEPT ![KeyOf(u)] = Tail(@)],
           MovedTo(u, "check", user[u].check, r),
           UNCHANGED <<slots, keyLocks, backoff>>, UNCHANGED shared
    PROVE  PoolInv'
<1> USE DEF PoolInv
<1> DEFINE c == user[u].check
<1>k. PICK k \in Keys : k = KeyOf(u)
  BY CheckOf DEF Launched
<1>0. /\ UserAt(u) /\ user[u].pc \in {"starting", "warming"} /\ k \in Keys /\ k = c.key
      /\ c \in Check /\ user[u] \in UserRecord /\ c.gen \in Gens
  BY <1>k, CheckOf DEF Launched, KeyOf, Check
<1>1. Holds(keyQueue[k], u) /\ persistent[k].rt = NoRt
  BY <1>k, <1>0 DEF UserAt, InKey, StartPcs
<1>2. /\ persistent' \in [Keys -> EntryRecord]
      /\ persistent'[k].rt = r /\ persistent'[k].gen = c.gen
      /\ \A j \in Keys \ {k} : persistent'[j] = persistent[j]
  BY <1>k, <1>0 DEF Shapes, EntryRecord, UserRecord
<1>3. HeadsKept(u)
  BY <1>k, <1>0, <1>1, Releases
<1>4. Shapes'
  BY <1>2, <1>3 DEF Shapes, shared, MovedTo, Launched, HeadsKept
<1>5. ~HoldsSlot(u)' /\ HoldsSlot(u) /\ user'[u].rt = r
  BY <1>0 DEF HoldsSlot, At, MovedTo
<1>6. UserAt(u)'
  BY <1>0 DEF Launched, MovedTo, UserAt, InKey, Alone, StartPcs, KeyOf, NoRt, Runtimes
<1>7. SlotsConserved'
  <2>1. Holders' = Holders \ {u} /\ u \in Holders
    BY <1>5 DEF Holders, HoldsSlot, At, MovedTo
  <2>2. Held' = Held \cup {k} /\ k \notin Held
    BY <1>0, <1>1, <1>2 DEF Held, NoRt, Runtimes
  <2> QED
    BY <1>0, <2>1, <2>2, SlotPublished DEF Shapes
<1>8. StepOf(u)
  <2>1. \A s \in Runtimes : Running(s)' =>
          \/ HoldsSlot(u)' /\ user'[u].rt = s
          \/ \E j \in Keys : persistent'[j].rt = s
          \/ Running(s) /\ (\A j \in Keys : persistent[j].rt # s)
                        /\ ~(HoldsSlot(u) /\ user[u].rt = s)
    <3> SUFFICES ASSUME NEW s \in Runtimes, Running(s)', \A j \in Keys : persistent'[j].rt # s
                 PROVE  Running(s) /\ (\A j \in Keys : persistent[j].rt # s) /\ user[u].rt # s
      OBVIOUS
    <3>1. s # r /\ s # NoRt
      BY <1>0, <1>2 DEF NoRt, Runtimes
    <3> QED
      BY <1>1, <1>2, <3>1 DEF Launched
  <2>2. \A s \in Runtimes :
          \/ \E v \in Users \ {u} : user[v].rt = s
          \/ \E j \in Keys : persistent'[j].rt = s /\ persistent[j].rt = s
          => runtime'[s].profile = runtime[s].profile
    BY DEF Launched
  <2>3. EntryAt(k)' /\ desired[k] \in {persistent'[k].gen, AnyGen}
    BY <1>0, <1>2 DEF EntryAt, Launched, ProfileOf, IsDesired
  <2> QED
    BY <1>0, <1>1, <1>2, <1>3, <2>1, <2>2, <2>3 DEF StepOf, MovedTo, Launched, HeadsKept
<1> QED
  BY <1>4, <1>6, <1>7, <1>8, OneUserMoves

\* The end of a start, whether it warmed up or not
LEMMA CompleteKeeps ==
    ASSUME PoolInv, NEW u \in Users, NEW r \in Runtimes, NEW started, Complete(u, r, started),
           user[u].pc \in {"starting", "warming"}, status # "closed", user[u].rt \in {NoRt, r},
           started \in [Runtimes -> RuntimeRecord],
           started[r].profile = ProfileOf(user[u].check),
           \A s \in Runtimes \ {r} : started[s] = runtime[s],
           (\E v \in Users \ {u} : user[v].rt = r) \/ (\E k \in Keys : persistent[k].rt = r)
           => started[r].profile = runtime[r].profile
    PROVE  PoolInv'
<1> DEFINE c == user[u].check
<1>0. /\ c.key = KeyOf(u) /\ KeyOf(u) \in Keys
      /\ UNCHANGED <<slots, keyLocks>> /\ UNCHANGED shared
  BY CheckOf DEF Complete, KeyOf
<1>1. CASE runtime' = started \/ runtime' = BeginStop(started, r)
  <2>0. Launched(u, r)
    <3>1. CASE runtime' = started
      BY <3>1 DEF Launched, Running
    <3>2. CASE runtime' = BeginStop(started, r)
      <4>1. \A s \in Runtimes : Running(s)' <=> IsUp(started, s)
        BY <3>2, BeginStopFacts DEF Running, IsUp
      <4>2. \A s \in Runtimes : runtime'[s].profile = started[s].profile
        BY <3>2, BeginStopFacts
      <4>3. runtime' \in [Runtimes -> RuntimeRecord]
        BY <3>2, BeginStopFacts
      <4> QED
        BY <4>1, <4>2, <4>3 DEF Launched, IsUp, Running
    <3> QED
      BY <1>1, <3>1, <3>2
  <2>1. CASE /\ IsFresh(c) /\ user' = [user EXCEPT ![u].pc = "using", ![u].rt = r]
             /\ backoff' = [backoff EXCEPT ![ProfileOf(c)] = NoBackoff]
             /\ UNCHANGED <<persistent, keyQueue>>
    <3>1. backoff' \in Backoffs
      BY <2>1 DEF PoolInv, Shapes, Backoffs, NoBackoff
    <3>2. MovedTo(u, "using", c, r)
      BY <2>1, MovesOnWithRuntime DEF PoolInv, UserPcs
    <3> QED
      BY <1>0, <2>0, <2>1, <3>1, <3>2, LaunchedForUser
  <2>2. CASE /\ ~IsFresh(c) /\ ~Closed /\ IsDesired(c)
             /\ persistent' = [persistent EXCEPT ![c.key] =
                                  [rt |-> r, gen |-> c.gen, stable |-> user[u].delay]]
             /\ keyQueue' = [keyQueue EXCEPT ![c.key] = Tail(@)]
             /\ user' = [user EXCEPT ![u].pc = "check", ![u].rt = r, ![u].delay = 0]
             /\ UNCHANGED backoff
    <3>1. MovedTo(u, "check", c, r)
      BY <2>2, MovesOnWithBoth DEF PoolInv, UserPcs
    <3> QED
      BY <1>0, <2>0, <2>2, <3>1, LaunchedForKey
  <2>3. CASE /\ user' = [user EXCEPT ![u].pc = "discard", ![u].rt = r]
             /\ UNCHANGED <<persistent, keyQueue, backoff>>
    <3>1. backoff' \in Backoffs
      BY <2>3 DEF PoolInv, Shapes
    <3>2. MovedTo(u, "discard", c, r)
      BY <2>3, MovesOnWithRuntime DEF PoolInv, UserPcs
    <3> QED
      BY <1>0, <2>0, <2>3, <3>1, <3>2, LaunchedForUser
  <2> QED
    BY <2>1, <2>2, <2>3 DEF Complete
<1> QED
  BY <1>1 DEF Complete

LEMMA StartSucceedsKeeps ==
    ASSUME PoolInv, NEW u \in Users, StartSucceeds(u)
    PROVE  PoolInv'
<1> DEFINE c == user[u].check
           started(r) == [runtime EXCEPT ![r] = [state |-> "up", profile |-> ProfileOf(c)]]
<1>1. PICK r \in Unused : r = NextRuntime
  BY DEF StartSucceeds, NextRuntime
<1>2. /\ user[u].pc = "starting" /\ status \in {"open", "closing"}
      /\ UserAt(u) /\ user[u].rt = NoRt /\ ProfileOf(c) \in Profiles
  BY CheckOf DEF StartSucceeds, At, UserAt
<1>3. /\ r \in Runtimes /\ \A k \in Keys : persistent[k].rt # r
      /\ \A v \in Users : user[v].rt # r
  BY <1>1 DEF Unused
<1>4. /\ started(r) \in [Runtimes -> RuntimeRecord]
      /\ started(r)[r].profile = ProfileOf(c)
      /\ \A s \in Runtimes \ {r} : started(r)[s] = runtime[s]
  BY <1>2, <1>3 DEF PoolInv, Shapes, RuntimeRecord
<1>5. CASE Complete(u, r, started(r))
  <2> HIDE DEF started
  <2> QED
    BY <1>2, <1>3, <1>4, <1>5, CompleteKeeps
<1>6. CASE /\ runtime' = started(r)
           /\ user' = [user EXCEPT ![u].pc = "warming", ![u].rt = r]
           /\ UNCHANGED <<slots, persistent, keyLocks, keyQueue, backoff>>
           /\ UNCHANGED shared
  <2> HIDE DEF started
  <2>1. MovedTo(u, "warming", c, r)
    BY <1>3, <1>6, MovesOnWithRuntime DEF PoolInv, UserPcs
  <2>2. Launched(u, r)
    BY <1>2, <1>3, <1>4, <1>6 DEF Launched, Running
  <2>3. backoff' \in Backoffs
    BY <1>6 DEF PoolInv, Shapes
  <2> QED
    BY <1>3, <1>6, <2>1, <2>2, <2>3, LaunchedForUser
<1> QED
  BY <1>1, <1>5, <1>6 DEF StartSucceeds

LEMMA WarmedUpKeeps ==
    ASSUME PoolInv, NEW u \in Users, WarmedUp(u)
    PROVE  PoolInv'
<1>1. PICK r \in Runtimes : r = user[u].rt
  BY CheckOf DEF WarmedUp, At, UserAt, UserRecord
<1>2. /\ user[u].pc = "warming" /\ runtime[r].state = "up" /\ UserAt(u)
      /\ Complete(u, r, runtime)
  BY <1>1, CheckOf DEF WarmedUp, At, Alive
<1>3. status # "closed"
  BY <1>2 DEF PoolInv, OwnerAt, Running
<1>4. runtime[r].profile = ProfileOf(user[u].check)
  BY <1>1, <1>2 DEF UserAt
<1>5. runtime \in [Runtimes -> RuntimeRecord]
  BY DEF PoolInv, Shapes
<1> QED
  BY <1>1, <1>2, <1>3, <1>4, <1>5, CompleteKeeps

-----------------------------------------------------------------------------
\* The user that has the lock of key k has stopped what was kept under it.
LEMMA RemovedFacts ==
    ASSUME PoolInv, NEW u \in Users, NEW k \in Keys, k = KeyOf(u), user[u].pc \in Alone,
           NEW b, Removed(k, b)
    PROVE  /\ persistent[k].rt \in Runtimes /\ persistent[k].gen \in Gens
           /\ Holds(keyQueue[k], u) /\ ~HoldsSlot(u) /\ UserAt(u)
           /\ persistent' \in [Keys -> EntryRecord] /\ persistent'[k].rt = NoRt
           /\ \A j \in Keys \ {k} : persistent'[j] = persistent[j]
           /\ NothingStarts /\ slots' = slots + 1 /\ backoff' \in Backoffs
           /\ \A s \in Runtimes : s = persistent[k].rt => ~Running(s)'
<1>1. UserAt(u) /\ persistent[k] \in EntryRecord
  BY CheckOf DEF Alone
<1>2. Holds(keyQueue[k], u) /\ persistent[k].rt # NoRt
  BY <1>1 DEF UserAt, InKey, Alone, StartPcs
<1>3. PICK r \in Runtimes : r = persistent[k].rt
  BY <1>1, <1>2 DEF EntryRecord
<1>4. NothingStarts /\ ~Running(r)'
  BY <1>3, ProcessStopped DEF PoolInv, Removed
<1>5. NoEntry \in EntryRecord /\ NoEntry.rt = NoRt
  BY DEF NoEntry, EntryRecord
<1>6. persistent[k].gen \in Gens /\ <<k, persistent[k].gen>> \in Profiles
  BY <1>2 DEF PoolInv, EntryAt, Profiles
<1>7. backoff' \in Backoffs
  <2>1. backoff[<<k, persistent[k].gen>>] \in [delay : Nat, wait : Nat]
    BY <1>6 DEF PoolInv, Shapes, Backoffs
  <2> QED
    BY <2>1, AfterFailureType DEF PoolInv, Shapes, Backoffs, Removed
<1>8. /\ persistent' \in [Keys -> EntryRecord] /\ persistent'[k].rt = NoRt
      /\ \A j \in Keys \ {k} : persistent'[j] = persistent[j]
  BY <1>5 DEF Removed, PoolInv, Shapes
<1>9. ~HoldsSlot(u)
  BY DEF HoldsSlot, At, Alone
<1> QED
  BY <1>1, <1>2, <1>3, <1>4, <1>6, <1>7, <1>8, <1>9 DEF Removed

LEMMA RemovedKeeps ==
    ASSUME PoolInv, NEW u \in Users, NEW k \in Keys, k = KeyOf(u), user[u].pc \in Alone,
           NEW b, Removed(k, b), UNCHANGED keyLocks, UNCHANGED shared,
           NEW p, NEW c, NEW r, MovedTo(u, p, c, r), HeadsKept(u), ~HoldsSlot(u)', UserAt(u)'
    PROVE  PoolInv'
<1> USE DEF PoolInv
<1>1. /\ persistent[k].rt \in Runtimes /\ Holds(keyQueue[k], u) /\ ~HoldsSlot(u)
      /\ persistent' \in [Keys -> EntryRecord] /\ persistent'[k].rt = NoRt
      /\ \A j \in Keys \ {k} : persistent'[j] = persistent[j]
      /\ NothingStarts /\ slots' = slots + 1 /\ backoff' \in Backoffs
      /\ \A s \in Runtimes : s = persistent[k].rt => ~Running(s)'
  BY RemovedFacts
<1>2. Shapes'
  BY <1>1 DEF Shapes, shared, MovedTo, HeadsKept, NothingStarts
<1>3. SlotsConserved'
  <2>1. Holders' = Holders
    BY <1>1 DEF Holders, HoldsSlot, At, MovedTo
  <2>2. Held' = Held \ {k} /\ k \in Held
    BY <1>1 DEF Held, NoRt, Runtimes
  <2> QED
    BY <1>1, <2>1, <2>2, SlotOfKeyGivenBack DEF Shapes
<1>4. StepOf(u)
  <2>1. \A s \in Runtimes : Running(s)' =>
          \/ HoldsSlot(u)' /\ user'[u].rt = s
          \/ \E j \in Keys : persistent'[j].rt = s
          \/ Running(s) /\ (\A j \in Keys : persistent[j].rt # s)
                        /\ ~(HoldsSlot(u) /\ user[u].rt = s)
    <3> SUFFICES ASSUME NEW s \in Runtimes, Running(s)', \A j \in Keys : persistent'[j].rt # s
                 PROVE  Running(s) /\ (\A j \in Keys : persistent[j].rt # s)
      BY <1>1
    <3>1. s # persistent[k].rt
      BY <1>1
    <3> QED
      BY <1>1, <3>1 DEF NothingStarts
  <2>2. \A s \in Runtimes :
          \/ \E v \in Users \ {u} : user[v].rt = s
          \/ \E j \in Keys : persistent'[j].rt = s /\ persistent[j].rt = s
          => runtime'[s].profile = runtime[s].profile
    BY <1>1 DEF NothingStarts, MovedTo
  <2>3. EntryAt(k)'
    BY <1>1 DEF EntryAt
  <2> QED
    BY <1>1, <2>1, <2>2, <2>3 DEF StepOf, MovedTo, NothingStarts, HeadsKept
<1> QED
  BY <1>2, <1>3, <1>4, OneUserMoves

LEMMA RetiredKeeps ==
    ASSUME PoolInv, NEW u \in Users, Retired(u)
    PROVE  PoolInv'
<1>1. user[u].pc \in Alone
  BY DEF Retired, At, Alone
<1>2. PICK k \in Keys : k = KeyOf(u)
  BY <1>1, CheckOf DEF Alone
<1>3. MovedTo(u, "idle", <<>>, NoRt) /\ HeadsKept(u) /\ UserAt(u)' /\ ~HoldsSlot(u)'
  BY Leaves, IdleAt DEF PoolInv, Retired
<1> QED
  BY <1>1, <1>2, <1>3, RemovedKeeps DEF Retired, KeyOf

LEMMA ReplacedKeeps ==
    ASSUME PoolInv, NEW u \in Users, Replaced(u)
    PROVE  PoolInv'
<1> DEFINE c == user[u].check
           b == persistent[c.key].gen = c.gen
<1>1. user[u].pc = "replace" /\ user[u].pc \in Alone
  BY DEF Replaced, At, Alone
<1>2. PICK k \in Keys : k = KeyOf(u)
  BY <1>1, CheckOf
<1>3. Removed(k, b) /\ UNCHANGED keyLocks /\ UNCHANGED shared
  BY <1>2 DEF Replaced, KeyOf
<1>4. CASE Leave(u)
  <2>1. MovedTo(u, "idle", <<>>, NoRt) /\ HeadsKept(u) /\ UserAt(u)' /\ ~HoldsSlot(u)'
    BY <1>4, Leaves, IdleAt DEF PoolInv
  <2> HIDE DEF b
  <2> QED
    BY <1>1, <1>2, <1>3, <2>1, RemovedKeeps
<1>5. ASSUME NEW d \in Nat, UNCHANGED keyQueue,
             user' = [user EXCEPT ![u].pc = "wantStart", ![u].delay = d]
      PROVE  PoolInv'
  <2>1. MovedTo(u, "wantStart", c, user[u].rt) /\ HeadsKept(u)
    BY <1>5, MovesOnWithDelay, StaysInQueue DEF PoolInv, UserPcs
  <2> HIDE DEF b
  <2>2. UserAt(u) /\ persistent'[k].rt = NoRt /\ Holds(keyQueue[k], u)
    BY <1>1, <1>2, <1>3, RemovedFacts
  <2>3. UserAt(u)' /\ ~HoldsSlot(u)'
    BY <1>1, <1>2, <1>5, <2>1, <2>2
    DEF MovedTo, UserAt, InKey, Alone, StartPcs, HoldsSlot, At, KeyOf
  <2> QED
    BY <1>1, <1>2, <1>3, <2>1, <2>3, RemovedKeeps
<1>6. ProfileOf(c) \in Profiles /\ backoff[ProfileOf(c)] \in [delay : Nat, wait : Nat]
  BY <1>1, CheckOf DEF PoolInv, Shapes, Backoffs
<1>7. (IF b THEN AfterFailure(backoff[ProfileOf(c)]).delay ELSE backoff[ProfileOf(c)].delay) \in Nat
  BY <1>6, AfterFailureType
<1> QED
  BY <1>4, <1>5, <1>7 DEF Replaced

-----------------------------------------------------------------------------
LEMMA UserKeeps ==
    ASSUME PoolInv, NEW u \in Users,
           UserStep(u) \/ Cancelled(u) \/ \E c \in inventory : Acquire(u, c)
    PROVE  PoolInv'
<1>1. CASE UserStep(u)
  BY <1>1, ObsoleteKeeps, ReuseKeeps, ReplaceKeeps, BeginStartKeeps, EnforceBackoffKeeps,
     TakeSlotKeeps, StartFailsKeeps, StartSucceedsKeeps, WarmedUpKeeps, WarmUpFailsKeeps,
     DiscardedKeeps, CheckPassesKeeps, CheckFailsKeeps, UseEndsKeeps, RetireKeeps, FinishKeeps,
     RetiredKeeps, ReplacedKeeps DEF UserStep
<1> QED
  BY <1>1, CancelledKeeps, AcquireKeeps

-----------------------------------------------------------------------------
\* A view from which the owner walks on
ViewType(v) ==
    /\ v.status \in {"open", "closing"}
    /\ v.desired \in [Keys -> Gens \cup {NoGen, AnyGen}]
    /\ v.entries \in [Keys -> EntryRecord]
    /\ v.queues \in Queued
    /\ v.backoff \in Backoffs
    /\ v.runtime \in [Runtimes -> RuntimeRecord]

LEMMA ResetStableType ==
    ASSUME NEW K, NEW v, v.backoff \in Backoffs
    PROVE  ResetStable(K, v) \in Backoffs
<1>1. NoBackoff \in [delay : Nat, wait : Nat]
  BY DEF NoBackoff
<1> QED
  BY <1>1 DEF ResetStable, Backoffs

\* Where a walk ends, or at which key it suspends
WalkedTo(todo, v) ==
    /\ owner' \in OwnerRecord /\ keyLocks' \subseteq Keys /\ backoff' \in Backoffs
    /\ keyQueue' \in Queued
    /\ \A k \in Keys : \A h : Holds(v.queues[k], h) => Holds(keyQueue'[k], h)
    /\ status' \in {"open", "closing", "managerClosing"}
    /\ status' # "open" => v.status # "open"
    /\ status' = "managerClosing" => owner'.pc = "idle"
    /\ owner'.pc # "idle" => owner'.key \in Keys
    /\ owner'.pc = "evicting" => /\ Holds(keyQueue'[owner'.key], Owner)
                                 /\ v.entries[owner'.key].rt # NoRt
    /\ Pending' \subseteq todo
    /\ \A k \in todo \ Pending' : NothingToDo(k, v)

\* The processes are those of the view, and those that are referred to are the same.
ProcessesOf(rts) ==
    /\ runtime' \in [Runtimes -> RuntimeRecord]
    /\ \A s \in Runtimes : Running(s)' => IsUp(rts, s)
    /\ \A s \in Runtimes :
          (\E u \in Users : user'[u].rt = s) \/ (\E k \in Keys : persistent'[k].rt = s)
          => runtime'[s].profile = rts[s].profile

LEMMA WalkFacts ==
    ASSUME Shapes, NEW todo \in SUBSET Keys, NEW v, ViewType(v), Walk(todo, v)
    PROVE  WalkedTo(todo, v) /\ ProcessesOf(v.runtime)
<1>0. PICK passed \in SUBSET {k \in todo : v.queues[k] = <<>> /\ NothingToDo(k, v)} :
        \/ /\ passed = todo
           /\ EndOfWalk(v, ResetStable(passed, v))
           /\ keyQueue' = v.queues /\ runtime' = Collected(v.runtime)
        \/ \E k \in todo \ passed :
              /\ v.queues[k] # <<>> \/ ~NothingToDo(k, v)
              /\ keyQueue' = [v.queues EXCEPT ![k] = Append(@, Owner)]
              /\ backoff' = ResetStable(passed, v)
              /\ status' = v.status /\ UNCHANGED keyLocks
              /\ owner' = [pc |-> IF v.queues[k] = <<>> THEN "evicting" ELSE "waiting",
                           key |-> k, todo |-> todo \ (passed \cup {k})]
              /\ runtime' = Collected(IF v.queues[k] # <<>> THEN v.runtime
                                      ELSE BeginStop(v.runtime, v.entries[k].rt))
  BY DEF Walk
<1>1. ResetStable(passed, v) \in Backoffs
  BY ResetStableType DEF ViewType
<1>2. ASSUME NEW rts \in [Runtimes -> RuntimeRecord], runtime' = Collected(rts),
             \A s \in Runtimes : /\ rts[s].profile = v.runtime[s].profile
                                 /\ IsUp(rts, s) <=> IsUp(v.runtime, s)
      PROVE  ProcessesOf(v.runtime)
  BY <1>2, CollectedFacts DEF ProcessesOf
<1>3. CASE /\ passed = todo
           /\ EndOfWalk(v, ResetStable(passed, v))
           /\ keyQueue' = v.queues /\ runtime' = Collected(v.runtime)
  <2>1. NoBackoff \in [delay : Nat, wait : Nat] /\ NoOwner \in OwnerRecord /\ NoOwner.pc = "idle"
    BY DEF NoBackoff, NoOwner, OwnerRecord
  <2>2. /\ owner' \in OwnerRecord /\ owner'.pc = "idle" /\ keyLocks' \subseteq Keys
        /\ status' \in {"open", "managerClosing"} /\ (status' # "open" => v.status # "open")
    BY <1>3, <2>1 DEF EndOfWalk, Shapes
  <2>3. backoff' \in Backoffs
    BY <1>1, <1>3, <2>1 DEF EndOfWalk, Backoffs
  <2>4. \A k \in todo : NothingToDo(k, v)
    BY <1>3
  <2>5. WalkedTo(todo, v)
    BY <1>3, <2>2, <2>3, <2>4 DEF ViewType, WalkedTo, Pending
  <2>6. ProcessesOf(v.runtime)
    BY <1>2, <1>3 DEF ViewType
  <2> QED
    BY <2>5, <2>6
<1>4. ASSUME NEW k \in todo \ passed,
             v.queues[k] # <<>> \/ ~NothingToDo(k, v),
             keyQueue' = [v.queues EXCEPT ![k] = Append(@, Owner)],
             backoff' = ResetStable(passed, v), status' = v.status, UNCHANGED keyLocks,
             owner' = [pc |-> IF v.queues[k] = <<>> THEN "evicting" ELSE "waiting",
                       key |-> k, todo |-> todo \ (passed \cup {k})],
             runtime' = Collected(IF v.queues[k] # <<>> THEN v.runtime
                                  ELSE BeginStop(v.runtime, v.entries[k].rt))
      PROVE  WalkedTo(todo, v) /\ ProcessesOf(v.runtime)
  <2>1. /\ owner' \in OwnerRecord /\ owner'.key = k /\ k \in Keys
        /\ owner'.pc = (IF v.queues[k] = <<>> THEN "evicting" ELSE "waiting")
        /\ owner'.todo = todo \ (passed \cup {k})
    BY <1>4 DEF OwnerRecord
  <2>2. v.queues[k] = <<>> => v.entries[k].rt # NoRt /\ v.entries[k].rt \in Runtimes
    BY <1>4, <2>1 DEF NothingToDo, ViewType, EntryRecord
  <2>3. /\ keyQueue' \in Queued
        /\ \A j \in Keys : \A h : Holds(v.queues[j], h) => Holds(keyQueue'[j], h)
        /\ v.queues[k] = <<>> => Holds(keyQueue'[k], Owner)
    <3>1. \A j \in Keys : v.queues[j] \in Seq(Users \cup {Owner})
      BY DEF ViewType, Queued
    <3>2. /\ Append(v.queues[k], Owner) \in Seq(Users \cup {Owner})
          /\ \A h : Holds(v.queues[k], h) => Holds(Append(v.queues[k], Owner), h)
          /\ v.queues[k] = <<>> => Holds(Append(v.queues[k], Owner), Owner)
      BY <2>1, <3>1, AppendKeepsHead
    <3> QED
      BY <1>4, <2>1, <3>1, <3>2 DEF ViewType, Queued
  <2>4. Pending' = todo \ passed
    BY <1>4, <2>1 DEF Pending
  <2>5. WalkedTo(todo, v)
    BY <1>1, <1>4, <2>1, <2>2, <2>3, <2>4 DEF WalkedTo, ViewType, Shapes
  <2>6. CASE v.queues[k] # <<>>
    BY <1>2, <1>4, <2>5, <2>6 DEF ViewType
  <2>7. CASE v.queues[k] = <<>>
    <3>1. PICK r \in Runtimes : r = v.entries[k].rt
      BY <2>2, <2>7
    <3>2. runtime' = Collected(BeginStop(v.runtime, r))
      BY <1>4, <2>7, <3>1
    <3> QED
      BY <1>2, <2>5, <3>2, BeginStopFacts DEF ViewType
  <2> QED
    BY <2>6, <2>7
<1> QED
  BY <1>0, <1>3, <1>4

\* How the view from which the owner walks on relates to the state before the step:
\* what users have is untouched, and an entry it lacks has lost its process.
Follows(v) ==
    /\ \A k \in Keys : \A h \in Users : Holds(keyQueue[k], h) => Holds(v.queues[k], h)
    /\ \A k \in Keys : \/ v.entries[k] = persistent[k]
                       \/ v.entries[k].rt = NoRt /\ \A h \in Users : ~Holds(keyQueue[k], h)
    /\ \A s \in Runtimes : v.runtime[s].profile = runtime[s].profile
    /\ \A s \in Runtimes : IsUp(v.runtime, s) =>
          Running(s) /\ \A k \in Keys : persistent[k].rt = s => v.entries[k].rt = s

LEMMA WalkKeeps ==
    ASSUME PoolInv, NEW todo \in SUBSET Keys, NEW v, ViewType(v), Walk(todo, v), Follows(v),
           inventory' \in Inventories, desired' = v.desired, persistent' = v.entries,
           UNCHANGED user, slots' \in Nat, SlotsConserved',
           v.status # "open" => \A k \in Keys : v.desired[k] = NoGen,
           \A k \in Keys \ todo : v.entries[k].rt # NoRt =>
               v.desired[k] \in {v.entries[k].gen, AnyGen}
    PROVE  PoolInv'
<1> USE DEF PoolInv
<1>0. WalkedTo(todo, v) /\ ProcessesOf(v.runtime)
  BY WalkFacts
<1>1. Shapes'
  BY <1>0 DEF Shapes, ViewType, WalkedTo, ProcessesOf
<1>2. ASSUME NEW u \in Users PROVE UserAt(u)'
  <2>1. UserAt(u) /\ user[u] \in UserRecord /\ user'[u] = user[u]
    BY DEF Shapes
  <2>2. user[u].rt # NoRt => runtime'[user[u].rt].profile = runtime[user[u].rt].profile
    BY <1>0, <2>1 DEF ProcessesOf, Follows, UserRecord
  <2>3. ASSUME InKey(u)
        PROVE  /\ Holds(keyQueue'[KeyOf(u)], u)
               /\ persistent'[KeyOf(u)] = persistent[KeyOf(u)]
    <3>1. KeyOf(u) \in Keys /\ Holds(keyQueue[KeyOf(u)], u)
      BY <2>1, <2>3 DEF UserAt, InKey, Check, KeyOf, Alone, StartPcs
    <3> QED
      BY <1>0, <3>1 DEF Follows, WalkedTo
  <2>4. (InKey(u)' <=> InKey(u)) /\ KeyOf(u)' = KeyOf(u)
    BY <2>1 DEF InKey, KeyOf
  <2> QED
    BY <2>1, <2>2, <2>3, <2>4 DEF UserAt
<1>3. ASSUME NEW k \in Keys PROVE EntryAt(k)'
  <2>1. EntryAt(k) /\ persistent[k] \in EntryRecord
    BY DEF Shapes
  <2>2. persistent'[k].rt # NoRt =>
           /\ persistent'[k] = persistent[k]
           /\ runtime'[persistent[k].rt].profile = runtime[persistent[k].rt].profile
    BY <1>0, <2>1 DEF ProcessesOf, Follows, EntryRecord
  <2> QED
    BY <2>1, <2>2 DEF EntryAt
<1>4. EveryProcessOwned'
  <2> SUFFICES ASSUME NEW r \in Runtimes, Running(r)'
               PROVE  \/ \E k \in Keys : persistent'[k].rt = r
                      \/ \E u \in Users : HoldsSlot(u)' /\ user'[u].rt = r
    BY DEF EveryProcessOwned
  <2>1. Running(r) /\ \A k \in Keys : persistent[k].rt = r => persistent'[k].rt = r
    BY <1>0 DEF ProcessesOf, Follows
  <2>2. \A u \in Users : HoldsSlot(u)' <=> HoldsSlot(u)
    BY DEF HoldsSlot, At
  <2> QED
    BY <2>1, <2>2 DEF EveryProcessOwned
<1>5. OwnerAt'
  <2>1. ASSUME NEW k \in Held' \ Pending'
        PROVE  desired'[k] \in {persistent'[k].gen, AnyGen}
    <3>1. CASE k \in todo
      BY <1>0, <2>1, <3>1 DEF WalkedTo, NothingToDo, Kept, Held
    <3>2. CASE k \notin todo
      BY <2>1, <3>2 DEF Held
    <3> QED
      BY <3>1, <3>2
  <2>2. Closed' => \A k \in Keys : desired'[k] = NoGen
    BY <1>0 DEF WalkedTo, Closed
  <2> QED
    BY <1>0, <2>1, <2>2 DEF OwnerAt, WalkedTo
<1> QED
  BY <1>1, <1>2, <1>3, <1>4, <1>5

\* reconcile() and close() begin: no entry, lock or process has changed yet.
LEMMA WalkBeginsKeeps ==
    ASSUME PoolInv, NEW v, Walk(KeysToVisit, v),
           v.status \in {"open", "closing"}, v.desired \in [Keys -> Gens \cup {NoGen, AnyGen}],
           v.entries = persistent, v.queues = keyQueue, v.backoff = backoff, v.runtime = runtime,
           v.status # "open" => \A k \in Keys : v.desired[k] = NoGen,
           inventory' \in Inventories, desired' = v.desired,
           UNCHANGED <<slots, persistent, user>>
    PROVE  PoolInv'
<1>1. ViewType(v) /\ KeysToVisit \in SUBSET Keys
  BY DEF PoolInv, Shapes, ViewType, KeysToVisit
<1>2. Follows(v)
  BY DEF Follows, IsUp, Running
<1>3. SlotsConserved' /\ slots' \in Nat
  <2>1. Holders' = Holders /\ Held' = Held
    BY DEF Holders, HoldsSlot, At, Held
  <2> QED
    BY <2>1, SlotsSame DEF PoolInv, Shapes
<1>4. \A k \in Keys \ KeysToVisit : v.entries[k].rt = NoRt
  BY DEF KeysToVisit
<1> QED
  BY <1>1, <1>2, <1>3, <1>4, WalkKeeps

LEMMA ReconcileKeeps ==
    ASSUME PoolInv, NEW inv \in Inventories, Reconcile(inv)
    PROVE  PoolInv'
<1>1. DesiredBy(inv) \in [Keys -> Gens \cup {NoGen, AnyGen}]
  <2>1. ASSUME NEW k \in Keys, \E c \in Persistent(inv) : c.key = k
        PROVE  (CHOOSE c \in Persistent(inv) : c.key = k).gen \in Gens
    <3>1. \A c \in Persistent(inv) : c.gen \in Gens
      BY InventoriesAssumption DEF Persistent, Check
    <3>2. (CHOOSE c \in Persistent(inv) : c.key = k) \in Persistent(inv)
      BY <2>1
    <3> QED
      BY <3>1, <3>2
  <2> QED
    BY <2>1 DEF DesiredBy
<1>2. PICK v : v = [View EXCEPT !.inv = inv, !.desired = DesiredBy(inv)]
  OBVIOUS
<1>3. /\ v.status = "open" /\ v.desired = DesiredBy(inv) /\ v.entries = persistent
      /\ v.queues = keyQueue /\ v.backoff = backoff /\ v.runtime = runtime
  BY <1>2 DEF View, Reconcile, Closed
<1> QED
  BY <1>1, <1>2, <1>3, WalkBeginsKeeps DEF Reconcile

LEMMA CloseKeeps ==
    ASSUME PoolInv, Close
    PROVE  PoolInv'
<1>2. PICK v : v = [View EXCEPT !.status = "closing", !.desired = [k \in Keys |-> NoGen]]
  OBVIOUS
<1>3. /\ v.status = "closing" /\ v.desired = [k \in Keys |-> NoGen] /\ v.entries = persistent
      /\ v.queues = keyQueue /\ v.backoff = backoff /\ v.runtime = runtime
  BY <1>2 DEF View
<1>4. inventory' \in Inventories
  BY DEF Close, PoolInv, Shapes
<1> QED
  BY <1>2, <1>3, <1>4, WalkBeginsKeeps DEF Close

LEMMA OwnerLockedKeeps ==
    ASSUME PoolInv, OwnerLocked
    PROVE  PoolInv'
<1> USE DEF PoolInv
<1>0. PICK k \in Keys : k = owner.key
  BY DEF OwnerLocked, OwnerAt
<1>1. /\ owner.pc = "waiting" /\ Holds(keyQueue[k], Owner) /\ status \in {"open", "closing"}
      /\ UNCHANGED <<inventory, desired, slots, slotQueue, persistent, startQueue, user>>
      /\ Pending = owner.todo \cup {k} /\ owner.todo \in SUBSET Keys
  BY <1>0 DEF OwnerLocked, OwnerAt, Shapes, OwnerRecord, Pending
<1>2. SlotsConserved' /\ slots' \in Nat
  <2>1. Holders' = Holders /\ Held' = Held
    BY <1>1 DEF Holders, HoldsSlot, At, Held
  <2> QED
    BY <1>1, <2>1, SlotsSame DEF Shapes
<1>3. CASE NothingToDo(k, View) /\ Walk(owner.todo, [View EXCEPT !.queues[k] = Tail(@),
                                                       !.backoff = ResetStable({k}, View)])
  <2>1. PICK v : v = [View EXCEPT !.queues[k] = Tail(@), !.backoff = ResetStable({k}, View)]
    OBVIOUS
  <2>2. /\ v.status = status /\ v.desired = desired /\ v.entries = persistent
        /\ v.queues = [keyQueue EXCEPT ![k] = Tail(@)] /\ v.runtime = runtime
        /\ v.backoff = ResetStable({k}, View)
    BY <2>1 DEF View
  <2>3. v.backoff \in Backoffs
    BY <2>2, ResetStableType DEF View, Shapes
  <2>4. v.queues \in Queued
    BY <1>1, <2>2, TailOfHead DEF Shapes, Queued
  <2>5. ViewType(v)
    BY <1>1, <2>2, <2>3, <2>4 DEF ViewType, Shapes
  <2>6. Follows(v)
    <3>1. \A h \in Users : ~Holds(keyQueue[k], h)
      BY <1>1, NamesAssumption DEF Holds
    <3>2. \A j \in Keys : \A h \in Users : Holds(keyQueue[j], h) => Holds(v.queues[j], h)
      BY <2>2, <3>1 DEF Shapes, Queued
    <3> QED
      BY <2>2, <3>2 DEF Follows, IsUp, Running
  <2>7. persistent[k].rt # NoRt => desired[k] = persistent[k].gen
    BY <1>3 DEF NothingToDo, Kept, View
  <2>8. \A j \in Keys \ owner.todo : v.entries[j].rt # NoRt =>
            v.desired[j] \in {v.entries[j].gen, AnyGen}
    BY <1>1, <2>2, <2>7 DEF OwnerAt, Held
  <2>9. v.status # "open" => \A j \in Keys : v.desired[j] = NoGen
    BY <2>2 DEF OwnerAt, Closed
  <2> QED
    BY <1>1, <1>2, <1>3, <2>1, <2>2, <2>5, <2>6, <2>8, <2>9, WalkKeeps DEF Shapes
<1>4. CASE /\ ~NothingToDo(k, View)
           /\ owner' = [owner EXCEPT !.pc = "evicting"]
           /\ runtime' = Stopping(persistent[k].rt)
           /\ UNCHANGED <<status, keyLocks, keyQueue, backoff>>
  <2>1. persistent[k].rt # NoRt /\ persistent[k].rt \in Runtimes
    BY <1>4 DEF NothingToDo, View, Shapes, EntryRecord
  <2>2. NothingStarts
    BY <1>4, <2>1, ProcessesStopping
  <2>3. /\ owner' \in OwnerRecord /\ owner'.pc = "evicting" /\ owner'.key = k
        /\ owner'.todo = owner.todo
    BY <1>0, <1>4 DEF Shapes, OwnerRecord
  <2>4. Shapes'
    BY <1>1, <1>2, <1>4, <2>2, <2>3 DEF Shapes, NothingStarts
  <2>5. ASSUME NEW u \in Users PROVE UserAt(u)'
    <3>1. UserAt(u) /\ user[u] \in UserRecord /\ user'[u] = user[u]
      BY <1>1 DEF Shapes
    <3>2. user[u].rt # NoRt => runtime'[user[u].rt].profile = runtime[user[u].rt].profile
      BY <2>2, <3>1 DEF NothingStarts, UserRecord
    <3> QED
      BY <1>1, <1>4, <3>1, <3>2 DEF UserAt, InKey, KeyOf
  <2>6. ASSUME NEW j \in Keys PROVE EntryAt(j)'
    <3>1. EntryAt(j) /\ persistent[j] \in EntryRecord /\ persistent'[j] = persistent[j]
      BY <1>1 DEF Shapes
    <3>2. persistent[j].rt # NoRt =>
             runtime'[persistent[j].rt].profile = runtime[persistent[j].rt].profile
      BY <2>2, <3>1 DEF NothingStarts, EntryRecord
    <3> QED
      BY <3>1, <3>2 DEF EntryAt
  <2>7. EveryProcessOwned'
    BY <1>1, <2>2 DEF EveryProcessOwned, NothingStarts, HoldsSlot, At
  <2>8. OwnerAt'
    <3>1. Pending' = Pending
      BY <1>0, <1>1, <2>3 DEF Pending
    <3>2. status' # "closed" /\ status' # "managerClosing"
      BY <1>1, <1>4
    <3>3. \A j \in Held' \ Pending' : desired'[j] \in {persistent'[j].gen, AnyGen}
      BY <1>1, <3>1 DEF OwnerAt, Held
    <3>4. Closed' => \A j \in Keys : desired'[j] = NoGen
      BY <1>1, <1>4 DEF OwnerAt, Closed
    <3> QED
      BY <1>1, <1>4, <2>1, <2>3, <3>2, <3>3, <3>4 DEF OwnerAt
  <2> QED
    BY <1>2, <2>4, <2>5, <2>6, <2>7, <2>8
<1> QED
  BY <1>0, <1>3, <1>4 DEF OwnerLocked

LEMMA OwnerEvictedKeeps ==
    ASSUME PoolInv, OwnerEvicted
    PROVE  PoolInv'
<1> USE DEF PoolInv
<1>0. PICK k \in Keys : k = owner.key
  BY DEF OwnerEvicted, OwnerAt
<1>1. /\ owner.pc = "evicting" /\ Holds(keyQueue[k], Owner) /\ status \in {"open", "closing"}
      /\ persistent[k].rt # NoRt /\ persistent[k] \in EntryRecord /\ persistent[k].gen \in Gens
      /\ UNCHANGED <<inventory, desired, slotQueue, startQueue, user>> /\ slots' = slots + 1
      /\ persistent' = [persistent EXCEPT ![k] = NoEntry]
      /\ Pending = owner.todo \cup {k} /\ owner.todo \in SUBSET Keys
  BY <1>0 DEF OwnerEvicted, OwnerAt, Shapes, OwnerRecord, Pending, EntryAt
<1>2. PICK r \in Runtimes : r = persistent[k].rt
  BY <1>1 DEF EntryRecord
<1> DEFINE p == <<k, persistent[k].gen>>
           b == desired[k] = persistent[k].gen
<1>3. PICK v : v = [View EXCEPT !.entries[k] = NoEntry, !.queues[k] = Tail(@),
                                !.backoff[p] = IF b THEN AfterFailure(@) ELSE @,
                                !.runtime = Stopped(r)]
  OBVIOUS
<1>4. Walk(owner.todo, v)
  BY <1>0, <1>2, <1>3 DEF OwnerEvicted
<1>5. /\ v.status = status /\ v.desired = desired /\ v.runtime = Stopped(r)
      /\ v.entries = persistent' /\ v.queues = [keyQueue EXCEPT ![k] = Tail(@)]
      /\ v.backoff = [backoff EXCEPT ![p] = IF b THEN AfterFailure(@) ELSE @]
  BY <1>1, <1>3 DEF View
<1>6. /\ persistent' \in [Keys -> EntryRecord] /\ persistent'[k].rt = NoRt
      /\ \A j \in Keys \ {k} : persistent'[j] = persistent[j]
  <2>1. NoEntry \in EntryRecord /\ NoEntry.rt = NoRt
    BY DEF NoEntry, EntryRecord
  <2> QED
    BY <1>1, <2>1 DEF Shapes
<1>7. v.backoff \in Backoffs
  <2>1. p \in Profiles
    BY <1>1 DEF Profiles
  <2>2. backoff[p] \in [delay : Nat, wait : Nat]
    BY <2>1 DEF Shapes, Backoffs
  <2> HIDE DEF p
  <2> QED
    BY <1>5, <2>2, AfterFailureType DEF Shapes, Backoffs
<1>8. v.queues \in Queued
  BY <1>1, <1>5, TailOfHead DEF Shapes, Queued
<1>9. ViewType(v)
  BY <1>1, <1>5, <1>6, <1>7, <1>8, StoppedFacts DEF ViewType, Shapes
<1>10. Follows(v)
  <2>1. \A h \in Users : ~Holds(keyQueue[k], h)
    BY <1>1, NamesAssumption DEF Holds
  <2>2. \A j \in Keys : \A h \in Users : Holds(keyQueue[j], h) => Holds(v.queues[j], h)
    BY <1>5, <2>1 DEF Shapes, Queued
  <2>3. \A s \in Runtimes : /\ v.runtime[s].profile = runtime[s].profile
                            /\ IsUp(v.runtime, s) => s # r /\ Running(s)
    BY <1>5, StoppedFacts
  <2>4. \A s \in Runtimes : s # r => \A j \in Keys : persistent[j].rt = s => v.entries[j].rt = s
    BY <1>2, <1>5, <1>6
  <2> QED
    BY <1>5, <1>6, <2>1, <2>2, <2>3, <2>4 DEF Follows
<1>11. SlotsConserved' /\ slots' \in Nat
  <2>1. Holders' = Holders
    BY <1>1 DEF Holders, HoldsSlot, At
  <2>2. Held' = Held \ {k} /\ k \in Held
    BY <1>1, <1>6 DEF Held
  <2> QED
    BY <1>1, <2>1, <2>2, SlotOfKeyGivenBack DEF Shapes
<1>12. \A j \in Keys \ owner.todo : v.entries[j].rt # NoRt =>
            v.desired[j] \in {v.entries[j].gen, AnyGen}
  BY <1>1, <1>5, <1>6 DEF OwnerAt, Held
<1>13. v.status # "open" => \A j \in Keys : v.desired[j] = NoGen
  BY <1>5 DEF OwnerAt, Closed
<1> QED
  BY <1>1, <1>4, <1>5, <1>9, <1>10, <1>11, <1>12, <1>13, WalkKeeps DEF Shapes

-----------------------------------------------------------------------------
\* Processes die or are stopped, or time passes, and nobody moves.
LEMMA NobodyMoves ==
    ASSUME PoolInv, UNCHANGED <<inventory, desired, slots, keyLocks, keyQueue, user, owner>>,
           persistent' \in [Keys -> EntryRecord],
           \A k \in Keys : /\ persistent'[k].rt = persistent[k].rt
                           /\ persistent'[k].gen = persistent[k].gen,
           backoff' \in Backoffs, NothingStarts,
           \/ UNCHANGED status
           \/ status = "managerClosing" /\ status' = "closed" /\ \A r \in Runtimes : ~Running(r)'
    PROVE  PoolInv'
<1> USE DEF PoolInv
<1>1. Shapes'
  BY DEF Shapes, NothingStarts
<1>2. ASSUME NEW u \in Users PROVE UserAt(u)'
  <2>1. UserAt(u) /\ user[u] \in UserRecord /\ user'[u] = user[u]
    BY DEF Shapes
  <2>2. user[u].rt # NoRt => runtime'[user[u].rt].profile = runtime[user[u].rt].profile
    BY <2>1 DEF NothingStarts, UserRecord
  <2>3. InKey(u) => KeyOf(u) \in Keys
    BY <2>1 DEF UserAt, InKey, Check, KeyOf, Alone, StartPcs
  <2> QED
    BY <2>1, <2>2, <2>3 DEF UserAt, InKey, KeyOf
<1>3. ASSUME NEW k \in Keys PROVE EntryAt(k)'
  <2>1. EntryAt(k) /\ persistent[k] \in EntryRecord
    BY DEF Shapes
  <2>2. persistent[k].rt # NoRt =>
           runtime'[persistent[k].rt].profile = runtime[persistent[k].rt].profile
    BY <2>1 DEF NothingStarts, EntryRecord
  <2> QED
    BY <2>1, <2>2 DEF EntryAt
<1>4. EveryProcessOwned'
  BY DEF EveryProcessOwned, NothingStarts, HoldsSlot, At
<1>5. SlotsConserved'
  <2>1. Holders' = Holders /\ Held' = Held
    BY DEF Holders, HoldsSlot, At, Held
  <2> QED
    BY <2>1, SlotsSame
<1>6. OwnerAt'
  <2>1. Pending' = Pending
    BY DEF Pending
  <2>2. \A k \in Held' \ Pending' : desired'[k] \in {persistent'[k].gen, AnyGen}
    BY <2>1 DEF OwnerAt, Held
  <2>3. Closed' => \A k \in Keys : desired'[k] = NoGen
    BY DEF OwnerAt, Closed
  <2>4. status' = "closed" => \A r \in Runtimes : ~Running(r)'
    BY DEF OwnerAt, NothingStarts
  <2> QED
    BY <2>2, <2>3, <2>4 DEF OwnerAt
<1> QED
  BY <1>1, <1>2, <1>3, <1>4, <1>5, <1>6

LEMMA ManagerClosedKeeps ==
    ASSUME PoolInv, ManagerClosed
    PROVE  PoolInv'
<1>1. /\ runtime' \in [Runtimes -> RuntimeRecord]
      /\ \A r \in Runtimes : runtime'[r].profile = runtime[r].profile
      /\ \A r \in Runtimes : ~Running(r)'
  BY DEF ManagerClosed, PoolInv, Shapes, RuntimeRecord, Running
<1>2. NothingStarts
  BY <1>1 DEF NothingStarts
<1> QED
  BY <1>1, <1>2, NobodyMoves DEF ManagerClosed, PoolInv, Shapes

LEMMA ExitKeeps ==
    ASSUME PoolInv, NEW r \in Runtimes, Exit(r)
    PROVE  PoolInv'
<1>1. NothingStarts
  BY DEF Exit, PoolInv, Shapes, RuntimeRecord, Running, NothingStarts
<1> QED
  BY <1>1, NobodyMoves DEF Exit, shared, PoolInv, Shapes

LEMMA TickKeeps ==
    ASSUME PoolInv, Tick
    PROVE  PoolInv'
<1>1. \A n \in Nat : Pred(n) \in Nat
  BY DEF Pred
<1>2. backoff' \in Backoffs
  BY <1>1 DEF Tick, PoolInv, Shapes, Backoffs
<1>3. /\ persistent' \in [Keys -> EntryRecord]
      /\ \A k \in Keys : /\ persistent'[k].rt = persistent[k].rt
                         /\ persistent'[k].gen = persistent[k].gen
  BY <1>1 DEF Tick, PoolInv, Shapes, EntryRecord
<1>4. NothingStarts
  BY ProcessesStay DEF Tick, PoolInv
<1> QED
  BY <1>2, <1>3, <1>4, NobodyMoves DEF Tick, shared

-----------------------------------------------------------------------------
LEMMA InitPool == Init => PoolInv
<1> SUFFICES ASSUME Init PROVE PoolInv
  OBVIOUS
<1>1. Shapes
  BY LimitAssumption
  DEF Init, Shapes, NoEntry, EntryRecord, NoBackoff, Backoffs, NoRuntime, RuntimeRecord, NoUser,
      UserRecord, UserPcs, NoOwner, OwnerRecord, Queued
<1>2. Holders = {} /\ Held = {}
  BY DEF Init, Holders, HoldsSlot, At, NoUser, Held, NoEntry
<1>3. SlotsConserved
  BY <1>2, SlotsByHolders, FS_EmptySet, LimitAssumption DEF Init
<1>4. \A r \in Runtimes : ~Running(r)
  BY DEF Init, Running, NoRuntime
<1>5. \A u \in Users : UserAt(u)
  BY DEF Init, UserAt, NoUser, InKey, Alone, StartPcs
<1>6. \A k \in Keys : EntryAt(k)
  BY DEF Init, EntryAt, NoEntry
<1>7. OwnerAt
  BY <1>2, <1>4 DEF Init, OwnerAt, NoOwner, Closed
<1> QED
  BY <1>1, <1>3, <1>4, <1>5, <1>6, <1>7 DEF PoolInv, EveryProcessOwned

LEMMA StepPool == PoolInv /\ [Next]_vars => PoolInv'
<1> SUFFICES ASSUME PoolInv, [Next]_vars PROVE PoolInv'
  OBVIOUS
<1>1. CASE UNCHANGED vars
  <2>1. NothingStarts
    BY <1>1, ProcessesStay DEF vars, PoolInv
  <2> QED
    BY <1>1, <2>1, NobodyMoves DEF vars, PoolInv, Shapes
<1>2. CASE Next
  BY <1>2, UserKeeps, OwnerLockedKeeps, OwnerEvictedKeeps, ManagerClosedKeeps, CloseKeeps,
     ReconcileKeeps, ExitKeeps, TickKeeps DEF Next, OwnerStep
<1> QED
  BY <1>1, <1>2

\* Whatever users, owner, processes and clock do, in any order, the pool stays as
\* PoolInv says.
THEOREM PoolInvariant == Spec => []PoolInv
BY InitPool, StepPool, PTL DEF Spec

\* No path out of acquire(), reconcile() or close() loses a slot or returns it twice.
THEOREM SlotsConservedAlways == Spec => []SlotsConserved
<1>1. PoolInv => SlotsConserved
  BY DEF PoolInv
<1> QED
  BY <1>1, PoolInvariant, PTL

\* No process runs that no key and no user with a slot accounts for.
THEOREM EveryProcessOwnedAlways == Spec => []EveryProcessOwned
<1>1. PoolInv => EveryProcessOwned
  BY DEF PoolInv
<1> QED
  BY <1>1, PoolInvariant, PTL

\* acquire() hands a check no runtime of another profile or generation.
THEOREM UsesOwnGenerationAlways == Spec => []UsesOwnGeneration
<1>1. PoolInv => UsesOwnGeneration
  BY DEF PoolInv, UsesOwnGeneration, UserAt
<1> QED
  BY <1>1, PoolInvariant, PTL

\* When reconcile() has returned, nothing it should have removed is kept, not even
\* what was being started while it walked over the keys.
THEOREM OnlyDesiredKeptAlways == Spec => []OnlyDesiredKept
<1>1. PoolInv => OnlyDesiredKept
  BY DEF PoolInv, OnlyDesiredKept, OwnerAt, Pending
<1> QED
  BY <1>1, PoolInvariant, PTL

\* When close() has returned, no key keeps a runtime and no process runs.
THEOREM ClosedLeavesNothingAlways == Spec => []ClosedLeavesNothing
<1>1. PoolInv => ClosedLeavesNothing
  <2> SUFFICES ASSUME PoolInv, status = "closed", NEW k \in Held PROVE FALSE
    BY DEF PoolInv, OwnerAt, ClosedLeavesNothing
  <2>1. desired[k] = NoGen /\ desired[k] \in {persistent[k].gen, AnyGen}
    BY DEF PoolInv, OwnerAt, Pending, Closed, Held
  <2>2. persistent[k].gen \in Gens
    BY DEF PoolInv, EntryAt, Held
  <2> QED
    BY <2>1, <2>2, NamesAssumption
<1> QED
  BY <1>1, PoolInvariant, PTL

\* The limit that the slots are there for
AtMostLimit == Cardinality({r \in Runtimes : Running(r)}) <= Limit

\* There are never more than max_active_runtimes processes: each is accounted for by
\* a key or by a user with a slot, and no two by the same.
THEOREM AtMostLimitAlways == Spec => []AtMostLimit
<1>1. PoolInv => AtMostLimit
  <2> SUFFICES ASSUME PoolInv PROVE AtMostLimit
    OBVIOUS
  <2> DEFINE kept == [k \in Held |-> persistent[k].rt]
             used == [u \in Holders |-> user[u].rt]
             K == {kept[k] : k \in Held}
             U == {used[u] : u \in Holders}
             R == {r \in Runtimes : Running(r)}
  <2>1. kept \in Surjection(Held, K) /\ used \in Surjection(Holders, U)
    BY DEF Surjection
  <2>2. /\ IsFiniteSet(K) /\ Cardinality(K) <= Cardinality(Held)
        /\ IsFiniteSet(U) /\ Cardinality(U) <= Cardinality(Holders)
    <3> HIDE DEF kept, used, K, U
    <3> QED
      BY <2>1, FiniteSlots, FS_Surjection
  <2>3. R \subseteq K \cup U
    <3> SUFFICES ASSUME NEW r \in Runtimes, Running(r) PROVE r \in K \cup U
      OBVIOUS
    <3>1. CASE \E k \in Keys : persistent[k].rt = r
      BY <3>1 DEF Held, NoRt, Runtimes
    <3>2. CASE \E u \in Users : HoldsSlot(u) /\ user[u].rt = r
      BY <3>2 DEF Holders
    <3> QED
      BY <3>1, <3>2 DEF PoolInv, EveryProcessOwned
  <2> HIDE DEF kept, used, K, U
  <2>4. /\ IsFiniteSet(K \cup U) /\ Cardinality(K \cup U) \in Nat
        /\ Cardinality(K \cup U) <= Cardinality(K) + Cardinality(U)
        /\ Cardinality(K) \in Nat /\ Cardinality(U) \in Nat
    <3>1. /\ IsFiniteSet(K \cup U) /\ IsFiniteSet(K \cap U)
          /\ Cardinality(K \cup U) = Cardinality(K) + Cardinality(U) - Cardinality(K \cap U)
      BY <2>2, FS_Union, FS_Intersection
    <3> QED
      BY <2>2, <3>1, FS_CardinalityType
  <2>5. Cardinality(R) <= Cardinality(K \cup U) /\ Cardinality(R) \in Nat
    <3> HIDE DEF R
    <3> QED
      BY <2>3, <2>4, FS_Subset, FS_CardinalityType
  <2>6. slots + Cardinality(Held) + Cardinality(Holders) = Limit /\ slots \in Nat
    BY SlotsByHolders DEF PoolInv, Shapes
  <2> HIDE DEF R
  <2>7. Cardinality(R) <= Limit
    BY <2>2, <2>4, <2>5, <2>6, FiniteSlots, LimitAssumption
  <2> QED
    BY <2>7 DEF R, AtMostLimit
<1> QED
  BY <1>1, PoolInvariant, PTL
=============================================================================
