---------------------- MODULE InventoryAndResultsProofs ----------------------
(***************************************************************************)
(* Two parts that share no variable: what identity.py accepts and          *)
(* inventory.py compiles of it, and the results of the checks it compiles. *)
(*                                                                         *)
(* Inventory: for every set of sources, finite set of entry ids, and       *)
(* whatever the sources offer, the registry that is restored holds and the *)
(* configurations say.  Results: for every set of checks, generations and  *)
(* revisions, and any number of restarts.                                  *)
(***************************************************************************)
EXTENDS Inventory, Results, FiniteSetTheorems, TLAPS

-----------------------------------------------------------------------------
(***************************************************************************)
(* Inventory                                                               *)
(***************************************************************************)
\* The stages of Matching
ExternalPairs(rows, batch) == ByExternal(rows, batch).pairs
Blocked(rows, batch) == ByExternal(rows, batch).blocked
Open1(rows, batch) ==
    DOMAIN batch \ (Paired(ExternalPairs(rows, batch)) \cup Blocked(rows, batch))
Free1(rows, batch) == DOMAIN rows \ Used(ExternalPairs(rows, batch))
NamePairs(rows, batch) == Pairs(rows, batch, Open1(rows, batch), Free1(rows, batch), "name")
Open2(rows, batch) == Open1(rows, batch) \ Paired(NamePairs(rows, batch))
Free2(rows, batch) ==
    DOMAIN rows \ Used(ExternalPairs(rows, batch) \cup NamePairs(rows, batch))
PrintPairs(rows, batch) ==
    Pairs(rows, batch, Open2(rows, batch), Free2(rows, batch), "fingerprint")
AllPairs(rows, batch) ==
    (ExternalPairs(rows, batch) \cup NamePairs(rows, batch)) \cup PrintPairs(rows, batch)
Open3(rows, batch) == Open2(rows, batch) \ Paired(PrintPairs(rows, batch))
Alike(rows, batch) ==
    {c \in Open3(rows, batch) :
        /\ batch[c].fingerprint # None
        /\ Sharing(rows, Free2(rows, batch), "fingerprint", batch[c].fingerprint) # {}}
Changed(rows, batch) ==
    {c \in Open3(rows, batch) \ Alike(rows, batch) :
        Sharing(rows, DOMAIN rows \ Used(AllPairs(rows, batch)), "name", batch[c].name) # {}}
Fresh(rows, batch) == Open3(rows, batch) \ (Alike(rows, batch) \cup Changed(rows, batch))

(***************************************************************************)
(* What is left behind by an acceptance: the rows of other entries cannot  *)
(* be taken for those of the batch.  A candidate without an external id is *)
(* known by its name, or else by its fingerprint among those that are not. *)
(***************************************************************************)
Anonymous(batch) == {c \in DOMAIN batch : batch[c].external = None}
Others(rows, entry) == DOMAIN rows \ Range(entry)

ExternalClear(rows, batch, entry, c) ==
    batch[c].external # None =>
        /\ \A d \in DOMAIN batch : batch[d].external = batch[c].external => d = c
        /\ \A o \in Others(rows, entry) : rows[o].external # batch[c].external

Named(rows, batch, entry, c) ==
    /\ \A d \in Anonymous(batch) : batch[d].name = batch[c].name => d = c
    /\ \A o \in Others(rows, entry) : rows[o].name # batch[c].name

Printed(rows, batch, entry, c) ==
    /\ batch[c].fingerprint # None
    /\ \A d \in Anonymous(batch) :
          ~Named(rows, batch, entry, d) /\ batch[d].fingerprint = batch[c].fingerprint => d = c
    /\ \A o \in Others(rows, entry) : rows[o].fingerprint # batch[c].fingerprint

Settled(rows, batch, entry) ==
    /\ entry \in [DOMAIN batch -> DOMAIN rows] /\ IsInjective(entry)
    /\ \A c \in DOMAIN batch :
          rows[entry[c]] = Binding(batch[c]) /\ ExternalClear(rows, batch, entry, c)
    /\ Distinguishable(batch) =>
          \A c \in Anonymous(batch) :
              Named(rows, batch, entry, c) \/ Printed(rows, batch, entry, c)

-----------------------------------------------------------------------------
(***************************************************************************)
(* The invariant: an entry is known to one source only, the live entries   *)
(* of a source have the rows of their keys, and what is checked is what    *)
(* was compiled of them; and the rows of a source that was accepted        *)
(* without a question are settled.                                         *)
(***************************************************************************)
OneSource ==
    \A s \in Sources : \A x \in Sources \ {s} : DOMAIN identity[s] \cap DOMAIN identity[x] = {}

LiveRows ==
    \A s \in Sources : generations[s] # None =>
        \A i \in DOMAIN generations[s] :
            i \in DOMAIN identity[s] /\ identity[s][i] = Binding(generations[s][i])

CompiledInv == compiled = Compile(config, generations)

SettledInv ==
    \A s \in Sources : repeat[s] # None =>
        \E entry \in [DOMAIN repeat[s] -> DOMAIN identity[s]] :
            /\ Settled(identity[s], repeat[s], entry)
            /\ DOMAIN generations[s] = Range(entry)
            /\ \A c \in DOMAIN repeat[s] : generations[s][entry[c]] = repeat[s][c]

InventoryInv == InventoryTypeOK /\ OneSource /\ LiveRows /\ CompiledInv /\ SettledInv

-----------------------------------------------------------------------------
\* What it means that a field pairs a candidate with a row
LEMMA PairsMeaning ==
    ASSUME NEW rows, NEW batch, NEW open, NEW free, NEW field, NEW c, NEW i
    PROVE  <<c, i>> \in Pairs(rows, batch, open, free, field) <=>
              /\ c \in open /\ i \in free
              /\ batch[c][field] # None /\ rows[i][field] = batch[c][field]
              /\ \A d \in open : batch[d][field] = batch[c][field] => d = c
              /\ \A j \in free : rows[j][field] = batch[c][field] => j = i
<1>1. <<c, i>> \in Pairs(rows, batch, open, free, field) <=>
         /\ c \in open /\ i \in free
         /\ batch[c][field] # None
         /\ Sharing(batch, open, field, batch[c][field]) = {c}
         /\ Sharing(rows, free, field, batch[c][field]) = {i}
  BY DEF Pairs
<1>2. c \in open => (Sharing(batch, open, field, batch[c][field]) = {c} <=>
                     \A d \in open : batch[d][field] = batch[c][field] => d = c)
  BY DEF Sharing
<1>3. i \in free => (Sharing(rows, free, field, batch[c][field]) = {i} <=>
                     /\ rows[i][field] = batch[c][field]
                     /\ \A j \in free : rows[j][field] = batch[c][field] => j = i)
  BY DEF Sharing
<1> QED BY <1>1, <1>2, <1>3

\* Pairs are pairs.
LEMMA PairsArePairs ==
    ASSUME NEW rows, NEW batch, NEW open, NEW free, NEW field,
           NEW p \in Pairs(rows, batch, open, free, field)
    PROVE  p = <<p[1], p[2]>> /\ p[1] \in open /\ p[2] \in free
BY DEF Pairs

\* A set with two members has more than one.
LEMMA AtMostOne ==
    ASSUME NEW S, IsFiniteSet(S)
    PROVE  Cardinality(S) > 1 <=> \E x, y \in S : x # y
<1>1. Cardinality(S) \in Nat
  BY FS_CardinalityType
<1>2. ASSUME NEW x \in S, NEW y \in S, x # y PROVE Cardinality(S) > 1
  <2>1. IsFiniteSet(S \ {x}) /\ Cardinality(S \ {x}) = Cardinality(S) - 1
    BY FS_RemoveElement
  <2>2. Cardinality(S \ {x}) # 0
    BY <1>2, <2>1, FS_EmptySet
  <2>3. Cardinality(S \ {x}) \in Nat
    BY <2>1, FS_CardinalityType
  <2> QED BY <1>1, <2>1, <2>2, <2>3
<1>3. ASSUME Cardinality(S) > 1 PROVE \E x, y \in S : x # y
  <2>1. S # {}
    BY <1>3, FS_EmptySet
  <2>2. PICK x \in S : TRUE
    BY <2>1
  <2>3. S # {x}
    BY <1>3, FS_Singleton
  <2> QED BY <2>2, <2>3
<1> QED BY <1>2, <1>3

\* Matching is its stages.
LEMMA MatchingStages ==
    ASSUME NEW rows, NEW batch
    PROVE  /\ Matching(rows, batch).pairs = AllPairs(rows, batch)
           /\ Matching(rows, batch).new = Fresh(rows, batch) \ Twins(batch, Fresh(rows, batch))
           /\ Matching(rows, batch).conflicts =
                 ((Blocked(rows, batch) \cup Alike(rows, batch)) \cup Changed(rows, batch))
                 \cup Twins(batch, Fresh(rows, batch))
BY DEF Matching, ExternalPairs, Blocked, Open1, Free1, NamePairs, Open2, Free2, PrintPairs,
       AllPairs, Open3, Alike, Changed, Fresh

\* The first stage
LEMMA ExternalMeaning ==
    ASSUME NEW rows, NEW batch
    PROVE  /\ ExternalPairs(rows, batch) =
                 Pairs(rows, batch, DOMAIN batch, DOMAIN rows, "external")
           /\ \A c \in DOMAIN batch : c \in Blocked(rows, batch) <=>
                 /\ batch[c].external # None
                 /\ \/ Cardinality(Sharing(batch, DOMAIN batch, "external", batch[c].external)) > 1
                    \/ Cardinality(Sharing(rows, DOMAIN rows, "external", batch[c].external)) > 1
           /\ Blocked(rows, batch) \subseteq DOMAIN batch
BY DEF ExternalPairs, Blocked, ByExternal

\* Whom a stage pairs, and with which row
LEMMA PairedMeaning ==
    ASSUME NEW rows, NEW batch, NEW open, NEW free, NEW field, NEW x
    PROVE  /\ x \in Paired(Pairs(rows, batch, open, free, field)) <=>
                 \E i \in free : <<x, i>> \in Pairs(rows, batch, open, free, field)
           /\ x \in Used(Pairs(rows, batch, open, free, field)) <=>
                 \E c \in open : <<c, x>> \in Pairs(rows, batch, open, free, field)
<1> DEFINE P == Pairs(rows, batch, open, free, field)
<1>1. \A p \in P : p = <<p[1], p[2]>> /\ p[1] \in open /\ p[2] \in free
  BY PairsArePairs
<1> HIDE DEF P
<1>2. x \in Paired(P) <=> \E i \in free : <<x, i>> \in P
  BY <1>1 DEF Paired
<1>3. x \in Used(P) <=> \E c \in open : <<c, x>> \in P
  BY <1>1 DEF Used
<1> QED BY <1>2, <1>3 DEF P

\* What is used by one of two sets of pairs is used by one of them.
LEMMA UsedUnion ==
    ASSUME NEW P, NEW Q
    PROVE  Used(P \cup Q) = Used(P) \cup Used(Q)
BY DEF Used

\* Sets of rows and of candidates are finite, so that they can be counted.
LEMMA SharingFinite ==
    ASSUME NEW rows, NEW batch \in Seq(Keys), DOMAIN rows \subseteq EntryIds, NEW field, NEW v
    PROVE  /\ IsFiniteSet(Sharing(batch, DOMAIN batch, field, v))
           /\ IsFiniteSet(Sharing(rows, DOMAIN rows, field, v))
<1>1. IsFiniteSet(DOMAIN batch)
  <2>1. DOMAIN batch = 1..Len(batch) /\ Len(batch) \in Nat
    OBVIOUS
  <2> QED BY <2>1, FS_Interval
<1>2. IsFiniteSet(DOMAIN rows)
  BY EntryIdsAssumption, FS_Subset
<1>3. Sharing(batch, DOMAIN batch, field, v) \subseteq DOMAIN batch
  BY DEF Sharing
<1>4. Sharing(rows, DOMAIN rows, field, v) \subseteq DOMAIN rows
  BY DEF Sharing
<1> QED BY <1>1, <1>2, <1>3, <1>4, FS_Subset

\* When no external id is a conflict, each is that of one candidate and of one row,
\* and pairs them.
LEMMA ExternalUnique ==
    ASSUME NEW rows, NEW batch \in Seq(Keys), DOMAIN rows \subseteq EntryIds,
           NEW c \in DOMAIN batch, c \notin Blocked(rows, batch), batch[c].external # None
    PROVE  /\ \A d \in DOMAIN batch : batch[d].external = batch[c].external => d = c
           /\ \A i \in DOMAIN rows : rows[i].external = batch[c].external =>
                 <<c, i>> \in ExternalPairs(rows, batch)
<1> DEFINE B == Sharing(batch, DOMAIN batch, "external", batch[c].external)
           R == Sharing(rows, DOMAIN rows, "external", batch[c].external)
<1>1. ~(Cardinality(B) > 1) /\ ~(Cardinality(R) > 1)
  BY ExternalMeaning
<1>2. IsFiniteSet(B) /\ IsFiniteSet(R)
  BY SharingFinite
<1>3. /\ \A d \in DOMAIN batch : d \in B <=> batch[d].external = batch[c].external
      /\ \A i \in DOMAIN rows : i \in R <=> rows[i].external = batch[c].external
      /\ R \subseteq DOMAIN rows
  BY DEF Sharing
<1> HIDE DEF B, R
<1>4. (\A x, y \in B : x = y) /\ (\A x, y \in R : x = y)
  BY <1>1, <1>2, AtMostOne
<1>5. \A d \in DOMAIN batch : batch[d].external = batch[c].external => d = c
  BY <1>3, <1>4
<1>6. ASSUME NEW i \in DOMAIN rows, rows[i].external = batch[c].external
      PROVE  <<c, i>> \in ExternalPairs(rows, batch)
  <2>1. \A j \in DOMAIN rows : rows[j].external = batch[c].external => j = i
    BY <1>3, <1>4, <1>6
  <2>2. <<c, i>> \in Pairs(rows, batch, DOMAIN batch, DOMAIN rows, "external")
    BY <1>5, <1>6, <2>1, PairsMeaning
  <2> QED BY <2>2, ExternalMeaning
<1> QED BY <1>5, <1>6

\* The first stage pairs nobody without an external id.
LEMMA AnonymousOpen ==
    ASSUME NEW rows, NEW batch, NEW c \in Anonymous(batch)
    PROVE  c \in Open1(rows, batch) /\ c \in DOMAIN batch
<1>1. c \in DOMAIN batch /\ batch[c].external = None
  BY DEF Anonymous
<1>2. c \notin Blocked(rows, batch)
  BY <1>1, ExternalMeaning
<1>3. c \notin Paired(ExternalPairs(rows, batch))
  <2> DEFINE P == Pairs(rows, batch, DOMAIN batch, DOMAIN rows, "external")
  <2>1. \A i : <<c, i>> \notin P
    BY <1>1, PairsMeaning
  <2>2. c \in Paired(P) <=> \E i \in DOMAIN rows : <<c, i>> \in P
    BY PairedMeaning
  <2>3. P = ExternalPairs(rows, batch)
    BY ExternalMeaning
  <2> HIDE DEF P
  <2> QED BY <2>1, <2>2, <2>3
<1> QED BY <1>1, <1>2, <1>3 DEF Open1

\* A pair of one of the stages
LEMMA PairOf ==
    ASSUME NEW rows, NEW batch
    PROVE  /\ \A c : c \in Paired(ExternalPairs(rows, batch)) <=>
                 \E i \in DOMAIN rows : <<c, i>> \in ExternalPairs(rows, batch)
           /\ \A c : c \in Paired(NamePairs(rows, batch)) <=>
                 \E i \in Free1(rows, batch) : <<c, i>> \in NamePairs(rows, batch)
           /\ \A c : c \in Paired(PrintPairs(rows, batch)) <=>
                 \E i \in Free2(rows, batch) : <<c, i>> \in PrintPairs(rows, batch)
           /\ \A i : i \in Used(ExternalPairs(rows, batch)) <=>
                 \E c \in DOMAIN batch : <<c, i>> \in ExternalPairs(rows, batch)
           /\ \A i : i \in Used(NamePairs(rows, batch)) <=>
                 \E c \in Open1(rows, batch) : <<c, i>> \in NamePairs(rows, batch)
           /\ \A i : i \in Used(PrintPairs(rows, batch)) <=>
                 \E c \in Open2(rows, batch) : <<c, i>> \in PrintPairs(rows, batch)
<1>1. ExternalPairs(rows, batch) = Pairs(rows, batch, DOMAIN batch, DOMAIN rows, "external")
  BY ExternalMeaning
<1>2. /\ \A c : c \in Paired(ExternalPairs(rows, batch)) <=>
              \E i \in DOMAIN rows : <<c, i>> \in ExternalPairs(rows, batch)
      /\ \A i : i \in Used(ExternalPairs(rows, batch)) <=>
              \E c \in DOMAIN batch : <<c, i>> \in ExternalPairs(rows, batch)
  <2> DEFINE P == Pairs(rows, batch, DOMAIN batch, DOMAIN rows, "external")
  <2>1. \A c : c \in Paired(P) <=> \E i \in DOMAIN rows : <<c, i>> \in P
    BY PairedMeaning
  <2>2. \A i : i \in Used(P) <=> \E c \in DOMAIN batch : <<c, i>> \in P
    BY PairedMeaning
  <2>3. P = ExternalPairs(rows, batch)
    BY <1>1
  <2> HIDE DEF P
  <2> QED BY <2>1, <2>2, <2>3
<1>3. /\ \A c : c \in Paired(NamePairs(rows, batch)) <=>
              \E i \in Free1(rows, batch) : <<c, i>> \in NamePairs(rows, batch)
      /\ \A i : i \in Used(NamePairs(rows, batch)) <=>
              \E c \in Open1(rows, batch) : <<c, i>> \in NamePairs(rows, batch)
  BY PairedMeaning DEF NamePairs
<1>4. /\ \A c : c \in Paired(PrintPairs(rows, batch)) <=>
              \E i \in Free2(rows, batch) : <<c, i>> \in PrintPairs(rows, batch)
      /\ \A i : i \in Used(PrintPairs(rows, batch)) <=>
              \E c \in Open2(rows, batch) : <<c, i>> \in PrintPairs(rows, batch)
  BY PairedMeaning DEF PrintPairs
<1> QED BY <1>2, <1>3, <1>4

\* What the three stages pair
LEMMA StageMeaning ==
    ASSUME NEW rows, NEW batch, NEW c, NEW i
    PROVE  /\ <<c, i>> \in ExternalPairs(rows, batch) <=>
                 /\ c \in DOMAIN batch /\ i \in DOMAIN rows
                 /\ batch[c].external # None /\ rows[i].external = batch[c].external
                 /\ \A d \in DOMAIN batch : batch[d].external = batch[c].external => d = c
                 /\ \A j \in DOMAIN rows : rows[j].external = batch[c].external => j = i
           /\ <<c, i>> \in NamePairs(rows, batch) <=>
                 /\ c \in Open1(rows, batch) /\ i \in Free1(rows, batch)
                 /\ batch[c].name # None /\ rows[i].name = batch[c].name
                 /\ \A d \in Open1(rows, batch) : batch[d].name = batch[c].name => d = c
                 /\ \A j \in Free1(rows, batch) : rows[j].name = batch[c].name => j = i
           /\ <<c, i>> \in PrintPairs(rows, batch) <=>
                 /\ c \in Open2(rows, batch) /\ i \in Free2(rows, batch)
                 /\ batch[c].fingerprint # None /\ rows[i].fingerprint = batch[c].fingerprint
                 /\ \A d \in Open2(rows, batch) :
                       batch[d].fingerprint = batch[c].fingerprint => d = c
                 /\ \A j \in Free2(rows, batch) :
                       rows[j].fingerprint = batch[c].fingerprint => j = i
<1>1. <<c, i>> \in Pairs(rows, batch, DOMAIN batch, DOMAIN rows, "external") <=>
         /\ c \in DOMAIN batch /\ i \in DOMAIN rows
         /\ batch[c].external # None /\ rows[i].external = batch[c].external
         /\ \A d \in DOMAIN batch : batch[d].external = batch[c].external => d = c
         /\ \A j \in DOMAIN rows : rows[j].external = batch[c].external => j = i
  BY PairsMeaning
<1>2. <<c, i>> \in ExternalPairs(rows, batch) <=>
         <<c, i>> \in Pairs(rows, batch, DOMAIN batch, DOMAIN rows, "external")
  BY ExternalMeaning
<1>3. <<c, i>> \in NamePairs(rows, batch) <=>
         /\ c \in Open1(rows, batch) /\ i \in Free1(rows, batch)
         /\ batch[c].name # None /\ rows[i].name = batch[c].name
         /\ \A d \in Open1(rows, batch) : batch[d].name = batch[c].name => d = c
         /\ \A j \in Free1(rows, batch) : rows[j].name = batch[c].name => j = i
  BY PairsMeaning DEF NamePairs
<1>4. <<c, i>> \in PrintPairs(rows, batch) <=>
         /\ c \in Open2(rows, batch) /\ i \in Free2(rows, batch)
         /\ batch[c].fingerprint # None /\ rows[i].fingerprint = batch[c].fingerprint
         /\ \A d \in Open2(rows, batch) : batch[d].fingerprint = batch[c].fingerprint => d = c
         /\ \A j \in Free2(rows, batch) : rows[j].fingerprint = batch[c].fingerprint => j = i
  BY PairsMeaning DEF PrintPairs
<1> QED BY <1>1, <1>2, <1>3, <1>4

\* Who is open and what is free at each stage
LEMMA StageSets ==
    ASSUME NEW rows, NEW batch
    PROVE  /\ \A c : c \in Open1(rows, batch) <=>
                 /\ c \in DOMAIN batch /\ c \notin Blocked(rows, batch)
                 /\ c \notin Paired(ExternalPairs(rows, batch))
           /\ \A c : c \in Open2(rows, batch) <=>
                 c \in Open1(rows, batch) /\ c \notin Paired(NamePairs(rows, batch))
           /\ \A c : c \in Open3(rows, batch) <=>
                 c \in Open2(rows, batch) /\ c \notin Paired(PrintPairs(rows, batch))
           /\ \A i : i \in Free1(rows, batch) <=>
                 i \in DOMAIN rows /\ i \notin Used(ExternalPairs(rows, batch))
           /\ \A i : i \in Free2(rows, batch) <=>
                 i \in Free1(rows, batch) /\ i \notin Used(NamePairs(rows, batch))
           /\ \A i : i \in DOMAIN rows \ Used(AllPairs(rows, batch)) <=>
                 i \in Free2(rows, batch) /\ i \notin Used(PrintPairs(rows, batch))
<1>1. Used(ExternalPairs(rows, batch) \cup NamePairs(rows, batch)) =
         Used(ExternalPairs(rows, batch)) \cup Used(NamePairs(rows, batch))
  BY UsedUnion
<1>2. Used(AllPairs(rows, batch)) =
         Used(ExternalPairs(rows, batch) \cup NamePairs(rows, batch))
         \cup Used(PrintPairs(rows, batch))
  BY UsedUnion DEF AllPairs
<1>3. /\ \A c : c \in Open1(rows, batch) <=>
              /\ c \in DOMAIN batch /\ c \notin Blocked(rows, batch)
              /\ c \notin Paired(ExternalPairs(rows, batch))
      /\ \A c : c \in Open2(rows, batch) <=>
              c \in Open1(rows, batch) /\ c \notin Paired(NamePairs(rows, batch))
      /\ \A c : c \in Open3(rows, batch) <=>
              c \in Open2(rows, batch) /\ c \notin Paired(PrintPairs(rows, batch))
  BY DEF Open1, Open2, Open3
<1>4. /\ \A i : i \in Free1(rows, batch) <=>
              i \in DOMAIN rows /\ i \notin Used(ExternalPairs(rows, batch))
      /\ \A i : i \in Free2(rows, batch) <=>
              i \in Free1(rows, batch) /\ i \notin Used(NamePairs(rows, batch))
  BY <1>1 DEF Free1, Free2
<1>5. \A i : i \in DOMAIN rows \ Used(AllPairs(rows, batch)) <=>
              i \in Free2(rows, batch) /\ i \notin Used(PrintPairs(rows, batch))
  BY <1>2 DEF Free2
<1> QED BY <1>3, <1>4, <1>5

\* What a candidate is that the stages leave over and that is no conflict
LEMMA FreshMeaning ==
    ASSUME NEW rows, NEW batch, NEW c \in Open3(rows, batch)
    PROVE  /\ c \in Alike(rows, batch) <=>
                 /\ batch[c].fingerprint # None
                 /\ \E i \in Free2(rows, batch) : rows[i].fingerprint = batch[c].fingerprint
           /\ c \in Changed(rows, batch) <=>
                 /\ c \notin Alike(rows, batch)
                 /\ \E i \in DOMAIN rows \ Used(AllPairs(rows, batch)) :
                       rows[i].name = batch[c].name
BY DEF Alike, Changed, Sharing

-----------------------------------------------------------------------------
\* When reconcile() finds no conflict, every candidate is paired or new, and gets the
\* id of its row or one that nobody has.
LEMMA Assigned ==
    ASSUME NEW rows, NEW batch, NEW unused,
           Matching(rows, batch).conflicts = {},
           NEW entry \in Assignments(Matching(rows, batch), batch, unused)
    PROVE  /\ entry \in [DOMAIN batch -> EntryIds]
           /\ Blocked(rows, batch) = {}
           /\ Alike(rows, batch) = {} /\ Changed(rows, batch) = {}
           /\ \A c, i : <<c, i>> \in ExternalPairs(rows, batch) => entry[c] = i
           /\ \A c, i : <<c, i>> \in NamePairs(rows, batch) => entry[c] = i
           /\ \A c, i : <<c, i>> \in PrintPairs(rows, batch) => entry[c] = i
           /\ \A c \in Open3(rows, batch) : entry[c] \in unused
           /\ \A c, d \in Open3(rows, batch) : entry[c] = entry[d] => c = d
<1> DEFINE m == Matching(rows, batch)
<1>1. /\ Blocked(rows, batch) = {} /\ Alike(rows, batch) = {} /\ Changed(rows, batch) = {}
      /\ Twins(batch, Fresh(rows, batch)) = {}
  BY MatchingStages
<1>2. m.new = Open3(rows, batch)
  <2>1. m.new = Fresh(rows, batch) \ Twins(batch, Fresh(rows, batch))
    BY MatchingStages
  <2>2. Fresh(rows, batch) = Open3(rows, batch)
    BY <1>1 DEF Fresh
  <2> HIDE DEF m
  <2> QED BY <1>1, <2>1, <2>2
<1>3. m.pairs = AllPairs(rows, batch)
  BY MatchingStages
<1>4. /\ entry \in [DOMAIN batch -> EntryIds]
      /\ \A p \in m.pairs : entry[p[1]] = p[2]
      /\ \A c \in m.new : entry[c] \in unused
      /\ \A c, d \in m.new : entry[c] = entry[d] => c = d
  BY DEF Assignments
<1> HIDE DEF m
<1>5. \A c, i : <<c, i>> \in AllPairs(rows, batch) => entry[c] = i
  <2> SUFFICES ASSUME NEW c, NEW i, <<c, i>> \in m.pairs PROVE entry[c] = i
    BY <1>3
  <2>1. entry[<<c, i>>[1]] = <<c, i>>[2]
    BY <1>4
  <2> QED BY <2>1
<1> QED BY <1>1, <1>2, <1>4, <1>5 DEF AllPairs

\* Every candidate is in one of the stages.
LEMMA SomeStage ==
    ASSUME NEW rows, NEW batch, Blocked(rows, batch) = {}, NEW c \in DOMAIN batch
    PROVE  \/ \E i : <<c, i>> \in ExternalPairs(rows, batch)
           \/ \E i : <<c, i>> \in NamePairs(rows, batch)
           \/ \E i : <<c, i>> \in PrintPairs(rows, batch)
           \/ c \in Open3(rows, batch)
BY StageSets, PairOf

\* reconcile() gives no id to two candidates.
LEMMA AssignedOnce ==
    ASSUME NEW rows, NEW batch, NEW unused, unused \cap DOMAIN rows = {},
           Matching(rows, batch).conflicts = {},
           NEW entry \in Assignments(Matching(rows, batch), batch, unused)
    PROVE  IsInjective(entry)
<1> DEFINE X == ExternalPairs(rows, batch)
           N == NamePairs(rows, batch)
           F == PrintPairs(rows, batch)
           W == Open3(rows, batch)
<1>1. /\ entry \in [DOMAIN batch -> EntryIds]
      /\ \A c, i : <<c, i>> \in X => entry[c] = i
      /\ \A c, i : <<c, i>> \in N => entry[c] = i
      /\ \A c, i : <<c, i>> \in F => entry[c] = i
      /\ \A c \in W : entry[c] \in unused
      /\ \A c, d \in W : entry[c] = entry[d] => c = d
      /\ Blocked(rows, batch) = {}
  BY Assigned
<1>2. \A c \in DOMAIN batch :
         (\E i : <<c, i>> \in X) \/ (\E i : <<c, i>> \in N) \/ (\E i : <<c, i>> \in F) \/ c \in W
  BY <1>1, SomeStage
<1>3. \A c, d, i : <<c, i>> \in X /\ <<d, i>> \in X => c = d
  BY StageMeaning
<1>4. \A c, d, i : <<c, i>> \in N /\ <<d, i>> \in N => c = d
  BY StageMeaning
<1>5. \A c, d, i : <<c, i>> \in F /\ <<d, i>> \in F => c = d
  BY StageMeaning
<1>6. \A c, d, i : <<c, i>> \in X => <<d, i>> \notin N /\ <<d, i>> \notin F
  BY StageMeaning, StageSets, PairOf
<1>7. \A c, d, i : <<c, i>> \in N => <<d, i>> \notin F
  BY StageMeaning, StageSets, PairOf
<1>8. \A c, i : <<c, i>> \in X \/ <<c, i>> \in N \/ <<c, i>> \in F => i \in DOMAIN rows
  BY StageMeaning, StageSets
<1> HIDE DEF X, N, F, W
<1>9. ASSUME NEW c \in DOMAIN batch, NEW d \in DOMAIN batch, entry[c] = entry[d]
      PROVE  c = d
  <2> DEFINE i == entry[c]
  <2>1. <<c, i>> \in X \/ <<c, i>> \in N \/ <<c, i>> \in F \/ c \in W
    BY <1>1, <1>2
  <2>2. <<d, i>> \in X \/ <<d, i>> \in N \/ <<d, i>> \in F \/ d \in W
    BY <1>1, <1>2, <1>9
  <2>3. c \in W => i \notin DOMAIN rows
    BY <1>1
  <2>4. d \in W => i \notin DOMAIN rows
    BY <1>1, <1>9
  <2>5. c \in W /\ d \in W => c = d
    BY <1>1, <1>9
  <2> HIDE DEF i
  <2> QED BY <1>3, <1>4, <1>5, <1>6, <1>7, <1>8, <2>1, <2>2, <2>3, <2>4, <2>5
<1> QED BY <1>1, <1>9 DEF IsInjective

\* A candidate that keeps its external id keeps its entry, and no other row has that
\* id.
LEMMA AssignedByExternal ==
    ASSUME NEW rows, NEW batch \in Seq(Keys), NEW unused, DOMAIN rows \subseteq EntryIds,
           Matching(rows, batch).conflicts = {},
           NEW entry \in Assignments(Matching(rows, batch), batch, unused),
           NEW c \in DOMAIN batch, batch[c].external # None
    PROVE  /\ \A d \in DOMAIN batch : batch[d].external = batch[c].external => d = c
           /\ \A i \in DOMAIN rows : rows[i].external = batch[c].external => entry[c] = i
<1>1. Blocked(rows, batch) = {}
  BY Assigned
<1>2. /\ \A d \in DOMAIN batch : batch[d].external = batch[c].external => d = c
      /\ \A i \in DOMAIN rows : rows[i].external = batch[c].external =>
            <<c, i>> \in ExternalPairs(rows, batch)
  BY <1>1, ExternalUnique
<1>3. \A i : <<c, i>> \in ExternalPairs(rows, batch) => entry[c] = i
  BY Assigned
<1> QED BY <1>2, <1>3

\* Whom the names or the fingerprints have paired, and who is new, is told from the
\* rows of other entries.
LEMMA AssignedApart ==
    ASSUME NEW rows, NEW batch, NEW unused,
           Matching(rows, batch).conflicts = {},
           NEW entry \in Assignments(Matching(rows, batch), batch, unused),
           NEW c \in Anonymous(batch)
    PROVE  /\ c \in Paired(NamePairs(rows, batch)) => Named(rows, batch, entry, c)
           /\ c \in Paired(PrintPairs(rows, batch)) =>
                 /\ batch[c].fingerprint # None
                 /\ \A d \in Open2(rows, batch) :
                       batch[d].fingerprint = batch[c].fingerprint => d = c
                 /\ \A o \in Others(rows, entry) : rows[o].fingerprint # batch[c].fingerprint
           /\ c \in Open3(rows, batch) =>
                 /\ \A o \in Others(rows, entry) : rows[o].name # batch[c].name
                 /\ batch[c].fingerprint # None =>
                       \A o \in Others(rows, entry) : rows[o].fingerprint # batch[c].fingerprint
<1>1. /\ entry \in [DOMAIN batch -> EntryIds]
      /\ Alike(rows, batch) = {} /\ Changed(rows, batch) = {}
      /\ \A d, i : <<d, i>> \in ExternalPairs(rows, batch) => entry[d] = i
      /\ \A d, i : <<d, i>> \in NamePairs(rows, batch) => entry[d] = i
      /\ \A d, i : <<d, i>> \in PrintPairs(rows, batch) => entry[d] = i
  BY Assigned
<1>2. c \in DOMAIN batch /\ \A d \in Anonymous(batch) : d \in Open1(rows, batch)
  BY AnonymousOpen
<1>3. \A d \in DOMAIN batch : entry[d] \notin Others(rows, entry)
  BY <1>1 DEF Others, Range
<1>4. ASSUME NEW o \in Others(rows, entry)
      PROVE  /\ o \in Free1(rows, batch) /\ o \in Free2(rows, batch)
             /\ o \in DOMAIN rows \ Used(AllPairs(rows, batch))
  <2>1. o \in DOMAIN rows
    BY DEF Others
  <2>2. o \notin Used(ExternalPairs(rows, batch))
    <3> SUFFICES ASSUME o \in Used(ExternalPairs(rows, batch)) PROVE FALSE
      OBVIOUS
    <3>1. PICK d \in DOMAIN batch : <<d, o>> \in ExternalPairs(rows, batch)
      BY PairOf
    <3>2. d \in DOMAIN batch
      BY StageSets
    <3>3. entry[d] = o
      BY <1>1, <3>1
    <3> QED BY <1>3, <3>2, <3>3
  <2>3. o \notin Used(NamePairs(rows, batch))
    <3> SUFFICES ASSUME o \in Used(NamePairs(rows, batch)) PROVE FALSE
      OBVIOUS
    <3>1. PICK d \in Open1(rows, batch) : <<d, o>> \in NamePairs(rows, batch)
      BY PairOf
    <3>2. d \in DOMAIN batch
      BY StageSets
    <3>3. entry[d] = o
      BY <1>1, <3>1
    <3> QED BY <1>3, <3>2, <3>3
  <2>4. o \notin Used(PrintPairs(rows, batch))
    <3> SUFFICES ASSUME o \in Used(PrintPairs(rows, batch)) PROVE FALSE
      OBVIOUS
    <3>1. PICK d \in Open2(rows, batch) : <<d, o>> \in PrintPairs(rows, batch)
      BY PairOf
    <3>2. d \in DOMAIN batch
      BY StageSets
    <3>3. entry[d] = o
      BY <1>1, <3>1
    <3> QED BY <1>3, <3>2, <3>3
  <2> QED BY <2>1, <2>2, <2>3, <2>4, StageSets
<1>5. ASSUME c \in Paired(NamePairs(rows, batch)) PROVE Named(rows, batch, entry, c)
  <2>1. PICK i : <<c, i>> \in NamePairs(rows, batch)
    BY <1>5, PairOf
  <2>2. /\ \A d \in Open1(rows, batch) : batch[d].name = batch[c].name => d = c
        /\ \A j \in Free1(rows, batch) : rows[j].name = batch[c].name => j = i
    BY <2>1, StageMeaning
  <2>3. entry[c] = i
    BY <1>1, <2>1
  <2> QED BY <1>2, <1>3, <1>4, <2>2, <2>3 DEF Named
<1>6. ASSUME c \in Paired(PrintPairs(rows, batch))
      PROVE  /\ batch[c].fingerprint # None
             /\ \A d \in Open2(rows, batch) :
                   batch[d].fingerprint = batch[c].fingerprint => d = c
             /\ \A o \in Others(rows, entry) : rows[o].fingerprint # batch[c].fingerprint
  <2>1. PICK i : <<c, i>> \in PrintPairs(rows, batch)
    BY <1>6, PairOf
  <2>2. /\ batch[c].fingerprint # None
        /\ \A d \in Open2(rows, batch) : batch[d].fingerprint = batch[c].fingerprint => d = c
        /\ \A j \in Free2(rows, batch) : rows[j].fingerprint = batch[c].fingerprint => j = i
    BY <2>1, StageMeaning
  <2>3. entry[c] = i
    BY <1>1, <2>1
  <2> QED BY <1>2, <1>3, <1>4, <2>2, <2>3
<1>7. ASSUME c \in Open3(rows, batch)
      PROVE  /\ \A o \in Others(rows, entry) : rows[o].name # batch[c].name
             /\ batch[c].fingerprint # None =>
                   \A o \in Others(rows, entry) : rows[o].fingerprint # batch[c].fingerprint
  BY <1>1, <1>4, <1>7, FreshMeaning
<1> QED BY <1>5, <1>6, <1>7

\* After an automatic acceptance each candidate without an external id is known by
\* its name or by its fingerprint, if the batch allows it at all.
LEMMA AssignedKnown ==
    ASSUME NEW rows, NEW batch, NEW unused,
           Matching(rows, batch).conflicts = {},
           NEW entry \in Assignments(Matching(rows, batch), batch, unused),
           Distinguishable(batch), NEW c \in Anonymous(batch)
    PROVE  Named(rows, batch, entry, c) \/ Printed(rows, batch, entry, c)
<1> DEFINE A == Anonymous(batch)
           Namesake(x) == \E d \in A \ {x} : batch[d].name = batch[x].name
           Known(x) == Named(rows, batch, entry, x)
<1>1. \A x \in A : Known(x) \/ x \in Open2(rows, batch)
  BY AssignedApart, AnonymousOpen, StageSets
<1>2. \A x \in A : x \in Open2(rows, batch) =>
         x \in Paired(PrintPairs(rows, batch)) \/ x \in Open3(rows, batch)
  BY StageSets
<1>3. \A x \in A : x \in Open3(rows, batch) /\ ~Namesake(x) => Known(x)
  <2> SUFFICES ASSUME NEW x \in A, x \in Open3(rows, batch), ~Namesake(x) PROVE Known(x)
    OBVIOUS
  <2>1. \A o \in Others(rows, entry) : rows[o].name # batch[x].name
    BY AssignedApart
  <2> QED BY <2>1 DEF Named
<1>4. \A x \in A : Namesake(x) =>
         /\ batch[x].fingerprint # None
         /\ \A d \in A : Namesake(d) /\ batch[d].fingerprint = batch[x].fingerprint => d = x
  BY DEF Distinguishable, Anonymous
<1>5. CASE c \in Paired(PrintPairs(rows, batch))
  <2>1. /\ batch[c].fingerprint # None
        /\ \A d \in Open2(rows, batch) : batch[d].fingerprint = batch[c].fingerprint => d = c
        /\ \A o \in Others(rows, entry) : rows[o].fingerprint # batch[c].fingerprint
    BY <1>5, AssignedApart
  <2> QED BY <1>1, <2>1 DEF Printed
<1>6. CASE c \in Open3(rows, batch) /\ Namesake(c)
  <2>1. batch[c].fingerprint # None
    BY <1>4, <1>6
  <2>2. \A o \in Others(rows, entry) : rows[o].fingerprint # batch[c].fingerprint
    BY <1>6, <2>1, AssignedApart
  <2>3. ASSUME NEW d \in A, ~Known(d), batch[d].fingerprint = batch[c].fingerprint
        PROVE  d = c
    <3>1. CASE d \in Paired(PrintPairs(rows, batch))
      <4>1. \A x \in Open2(rows, batch) : batch[x].fingerprint = batch[d].fingerprint => x = d
        BY <3>1, AssignedApart
      <4> QED BY <1>6, <2>3, <4>1, StageSets
    <3>2. CASE d \in Open3(rows, batch)
      BY <1>3, <1>4, <1>6, <2>3, <3>2
    <3> QED BY <1>1, <1>2, <2>3, <3>1, <3>2
  <2> QED BY <2>1, <2>2, <2>3 DEF Printed
<1> QED BY <1>1, <1>2, <1>3, <1>5, <1>6

-----------------------------------------------------------------------------
\* The rows after an assignment was accepted
LEMMA AppliedDomain ==
    ASSUME NEW rows, NEW batch, NEW entry
    PROVE  DOMAIN Applied(rows, batch, entry) = DOMAIN rows \cup Range(entry)
BY DEF Applied

\* The row of a candidate that was accepted
LEMMA AppliedOwn ==
    ASSUME NEW rows, NEW batch, NEW entry \in [DOMAIN batch -> EntryIds], IsInjective(entry),
           NEW c \in DOMAIN batch
    PROVE  Applied(rows, batch, entry)[entry[c]] = Binding(batch[c])
<1>1. entry[c] \in Range(entry)
  BY DEF Range
<1>2. (CHOOSE d \in DOMAIN batch : entry[d] = entry[c]) = c
  BY DEF IsInjective
<1> QED BY <1>1, <1>2 DEF Applied

\* The row of another entry
LEMMA AppliedOther ==
    ASSUME NEW rows, NEW batch, NEW entry, NEW o \in Others(rows, entry)
    PROVE  Applied(rows, batch, entry)[o] = [rows[o] EXCEPT !.active = FALSE]
<1>1. o \in DOMAIN rows /\ o \notin Range(entry)
  BY DEF Others
<1> QED BY <1>1 DEF Applied

\* A row that is no longer active keeps its keys.
LEMMA InactiveKeepsKeys ==
    ASSUME NEW row \in Rows
    PROVE  /\ [row EXCEPT !.active = FALSE] \in Rows
           /\ [row EXCEPT !.active = FALSE].external = row.external
           /\ [row EXCEPT !.active = FALSE].name = row.name
           /\ [row EXCEPT !.active = FALSE].fingerprint = row.fingerprint
BY DEF Rows

\* The row of a candidate has its keys, and is active.
LEMMA BindingKeys ==
    ASSUME NEW key \in Keys
    PROVE  /\ Binding(key) \in Rows /\ Matchable(Binding(key))
           /\ Binding(key).external = key.external /\ Binding(key).name = key.name
           /\ Binding(key).fingerprint = key.fingerprint
BY DEF Keys, Rows, Binding, Matchable

\* Pruning drops rows, changes none, and keeps what can be matched.
LEMMA PrunedMeaning ==
    ASSUME NEW rows
    PROVE  /\ DOMAIN Pruned(rows) \subseteq DOMAIN rows
           /\ \A i \in DOMAIN Pruned(rows) : Pruned(rows)[i] = rows[i]
           /\ \A i \in DOMAIN rows : Matchable(rows[i]) => i \in DOMAIN Pruned(rows)
BY DEF Pruned, Restrict

\* Fewer rows of other entries leave a source settled.
LEMMA SettledWithout ==
    ASSUME NEW rows, NEW fewer, NEW batch, NEW entry, Settled(rows, batch, entry),
           DOMAIN fewer \subseteq DOMAIN rows,
           \A i \in DOMAIN fewer : fewer[i] = rows[i],
           \A c \in DOMAIN batch : entry[c] \in DOMAIN fewer
    PROVE  Settled(fewer, batch, entry) /\ entry \in [DOMAIN batch -> DOMAIN fewer]
<1>1. entry \in [DOMAIN batch -> DOMAIN fewer]
  BY DEF Settled
<1>2. \A o \in Others(fewer, entry) : o \in Others(rows, entry) /\ fewer[o] = rows[o]
  BY DEF Others
<1>3. \A c : Named(rows, batch, entry, c) => Named(fewer, batch, entry, c)
  BY <1>2 DEF Named
<1>4. \A c : Printed(rows, batch, entry, c) => Printed(fewer, batch, entry, c)
  BY <1>2, <1>3 DEF Printed
<1>5. \A c : ExternalClear(rows, batch, entry, c) => ExternalClear(fewer, batch, entry, c)
  BY <1>2 DEF ExternalClear
<1> QED BY <1>1, <1>3, <1>4, <1>5 DEF Settled

\* A source that was accepted without a question is settled.
LEMMA AcceptedSettles ==
    ASSUME NEW rows, NEW batch \in Seq(Keys), NEW unused,
           DOMAIN rows \subseteq EntryIds, \A i \in DOMAIN rows : rows[i] \in Rows,
           unused \cap DOMAIN rows = {},
           Matching(rows, batch).conflicts = {},
           NEW entry \in Assignments(Matching(rows, batch), batch, unused)
    PROVE  Settled(Applied(rows, batch, entry), batch, entry)
<1> DEFINE after == Applied(rows, batch, entry)
<1>1. entry \in [DOMAIN batch -> EntryIds] /\ IsInjective(entry)
  BY Assigned, AssignedOnce
<1>2. /\ DOMAIN after = DOMAIN rows \cup Range(entry)
      /\ \A c \in DOMAIN batch : after[entry[c]] = Binding(batch[c])
      /\ \A o \in Others(rows, entry) : after[o] = [rows[o] EXCEPT !.active = FALSE]
  <2>1. DOMAIN after = DOMAIN rows \cup Range(entry)
    BY AppliedDomain
  <2>2. \A c \in DOMAIN batch : after[entry[c]] = Binding(batch[c])
    BY <1>1, AppliedOwn
  <2>3. \A o \in Others(rows, entry) : after[o] = [rows[o] EXCEPT !.active = FALSE]
    BY AppliedOther
  <2> QED BY <2>1, <2>2, <2>3
<1> HIDE DEF after
<1>3. entry \in [DOMAIN batch -> DOMAIN after]
  BY <1>1, <1>2 DEF Range
<1>4. Others(after, entry) = Others(rows, entry)
  BY <1>2 DEF Others
<1>5. \A o \in Others(rows, entry) :
         /\ after[o].external = rows[o].external /\ after[o].name = rows[o].name
         /\ after[o].fingerprint = rows[o].fingerprint
  <2> TAKE o \in Others(rows, entry)
  <2>1. rows[o] \in Rows
    BY DEF Others
  <2>2. after[o] = [rows[o] EXCEPT !.active = FALSE]
    BY <1>2
  <2> QED BY <2>1, <2>2, InactiveKeepsKeys
<1>6. \A c : Named(after, batch, entry, c) <=> Named(rows, batch, entry, c)
  BY <1>4, <1>5 DEF Named
<1>7. \A c : Printed(after, batch, entry, c) <=> Printed(rows, batch, entry, c)
  BY <1>4, <1>5, <1>6 DEF Printed
<1>8. \A c \in DOMAIN batch : ExternalClear(after, batch, entry, c)
  <2> SUFFICES ASSUME NEW c \in DOMAIN batch, batch[c].external # None
               PROVE  /\ \A d \in DOMAIN batch : batch[d].external = batch[c].external => d = c
                      /\ \A o \in Others(rows, entry) : rows[o].external # batch[c].external
    BY <1>4, <1>5 DEF ExternalClear
  <2>1. /\ \A d \in DOMAIN batch : batch[d].external = batch[c].external => d = c
        /\ \A i \in DOMAIN rows : rows[i].external = batch[c].external => entry[c] = i
    BY AssignedByExternal
  <2>2. \A o \in Others(rows, entry) : o \in DOMAIN rows /\ o # entry[c]
    BY <1>1 DEF Others, Range
  <2> QED BY <2>1, <2>2
<1>9. Distinguishable(batch) => \A c \in Anonymous(batch) :
         Named(after, batch, entry, c) \/ Printed(after, batch, entry, c)
  <2> SUFFICES ASSUME Distinguishable(batch), NEW c \in Anonymous(batch)
               PROVE  Named(after, batch, entry, c) \/ Printed(after, batch, entry, c)
    OBVIOUS
  <2>1. Named(rows, batch, entry, c) \/ Printed(rows, batch, entry, c)
    BY AssignedKnown
  <2> QED BY <1>6, <1>7, <2>1
<1>10. Settled(after, batch, entry)
  BY <1>1, <1>2, <1>3, <1>8, <1>9 DEF Settled
<1> QED BY <1>10 DEF after

-----------------------------------------------------------------------------
\* The row of a candidate of a settled source has its keys.
LEMMA SettledRows ==
    ASSUME NEW rows, NEW batch \in Seq(Keys), NEW entry, Settled(rows, batch, entry),
           NEW c \in DOMAIN batch
    PROVE  /\ rows[entry[c]].external = batch[c].external
           /\ rows[entry[c]].name = batch[c].name /\ batch[c].name # None
           /\ rows[entry[c]].fingerprint = batch[c].fingerprint
<1>1. batch[c] \in Keys
  OBVIOUS
<1>2. batch[c].name # None
  BY <1>1, NoneAssumption DEF Keys
<1>3. rows[entry[c]] = Binding(batch[c])
  BY DEF Settled
<1> QED BY <1>1, <1>2, <1>3, BindingKeys

\* The first stage pairs the candidates of a settled source that have an external id
\* with their own rows, and leaves the others.
LEMMA RematchExternal ==
    ASSUME NEW rows, NEW batch \in Seq(Keys), DOMAIN rows \subseteq EntryIds,
           NEW entry, Settled(rows, batch, entry)
    PROVE  /\ \A c, i : <<c, i>> \in ExternalPairs(rows, batch) <=>
                 c \in DOMAIN batch /\ batch[c].external # None /\ i = entry[c]
           /\ Blocked(rows, batch) = {}
           /\ Open1(rows, batch) = Anonymous(batch)
           /\ \A i : i \in Free1(rows, batch) <=>
                 \/ i \in Others(rows, entry)
                 \/ \E c \in Anonymous(batch) : i = entry[c]
<1>1. /\ entry \in [DOMAIN batch -> DOMAIN rows]
      /\ \A c, d \in DOMAIN batch : entry[c] = entry[d] => c = d
      /\ \A c \in DOMAIN batch : rows[entry[c]] = Binding(batch[c])
      /\ \A c \in DOMAIN batch : ExternalClear(rows, batch, entry, c)
  BY DEF Settled, IsInjective
<1>2. \A c \in DOMAIN batch : rows[entry[c]].external = batch[c].external
  BY SettledRows
<1>3. ASSUME NEW c \in DOMAIN batch, batch[c].external # None
      PROVE  /\ \A d \in DOMAIN batch : batch[d].external = batch[c].external => d = c
             /\ \A i \in DOMAIN rows : rows[i].external = batch[c].external => i = entry[c]
  <2>1. /\ \A d \in DOMAIN batch : batch[d].external = batch[c].external => d = c
        /\ \A o \in Others(rows, entry) : rows[o].external # batch[c].external
    BY <1>1, <1>3 DEF ExternalClear
  <2>2. \A i \in DOMAIN rows : i \in Others(rows, entry) \/ \E d \in DOMAIN batch : i = entry[d]
    BY <1>1 DEF Others, Range
  <2> QED BY <1>2, <2>1, <2>2
<1>4. \A c, i : <<c, i>> \in ExternalPairs(rows, batch) <=>
         c \in DOMAIN batch /\ batch[c].external # None /\ i = entry[c]
  <2> SUFFICES ASSUME NEW c, NEW i
               PROVE  <<c, i>> \in ExternalPairs(rows, batch) <=>
                         c \in DOMAIN batch /\ batch[c].external # None /\ i = entry[c]
    OBVIOUS
  <2> QED BY <1>1, <1>2, <1>3, StageMeaning
<1>5. Blocked(rows, batch) = {}
  <2> SUFFICES ASSUME NEW c \in Blocked(rows, batch) PROVE FALSE
    OBVIOUS
  <2> DEFINE B == Sharing(batch, DOMAIN batch, "external", batch[c].external)
             R == Sharing(rows, DOMAIN rows, "external", batch[c].external)
  <2>1. c \in DOMAIN batch /\ batch[c].external # None /\ (Cardinality(B) > 1 \/ Cardinality(R) > 1)
    BY ExternalMeaning
  <2>2. IsFiniteSet(B) /\ IsFiniteSet(R)
    BY SharingFinite
  <2>3. (\A x, y \in B : x = y) /\ (\A x, y \in R : x = y)
    BY <1>3, <2>1 DEF Sharing
  <2> HIDE DEF B, R
  <2> QED BY <2>1, <2>2, <2>3, AtMostOne
<1>6. \A c : c \in Open1(rows, batch) <=> c \in Anonymous(batch)
  <2>1. \A c \in DOMAIN batch : c \in Paired(ExternalPairs(rows, batch)) <=> batch[c].external # None
    <3> TAKE c \in DOMAIN batch
    <3>1. c \in Paired(ExternalPairs(rows, batch)) <=>
             \E i \in DOMAIN rows : <<c, i>> \in ExternalPairs(rows, batch)
      BY PairOf
    <3> QED BY <1>1, <1>4, <3>1
  <2> QED BY <1>5, <2>1, StageSets DEF Anonymous
<1>7. \A i : i \in Used(ExternalPairs(rows, batch)) <=>
         \E c \in DOMAIN batch : batch[c].external # None /\ i = entry[c]
  BY <1>4, PairOf
<1>8. \A i : i \in Free1(rows, batch) <=>
         \/ i \in Others(rows, entry)
         \/ \E c \in Anonymous(batch) : i = entry[c]
  <2> SUFFICES ASSUME NEW i PROVE i \in Free1(rows, batch) <=>
                  \/ i \in Others(rows, entry)
                  \/ \E c \in Anonymous(batch) : i = entry[c]
    OBVIOUS
  <2>1. i \in Free1(rows, batch) <=>
           i \in DOMAIN rows /\ ~\E c \in DOMAIN batch : batch[c].external # None /\ i = entry[c]
    BY <1>7, StageSets
  <2>2. i \in DOMAIN rows <=> i \in Others(rows, entry) \/ \E d \in DOMAIN batch : i = entry[d]
    BY <1>1 DEF Others, Range
  <2>3. i \in Others(rows, entry) => ~\E d \in DOMAIN batch : i = entry[d]
    BY <1>1 DEF Others, Range
  <2> QED BY <1>1, <2>1, <2>2, <2>3 DEF Anonymous
<1> QED BY <1>4, <1>5, <1>6, <1>8

\* The second stage pairs exactly those that are known by their names, with their own
\* rows.
LEMMA RematchName ==
    ASSUME NEW rows, NEW batch \in Seq(Keys), DOMAIN rows \subseteq EntryIds,
           NEW entry, Settled(rows, batch, entry)
    PROVE  /\ \A c, i : <<c, i>> \in NamePairs(rows, batch) <=>
                 c \in Anonymous(batch) /\ Named(rows, batch, entry, c) /\ i = entry[c]
           /\ \A c : c \in Open2(rows, batch) <=>
                 c \in Anonymous(batch) /\ ~Named(rows, batch, entry, c)
           /\ \A i : i \in Free2(rows, batch) <=>
                 \/ i \in Others(rows, entry)
                 \/ \E c \in Open2(rows, batch) : i = entry[c]
<1>1. /\ entry \in [DOMAIN batch -> DOMAIN rows]
      /\ \A c, d \in DOMAIN batch : entry[c] = entry[d] => c = d
  BY DEF Settled, IsInjective
<1>2. \A c \in DOMAIN batch : rows[entry[c]].name = batch[c].name /\ batch[c].name # None
  BY SettledRows
<1>3. /\ Open1(rows, batch) = Anonymous(batch)
      /\ \A i : i \in Free1(rows, batch) <=>
            \/ i \in Others(rows, entry)
            \/ \E c \in Anonymous(batch) : i = entry[c]
  BY RematchExternal
<1>4. Anonymous(batch) \subseteq DOMAIN batch
  BY DEF Anonymous
<1>5. \A o \in Others(rows, entry) : \A c \in DOMAIN batch : entry[c] # o
  BY <1>1 DEF Others, Range
<1>6. ASSUME NEW c, NEW i
      PROVE  <<c, i>> \in NamePairs(rows, batch) <=>
                c \in Anonymous(batch) /\ Named(rows, batch, entry, c) /\ i = entry[c]
  <2>1. ASSUME <<c, i>> \in NamePairs(rows, batch)
        PROVE  c \in Anonymous(batch) /\ Named(rows, batch, entry, c) /\ i = entry[c]
    <3>1. /\ c \in Anonymous(batch)
          /\ \A d \in Anonymous(batch) : batch[d].name = batch[c].name => d = c
          /\ \A j \in Free1(rows, batch) : rows[j].name = batch[c].name => j = i
      BY <1>3, <2>1, StageMeaning
    <3>2. i = entry[c]
      BY <1>2, <1>3, <1>4, <3>1
    <3>3. \A o \in Others(rows, entry) : rows[o].name # batch[c].name
      BY <1>3, <1>4, <1>5, <3>1, <3>2
    <3> QED BY <3>1, <3>2, <3>3 DEF Named
  <2>2. ASSUME c \in Anonymous(batch), Named(rows, batch, entry, c), i = entry[c]
        PROVE  <<c, i>> \in NamePairs(rows, batch)
    <3>1. /\ \A d \in Anonymous(batch) : batch[d].name = batch[c].name => d = c
          /\ \A o \in Others(rows, entry) : rows[o].name # batch[c].name
      BY <2>2 DEF Named
    <3>2. \A j \in Free1(rows, batch) : rows[j].name = batch[c].name => j = i
      BY <1>2, <1>3, <1>4, <2>2, <3>1
    <3>3. i \in Free1(rows, batch) /\ rows[i].name = batch[c].name /\ batch[c].name # None
      BY <1>2, <1>3, <1>4, <2>2
    <3> QED BY <1>3, <2>2, <3>1, <3>2, <3>3, StageMeaning
  <2> QED BY <2>1, <2>2
<1>7. ASSUME NEW c
      PROVE  c \in Open2(rows, batch) <=> c \in Anonymous(batch) /\ ~Named(rows, batch, entry, c)
  <2>1. c \in Paired(NamePairs(rows, batch)) <=>
           \E i \in Free1(rows, batch) : <<c, i>> \in NamePairs(rows, batch)
    BY PairOf
  <2>2. c \in Anonymous(batch) => entry[c] \in Free1(rows, batch)
    BY <1>3
  <2>3. c \in Paired(NamePairs(rows, batch)) <=>
           c \in Anonymous(batch) /\ Named(rows, batch, entry, c)
    BY <1>6, <2>1, <2>2
  <2>4. c \in Open2(rows, batch) <=>
           c \in Open1(rows, batch) /\ c \notin Paired(NamePairs(rows, batch))
    BY StageSets
  <2> QED BY <1>3, <2>3, <2>4
<1>8. ASSUME NEW i
      PROVE  i \in Free2(rows, batch) <=>
                \/ i \in Others(rows, entry)
                \/ \E c \in Open2(rows, batch) : i = entry[c]
  <2>1. i \in Used(NamePairs(rows, batch)) <=>
           \E c \in Open1(rows, batch) : <<c, i>> \in NamePairs(rows, batch)
    BY PairOf
  <2>2. i \in Used(NamePairs(rows, batch)) <=>
           \E c \in Anonymous(batch) : Named(rows, batch, entry, c) /\ i = entry[c]
    BY <1>3, <1>6, <2>1
  <2>3. i \in Free2(rows, batch) <=>
           i \in Free1(rows, batch) /\ i \notin Used(NamePairs(rows, batch))
    BY StageSets
  <2> QED BY <1>1, <1>3, <1>4, <1>5, <1>7, <2>2, <2>3
<1> QED BY <1>6, <1>7, <1>8

\* The third stage pairs nobody with a row that is not his, and exactly those whose
\* fingerprint is unique among what is left.
LEMMA RematchPrint ==
    ASSUME NEW rows, NEW batch \in Seq(Keys), DOMAIN rows \subseteq EntryIds,
           NEW entry, Settled(rows, batch, entry)
    PROVE  /\ \A c, i : <<c, i>> \in PrintPairs(rows, batch) <=>
                 /\ c \in Open2(rows, batch) /\ Printed(rows, batch, entry, c)
                 /\ i = entry[c]
           /\ \A c : c \in Open3(rows, batch) <=>
                 c \in Open2(rows, batch) /\ ~Printed(rows, batch, entry, c)
<1>1. /\ entry \in [DOMAIN batch -> DOMAIN rows]
      /\ \A c, d \in DOMAIN batch : entry[c] = entry[d] => c = d
  BY DEF Settled, IsInjective
<1>2. \A c \in DOMAIN batch : rows[entry[c]].fingerprint = batch[c].fingerprint
  BY SettledRows
<1>3. /\ \A c : c \in Open2(rows, batch) <=>
            c \in Anonymous(batch) /\ ~Named(rows, batch, entry, c)
      /\ \A i : i \in Free2(rows, batch) <=>
            \/ i \in Others(rows, entry)
            \/ \E c \in Open2(rows, batch) : i = entry[c]
  BY RematchName
<1>4. \A c \in Open2(rows, batch) : c \in DOMAIN batch
  BY <1>3 DEF Anonymous
<1>5. \A o \in Others(rows, entry) : \A c \in DOMAIN batch : entry[c] # o
  BY <1>1 DEF Others, Range
<1>6. ASSUME NEW c, NEW i
      PROVE  <<c, i>> \in PrintPairs(rows, batch) <=>
                /\ c \in Open2(rows, batch) /\ Printed(rows, batch, entry, c)
                /\ i = entry[c]
  <2>1. ASSUME <<c, i>> \in PrintPairs(rows, batch)
        PROVE  c \in Open2(rows, batch) /\ Printed(rows, batch, entry, c) /\ i = entry[c]
    <3>1. /\ c \in Open2(rows, batch) /\ batch[c].fingerprint # None
          /\ \A d \in Open2(rows, batch) : batch[d].fingerprint = batch[c].fingerprint => d = c
          /\ \A j \in Free2(rows, batch) : rows[j].fingerprint = batch[c].fingerprint => j = i
      BY <2>1, StageMeaning
    <3>2. i = entry[c]
      BY <1>2, <1>3, <1>4, <3>1
    <3>3. \A o \in Others(rows, entry) : rows[o].fingerprint # batch[c].fingerprint
      BY <1>3, <1>4, <1>5, <3>1, <3>2
    <3> QED BY <1>3, <3>1, <3>2, <3>3 DEF Printed
  <2>2. ASSUME c \in Open2(rows, batch), Printed(rows, batch, entry, c), i = entry[c]
        PROVE  <<c, i>> \in PrintPairs(rows, batch)
    <3>1. /\ batch[c].fingerprint # None
          /\ \A d \in Open2(rows, batch) : batch[d].fingerprint = batch[c].fingerprint => d = c
          /\ \A o \in Others(rows, entry) : rows[o].fingerprint # batch[c].fingerprint
      BY <1>3, <2>2 DEF Printed
    <3>2. \A j \in Free2(rows, batch) : rows[j].fingerprint = batch[c].fingerprint => j = i
      BY <1>2, <1>3, <1>4, <2>2, <3>1
    <3>3. i \in Free2(rows, batch) /\ rows[i].fingerprint = batch[c].fingerprint
      BY <1>2, <1>3, <1>4, <2>2
    <3> QED BY <2>2, <3>1, <3>2, <3>3, StageMeaning
  <2> QED BY <2>1, <2>2
<1>7. ASSUME NEW c
      PROVE  c \in Open3(rows, batch) <=>
                c \in Open2(rows, batch) /\ ~Printed(rows, batch, entry, c)
  <2>1. c \in Paired(PrintPairs(rows, batch)) <=>
           \E i \in Free2(rows, batch) : <<c, i>> \in PrintPairs(rows, batch)
    BY PairOf
  <2>2. c \in Open2(rows, batch) => entry[c] \in Free2(rows, batch)
    BY <1>3
  <2>3. c \in Paired(PrintPairs(rows, batch)) <=>
           c \in Open2(rows, batch) /\ Printed(rows, batch, entry, c)
    BY <1>6, <2>1, <2>2
  <2>4. c \in Open3(rows, batch) <=>
           c \in Open2(rows, batch) /\ c \notin Paired(PrintPairs(rows, batch))
    BY StageSets
  <2> QED BY <2>3, <2>4
<1> QED BY <1>6, <1>7

\* What reconcile() says of a settled source that has not changed: it finds its entries
\* again, takes none for new, and asks only when they cannot be told apart.
LEMMA Rematch ==
    ASSUME NEW rows, NEW batch \in Seq(Keys), DOMAIN rows \subseteq EntryIds,
           NEW entry, Settled(rows, batch, entry)
    PROVE  /\ Matching(rows, batch).new = {}
           /\ \A p \in Matching(rows, batch).pairs : p[1] \in DOMAIN batch /\ p[2] = entry[p[1]]
           /\ Matching(rows, batch).conflicts = {} <=> Distinguishable(batch)
<1> DEFINE A == Anonymous(batch)
           Known(c) == Named(rows, batch, entry, c)
           Left == Open3(rows, batch)
<1>1. /\ \A c, i : <<c, i>> \in ExternalPairs(rows, batch) => c \in DOMAIN batch /\ i = entry[c]
      /\ Blocked(rows, batch) = {}
  BY RematchExternal
<1>2. /\ \A c, i : <<c, i>> \in NamePairs(rows, batch) => c \in A /\ i = entry[c]
      /\ \A c : c \in Open2(rows, batch) <=> c \in A /\ ~Known(c)
      /\ \A i : i \in Free2(rows, batch) <=>
            i \in Others(rows, entry) \/ \E c \in Open2(rows, batch) : i = entry[c]
  BY RematchName
<1>3. /\ \A c, i : <<c, i>> \in PrintPairs(rows, batch) =>
            c \in Open2(rows, batch) /\ i = entry[c]
      /\ \A c : c \in Left <=> c \in Open2(rows, batch) /\ ~Printed(rows, batch, entry, c)
  BY RematchPrint
<1>4. A \subseteq DOMAIN batch
  BY DEF Anonymous
<1>5. entry \in [DOMAIN batch -> DOMAIN rows] /\ \A c, d \in DOMAIN batch : entry[c] = entry[d] => c = d
  BY DEF Settled, IsInjective
<1>6. ASSUME NEW p \in AllPairs(rows, batch) PROVE p[1] \in DOMAIN batch /\ p[2] = entry[p[1]]
  <2>1. p = <<p[1], p[2]>>
    BY PairsArePairs, ExternalMeaning DEF AllPairs, NamePairs, PrintPairs
  <2> DEFINE c == p[1]
             i == p[2]
  <2>2. \/ <<c, i>> \in ExternalPairs(rows, batch)
        \/ <<c, i>> \in NamePairs(rows, batch)
        \/ <<c, i>> \in PrintPairs(rows, batch)
    BY <2>1 DEF AllPairs
  <2> HIDE DEF c, i
  <2>3. c \in DOMAIN batch /\ i = entry[c]
    BY <1>1, <1>2, <1>3, <1>4, <2>2
  <2> QED BY <2>3 DEF c, i
<1>7. \A c \in Left : c \in Alike(rows, batch) \/ c \in Changed(rows, batch)
  <2> TAKE c \in Left
  <2>1. c \in DOMAIN batch /\ entry[c] \in Free2(rows, batch)
    BY <1>2, <1>3, <1>4
  <2>2. /\ rows[entry[c]].fingerprint = batch[c].fingerprint
        /\ rows[entry[c]].name = batch[c].name
    BY <2>1, SettledRows
  <2>3. entry[c] \notin Used(PrintPairs(rows, batch))
    <3> SUFFICES ASSUME entry[c] \in Used(PrintPairs(rows, batch)) PROVE FALSE
      OBVIOUS
    <3>1. PICK d \in Open2(rows, batch) : <<d, entry[c]>> \in PrintPairs(rows, batch)
      BY PairOf
    <3>2. d \in DOMAIN batch /\ entry[c] = entry[d] /\ Printed(rows, batch, entry, d)
      BY <1>2, <1>4, <3>1, RematchPrint
    <3> QED BY <1>3, <1>5, <2>1, <3>2
  <2>4. entry[c] \in DOMAIN rows \ Used(AllPairs(rows, batch))
    BY <2>1, <2>3, StageSets
  <2> QED BY <2>1, <2>2, <2>4, FreshMeaning
<1>8. Fresh(rows, batch) = {} /\ Alike(rows, batch) \cup Changed(rows, batch) = Left
  BY <1>7 DEF Fresh, Alike, Changed
<1>9. Twins(batch, Fresh(rows, batch)) = {}
  BY <1>8 DEF Twins
<1>10. Matching(rows, batch).conflicts = {} <=> Left = {}
  <2>1. Matching(rows, batch).conflicts =
           ((Blocked(rows, batch) \cup Alike(rows, batch)) \cup Changed(rows, batch))
           \cup Twins(batch, Fresh(rows, batch))
    BY MatchingStages
  <2> QED BY <1>1, <1>8, <1>9, <2>1
<1>11. Distinguishable(batch) => Left = {}
  BY <1>2, <1>3 DEF Settled
<1>12. Left = {} => Distinguishable(batch)
  <2> SUFFICES ASSUME Left = {},
                      NEW c \in A, NEW e \in A, e # c, batch[e].name = batch[c].name
               PROVE  /\ batch[c].fingerprint # None
                      /\ \A d \in A : (\E x \in A \ {d} : batch[x].name = batch[d].name)
                              /\ batch[d].fingerprint = batch[c].fingerprint => d = c
    BY DEF Distinguishable, Anonymous
  <2>1. Printed(rows, batch, entry, c)
    BY <1>2, <1>3 DEF Named
  <2>2. \A d \in A : (\E x \in A \ {d} : batch[x].name = batch[d].name) => ~Known(d)
    BY DEF Named
  <2> QED BY <2>1, <2>2 DEF Printed
<1>13. Matching(rows, batch).new = {} /\ Matching(rows, batch).pairs = AllPairs(rows, batch)
  BY <1>8, MatchingStages
<1> QED BY <1>6, <1>10, <1>11, <1>12, <1>13

\* reconcile() gives ids of rows of the source, and new ones.
LEMMA AssignedRange ==
    ASSUME NEW rows, NEW batch, NEW unused,
           Matching(rows, batch).conflicts = {},
           NEW entry \in Assignments(Matching(rows, batch), batch, unused),
           NEW c \in DOMAIN batch
    PROVE  entry[c] \in DOMAIN rows \/ entry[c] \in unused
<1>1. /\ Blocked(rows, batch) = {}
      /\ \A i : <<c, i>> \in ExternalPairs(rows, batch) => entry[c] = i
      /\ \A i : <<c, i>> \in NamePairs(rows, batch) => entry[c] = i
      /\ \A i : <<c, i>> \in PrintPairs(rows, batch) => entry[c] = i
      /\ c \in Open3(rows, batch) => entry[c] \in unused
  BY Assigned
<1>2. /\ \A i : <<c, i>> \in ExternalPairs(rows, batch) => i \in DOMAIN rows
      /\ \A i : <<c, i>> \in NamePairs(rows, batch) => i \in DOMAIN rows
      /\ \A i : <<c, i>> \in PrintPairs(rows, batch) => i \in DOMAIN rows
  BY StageMeaning, StageSets
<1> QED BY <1>1, <1>2, SomeStage

-----------------------------------------------------------------------------
\* What an acceptance does to each source
LEMMA AcceptMeaning ==
    ASSUME InventoryTypeOK, CompiledInv, NEW s \in Sources, NEW batch,
           NEW entry \in [DOMAIN batch -> EntryIds], IsInjective(entry), NEW auto,
           Accept(s, batch, entry, auto)
    PROVE  /\ config' = config /\ DOMAIN identity' = Sources
           /\ DOMAIN generations' = Sources /\ DOMAIN repeat' = Sources
           /\ DOMAIN generations'[s] = Range(entry)
           /\ \A c \in DOMAIN batch : generations'[s][entry[c]] = batch[c]
           /\ identity'[s] = Pruned(Applied(identity[s], batch, entry))
           /\ repeat'[s] = IF auto THEN batch ELSE None
           /\ \A x \in Sources \ {s} :
                 /\ generations'[x] = generations[x] /\ repeat'[x] = repeat[x]
                 /\ identity'[x] = Pruned(identity[x])
           /\ CompiledInv'
<1> DEFINE entries == [i \in Range(entry) |-> batch[CHOOSE c \in DOMAIN batch : entry[c] = i]]
           gens == [generations EXCEPT ![s] = entries]
<1>1. DOMAIN identity = Sources /\ DOMAIN generations = Sources /\ DOMAIN repeat = Sources
  BY DEF InventoryTypeOK
<1>2. /\ \/ generations[s] = entries /\ generations' = generations /\ compiled' = compiled
         \/ generations' = gens /\ compiled' = Compile(config, gens)
      /\ identity' = [x \in Sources |->
            Pruned([identity EXCEPT ![s] = Applied(identity[s], batch, entry)][x])]
      /\ repeat' = [repeat EXCEPT ![s] = IF auto THEN batch ELSE None]
      /\ config' = config
  BY DEF Accept
<1>3. /\ DOMAIN entries = Range(entry)
      /\ \A c \in DOMAIN batch : entries[entry[c]] = batch[c]
  <2>1. DOMAIN entries = Range(entry)
    OBVIOUS
  <2>2. ASSUME NEW c \in DOMAIN batch PROVE entries[entry[c]] = batch[c]
    <3>1. entry[c] \in Range(entry)
      BY DEF Range
    <3>2. (CHOOSE d \in DOMAIN batch : entry[d] = entry[c]) = c
      BY DEF IsInjective
    <3> QED BY <3>1, <3>2
  <2> QED BY <2>1, <2>2
<1> HIDE DEF entries
<1>4. /\ DOMAIN generations' = Sources /\ generations'[s] = entries
      /\ \A x \in Sources \ {s} : generations'[x] = generations[x]
  BY <1>1, <1>2
<1>5. /\ DOMAIN identity' = Sources
      /\ identity'[s] = Pruned(Applied(identity[s], batch, entry))
      /\ \A x \in Sources \ {s} : identity'[x] = Pruned(identity[x])
  <2> DEFINE registry == [identity EXCEPT ![s] = Applied(identity[s], batch, entry)]
  <2>1. registry[s] = Applied(identity[s], batch, entry)
    BY <1>1
  <2>2. \A x \in Sources \ {s} : registry[x] = identity[x]
    BY <1>1
  <2>3. identity' = [x \in Sources |-> Pruned(registry[x])]
    BY <1>2
  <2> HIDE DEF registry
  <2> QED BY <2>1, <2>2, <2>3
<1>6. /\ DOMAIN repeat' = Sources /\ repeat'[s] = IF auto THEN batch ELSE None
      /\ \A x \in Sources \ {s} : repeat'[x] = repeat[x]
  BY <1>1, <1>2
<1>7. compiled' = Compile(config', generations')
  BY <1>2 DEF CompiledInv
<1> QED BY <1>2, <1>3, <1>4, <1>5, <1>6, <1>7 DEF CompiledInv

\* Pruning keeps the rows of live entries.
LEMMA PruneKeepsLive ==
    ASSUME InventoryTypeOK, LiveRows, NEW s \in Sources, generations[s] # None,
           NEW i \in DOMAIN generations[s]
    PROVE  i \in DOMAIN Pruned(identity[s]) /\ Pruned(identity[s])[i] = Binding(generations[s][i])
<1>1. generations[s][i] \in Keys
  BY DEF InventoryTypeOK, Range
<1>2. i \in DOMAIN identity[s] /\ identity[s][i] = Binding(generations[s][i])
  BY DEF LiveRows
<1>3. Matchable(identity[s][i])
  BY <1>1, <1>2, BindingKeys
<1> QED BY <1>2, <1>3, PrunedMeaning

\* Pruning leaves a source settled.
LEMMA PruneKeepsSettled ==
    ASSUME NEW rows, NEW batch \in Seq(Keys), NEW entry, Settled(rows, batch, entry)
    PROVE  /\ Settled(Pruned(rows), batch, entry)
           /\ entry \in [DOMAIN batch -> DOMAIN Pruned(rows)]
<1>1. \A c \in DOMAIN batch : entry[c] \in DOMAIN Pruned(rows)
  <2> TAKE c \in DOMAIN batch
  <2>1. batch[c] \in Keys
    OBVIOUS
  <2>2. entry[c] \in DOMAIN rows /\ rows[entry[c]] = Binding(batch[c])
    BY DEF Settled
  <2>3. Matchable(rows[entry[c]])
    BY <2>1, <2>2, BindingKeys
  <2> QED BY <2>2, <2>3, PrunedMeaning
<1> QED BY <1>1, PrunedMeaning, SettledWithout

\* Feeds are sequences of keys.
LEMMA FeedIsSeq ==
    ASSUME NEW s \in Sources, NEW batch \in Feeds[s]
    PROVE  batch \in Seq(Keys) /\ batch # None /\ \A c \in DOMAIN batch : batch[c] \in Keys
<1>1. batch \in Seq(Keys) /\ batch # None
  BY FeedsAssumption
<1> QED BY <1>1

\* An acceptance of ids that no other source has keeps the invariant, as far as it is
\* not about sources that were accepted without a question.
LEMMA AcceptSafe ==
    ASSUME InventoryTypeOK, OneSource, LiveRows, CompiledInv,
           NEW s \in Sources, NEW batch \in Feeds[s],
           NEW entry \in [DOMAIN batch -> EntryIds], IsInjective(entry),
           \A x \in Sources \ {s} : \A c \in DOMAIN batch : entry[c] \notin DOMAIN identity[x],
           NEW auto \in BOOLEAN, Accept(s, batch, entry, auto)
    PROVE  InventoryTypeOK' /\ OneSource' /\ LiveRows' /\ CompiledInv'
<1> DEFINE after == Applied(identity[s], batch, entry)
<1>1. /\ config' = config /\ DOMAIN identity' = Sources
      /\ DOMAIN generations' = Sources /\ DOMAIN repeat' = Sources
      /\ DOMAIN generations'[s] = Range(entry)
      /\ \A c \in DOMAIN batch : generations'[s][entry[c]] = batch[c]
      /\ identity'[s] = Pruned(after)
      /\ repeat'[s] = IF auto THEN batch ELSE None
      /\ \A x \in Sources \ {s} :
            /\ generations'[x] = generations[x] /\ repeat'[x] = repeat[x]
            /\ identity'[x] = Pruned(identity[x])
      /\ CompiledInv'
  BY AcceptMeaning
<1>2. /\ config \in Configs
      /\ \A x \in Sources :
            /\ DOMAIN identity[x] \subseteq EntryIds
            /\ \A i \in DOMAIN identity[x] : identity[x][i] \in Rows
            /\ generations[x] # None =>
                  /\ DOMAIN generations[x] \subseteq EntryIds
                  /\ \A i \in DOMAIN generations[x] : generations[x][i] \in Keys
            /\ repeat[x] \in Feeds[x] \cup {None}
  BY DEF InventoryTypeOK, Range
<1>3. \A c \in DOMAIN batch : batch[c] \in Keys
  BY FeedIsSeq
<1>4. \A i : i \in Range(entry) <=> \E c \in DOMAIN batch : i = entry[c]
  BY DEF Range
<1>5. DOMAIN after = DOMAIN identity[s] \cup Range(entry)
  BY AppliedDomain
<1>6. \A c \in DOMAIN batch : after[entry[c]] = Binding(batch[c])
  BY AppliedOwn
<1>7. \A i \in DOMAIN after : after[i] \in Rows
  <2> TAKE i \in DOMAIN after
  <2>1. CASE i \in Range(entry)
    <3>1. PICK c \in DOMAIN batch : i = entry[c]
      BY <1>4, <2>1
    <3>2. after[i] = Binding(batch[c])
      BY <1>6, <3>1
    <3> QED BY <1>3, <3>2, BindingKeys
  <2>2. CASE i \notin Range(entry)
    <3>1. i \in Others(identity[s], entry) /\ identity[s][i] \in Rows
      BY <1>2, <1>5, <2>2 DEF Others
    <3>2. after[i] = [identity[s][i] EXCEPT !.active = FALSE]
      BY <3>1, AppliedOther
    <3> QED BY <3>1, <3>2, InactiveKeepsKeys
  <2> QED BY <2>1, <2>2
<1>8. \A c \in DOMAIN batch :
         entry[c] \in DOMAIN identity'[s] /\ identity'[s][entry[c]] = Binding(batch[c])
  <2> TAKE c \in DOMAIN batch
  <2>1. entry[c] \in DOMAIN after /\ Matchable(after[entry[c]])
    <3>1. Matchable(Binding(batch[c]))
      BY <1>3, BindingKeys
    <3> QED BY <1>4, <1>5, <1>6, <3>1
  <2> HIDE DEF after
  <2>2. entry[c] \in DOMAIN Pruned(after) /\ Pruned(after)[entry[c]] = after[entry[c]]
    BY <2>1, PrunedMeaning
  <2> QED BY <1>1, <1>6, <2>2
<1>9. /\ DOMAIN identity'[s] \subseteq DOMAIN identity[s] \cup Range(entry)
      /\ \A i \in DOMAIN identity'[s] : identity'[s][i] \in Rows
  <2> HIDE DEF after
  <2>1. DOMAIN Pruned(after) \subseteq DOMAIN after
    BY PrunedMeaning
  <2>2. \A i \in DOMAIN Pruned(after) : Pruned(after)[i] = after[i]
    BY PrunedMeaning
  <2> QED BY <1>1, <1>5, <1>7, <2>1, <2>2
<1>10. \A x \in Sources \ {s} :
          /\ DOMAIN identity'[x] \subseteq DOMAIN identity[x]
          /\ \A i \in DOMAIN identity'[x] : identity'[x][i] = identity[x][i]
  BY <1>1, PrunedMeaning
<1> HIDE DEF after
<1>11. InventoryTypeOK'
  <2>1. \A x \in Sources : \A i \in DOMAIN identity'[x] : i \in EntryIds /\ identity'[x][i] \in Rows
    BY <1>2, <1>4, <1>9, <1>10
  <2>2. \A x \in Sources : generations'[x] # None =>
           \A i \in DOMAIN generations'[x] : i \in EntryIds /\ generations'[x][i] \in Keys
    BY <1>1, <1>2, <1>3, <1>4
  <2>3. \A x \in Sources : repeat'[x] \in Feeds[x] \cup {None}
    BY <1>1, <1>2
  <2> QED BY <1>1, <1>2, <2>1, <2>2, <2>3 DEF InventoryTypeOK, Range
<1>12. OneSource'
  <2> SUFFICES ASSUME NEW x \in Sources, NEW y \in Sources \ {x}
               PROVE  DOMAIN identity'[x] \cap DOMAIN identity'[y] = {}
    BY DEF OneSource
  <2>1. DOMAIN identity[x] \cap DOMAIN identity[y] = {}
    BY DEF OneSource
  <2> QED BY <1>4, <1>9, <1>10, <2>1
<1>13. LiveRows'
  <2> SUFFICES ASSUME NEW x \in Sources, generations'[x] # None, NEW i \in DOMAIN generations'[x]
               PROVE  i \in DOMAIN identity'[x] /\ identity'[x][i] = Binding(generations'[x][i])
    BY DEF LiveRows
  <2>1. CASE x = s
    <3>1. PICK c \in DOMAIN batch : i = entry[c]
      BY <1>1, <1>4, <2>1
    <3> QED BY <1>1, <1>8, <2>1, <3>1
  <2>2. CASE x # s
    <3>1. generations[x] # None /\ i \in DOMAIN generations[x]
      BY <1>1, <2>2
    <3>2. /\ i \in DOMAIN Pruned(identity[x])
          /\ Pruned(identity[x])[i] = Binding(generations[x][i])
      BY <3>1, PruneKeepsLive
    <3> QED BY <1>1, <2>2, <3>2
  <2> QED BY <2>1, <2>2
<1> QED BY <1>1, <1>11, <1>12, <1>13

\* An acceptance leaves other sources settled, and this one when its rows are.
LEMMA AcceptKeepsSettled ==
    ASSUME InventoryInv, NEW s \in Sources, NEW batch \in Feeds[s],
           NEW entry \in [DOMAIN batch -> EntryIds], IsInjective(entry),
           NEW auto \in BOOLEAN, Accept(s, batch, entry, auto),
           auto => Settled(Applied(identity[s], batch, entry), batch, entry)
    PROVE  SettledInv'
<1> DEFINE after == Applied(identity[s], batch, entry)
<1>1. /\ DOMAIN generations'[s] = Range(entry)
      /\ \A c \in DOMAIN batch : generations'[s][entry[c]] = batch[c]
      /\ identity'[s] = Pruned(after)
      /\ repeat'[s] = IF auto THEN batch ELSE None
      /\ \A x \in Sources \ {s} :
            /\ generations'[x] = generations[x] /\ repeat'[x] = repeat[x]
            /\ identity'[x] = Pruned(identity[x])
  BY AcceptMeaning DEF InventoryInv
<1> HIDE DEF after
<1> SUFFICES ASSUME NEW x \in Sources, repeat'[x] # None
             PROVE  \E assigned \in [DOMAIN repeat'[x] -> DOMAIN identity'[x]] :
                       /\ Settled(identity'[x], repeat'[x], assigned)
                       /\ DOMAIN generations'[x] = Range(assigned)
                       /\ \A c \in DOMAIN repeat'[x] :
                             generations'[x][assigned[c]] = repeat'[x][c]
  BY DEF SettledInv
<1>2. CASE x = s
  <2>1. auto /\ repeat'[s] = batch
    BY <1>1, <1>2
  <2>2. Settled(after, batch, entry)
    BY <2>1 DEF after
  <2>3. batch \in Seq(Keys)
    BY FeedIsSeq
  <2>4. /\ Settled(Pruned(after), batch, entry)
        /\ entry \in [DOMAIN batch -> DOMAIN Pruned(after)]
    BY <2>2, <2>3, PruneKeepsSettled
  <2>5. entry \in [DOMAIN repeat'[x] -> DOMAIN identity'[x]]
    BY <1>1, <1>2, <2>1, <2>4
  <2> QED BY <1>1, <1>2, <2>1, <2>4, <2>5
<1>3. CASE x # s
  <2>1. /\ repeat'[x] = repeat[x] /\ generations'[x] = generations[x]
        /\ identity'[x] = Pruned(identity[x])
    BY <1>1, <1>3
  <2>2. PICK assigned \in [DOMAIN repeat[x] -> DOMAIN identity[x]] :
           /\ Settled(identity[x], repeat[x], assigned)
           /\ DOMAIN generations[x] = Range(assigned)
           /\ \A c \in DOMAIN repeat[x] : generations[x][assigned[c]] = repeat[x][c]
    BY <2>1 DEF InventoryInv, SettledInv
  <2>3. repeat[x] \in Feeds[x]
    BY <2>1 DEF InventoryInv, InventoryTypeOK
  <2>4. repeat[x] \in Seq(Keys)
    BY <2>3, FeedIsSeq
  <2>5. /\ Settled(Pruned(identity[x]), repeat[x], assigned)
        /\ assigned \in [DOMAIN repeat[x] -> DOMAIN Pruned(identity[x])]
    BY <2>2, <2>4, PruneKeepsSettled
  <2> QED BY <2>1, <2>2, <2>5
<1> QED BY <1>2, <1>3

\* An id that is not used is of no source.
LEMMA UnusedIsNew ==
    ASSUME NEW s \in Sources
    PROVE  Unused \cap DOMAIN identity[s] = {}
BY DEF Unused, Ids

\* refresh_source(): what the assignment is, and what becomes of the rows
LEMMA RefreshAssigns ==
    ASSUME InventoryInv, NEW s \in Sources, NEW batch \in Feeds[s],
           Matching(identity[s], batch).conflicts = {},
           NEW entry \in Assignments(Matching(identity[s], batch), batch, Unused)
    PROVE  /\ entry \in [DOMAIN batch -> EntryIds] /\ IsInjective(entry)
           /\ \A x \in Sources \ {s} : \A c \in DOMAIN batch : entry[c] \notin DOMAIN identity[x]
           /\ Settled(Applied(identity[s], batch, entry), batch, entry)
           /\ \A c \in DOMAIN batch : batch[c].external # None =>
                 \A i \in DOMAIN identity[s] :
                     identity[s][i].external = batch[c].external => entry[c] = i
<1>1. batch \in Seq(Keys)
  BY FeedIsSeq
<1>2. /\ DOMAIN identity[s] \subseteq EntryIds
      /\ \A i \in DOMAIN identity[s] : identity[s][i] \in Rows
  BY DEF InventoryInv, InventoryTypeOK, Range
<1>3. \A x \in Sources : Unused \cap DOMAIN identity[x] = {}
  BY UnusedIsNew
<1>4. entry \in [DOMAIN batch -> EntryIds]
  BY Assigned
<1>5. IsInjective(entry)
  BY <1>3, AssignedOnce
<1>6. \A c \in DOMAIN batch : entry[c] \in DOMAIN identity[s] \/ entry[c] \in Unused
  BY AssignedRange
<1>7. \A x \in Sources \ {s} : DOMAIN identity[s] \cap DOMAIN identity[x] = {}
  BY DEF InventoryInv, OneSource
<1>8. Settled(Applied(identity[s], batch, entry), batch, entry)
  BY <1>1, <1>2, <1>3, AcceptedSettles
<1>9. \A c \in DOMAIN batch : batch[c].external # None =>
         \A i \in DOMAIN identity[s] :
             identity[s][i].external = batch[c].external => entry[c] = i
  BY <1>1, <1>2, AssignedByExternal
<1>10. \A x \in Sources \ {s} : \A c \in DOMAIN batch : entry[c] \notin DOMAIN identity[x]
  BY <1>3, <1>6, <1>7
<1> QED BY <1>4, <1>5, <1>8, <1>9, <1>10

\* refresh_source() keeps the invariant.
LEMMA RefreshSafe ==
    ASSUME InventoryInv, NEW s \in Sources, NEW batch \in Feeds[s], RefreshSource(s, batch)
    PROVE  InventoryInv'
<1>1. Matching(identity[s], batch).conflicts = {}
  BY DEF RefreshSource
<1>2. PICK entry \in Assignments(Matching(identity[s], batch), batch, Unused) :
         Accept(s, batch, entry, TRUE)
  BY DEF RefreshSource
<1>3. /\ entry \in [DOMAIN batch -> EntryIds] /\ IsInjective(entry)
      /\ \A x \in Sources \ {s} : \A c \in DOMAIN batch : entry[c] \notin DOMAIN identity[x]
      /\ Settled(Applied(identity[s], batch, entry), batch, entry)
  BY <1>1, RefreshAssigns
<1>4. InventoryTypeOK' /\ OneSource' /\ LiveRows' /\ CompiledInv'
  BY <1>2, <1>3, AcceptSafe DEF InventoryInv
<1>5. SettledInv'
  BY <1>2, <1>3, AcceptKeepsSettled
<1> QED BY <1>4, <1>5 DEF InventoryInv

\* reconcile_source() keeps the invariant.
LEMMA ReconcileSafe ==
    ASSUME InventoryInv, NEW s \in Sources, NEW batch \in Feeds[s],
           NEW entry \in [DOMAIN batch -> EntryIds], ReconcileSource(s, batch, entry)
    PROVE  InventoryInv'
<1>1. IsInjective(entry) /\ Accept(s, batch, entry, FALSE)
  BY DEF ReconcileSource, MappingAllowed
<1>2. \A x \in Sources \ {s} : \A c \in DOMAIN batch : entry[c] \notin DOMAIN identity[x]
  BY DEF ReconcileSource, MappingAllowed, Ids, Range
<1>3. InventoryTypeOK' /\ OneSource' /\ LiveRows' /\ CompiledInv'
  BY <1>1, <1>2, AcceptSafe DEF InventoryInv
<1>4. SettledInv'
  BY <1>1, AcceptKeepsSettled
<1> QED BY <1>3, <1>4 DEF InventoryInv

\* _apply_config() keeps the invariant.
LEMMA ApplyConfigSafe ==
    ASSUME InventoryInv, NEW cfg \in Configs, ApplyConfig(cfg)
    PROVE  InventoryInv'
<1>1. /\ config' = cfg /\ identity' = identity
      /\ generations' = [s \in Sources |-> IF s \in DOMAIN cfg.sources THEN generations[s] ELSE None]
      /\ repeat' = [s \in Sources |-> IF s \in DOMAIN cfg.sources THEN repeat[s] ELSE None]
      /\ compiled' = Compile(cfg, generations')
  BY DEF ApplyConfig
<1>2. /\ DOMAIN generations' = Sources /\ DOMAIN repeat' = Sources
      /\ \A s \in Sources :
            \/ generations'[s] = generations[s] /\ repeat'[s] = repeat[s]
            \/ generations'[s] = None /\ repeat'[s] = None
  BY <1>1
<1>3. InventoryTypeOK'
  BY <1>1, <1>2 DEF InventoryInv, InventoryTypeOK
<1>4. OneSource'
  BY <1>1 DEF InventoryInv, OneSource
<1>5. LiveRows'
  BY <1>1, <1>2 DEF InventoryInv, LiveRows
<1>6. CompiledInv'
  BY <1>1 DEF CompiledInv
<1>7. SettledInv'
  <2> SUFFICES ASSUME NEW s \in Sources, repeat'[s] # None
               PROVE  \E entry \in [DOMAIN repeat'[s] -> DOMAIN identity'[s]] :
                         /\ Settled(identity'[s], repeat'[s], entry)
                         /\ DOMAIN generations'[s] = Range(entry)
                         /\ \A c \in DOMAIN repeat'[s] : generations'[s][entry[c]] = repeat'[s][c]
    BY DEF SettledInv
  <2>1. generations'[s] = generations[s] /\ repeat'[s] = repeat[s] /\ identity'[s] = identity[s]
    BY <1>1, <1>2
  <2> QED BY <2>1 DEF InventoryInv, SettledInv
<1> QED BY <1>3, <1>4, <1>5, <1>6, <1>7 DEF InventoryInv

\* The invariant holds of a registry that was restored, before any source was accepted.
LEMMA InventoryInitSafe == InventoryInit => InventoryInv
<1> SUFFICES ASSUME InventoryInit PROVE InventoryInv
  OBVIOUS
<1>1. InventoryTypeOK
  BY RestoredAssumption, ConfigsAssumption DEF InventoryInit, InventoryTypeOK
<1>2. OneSource
  BY RestoredAssumption DEF InventoryInit, OneSource
<1>3. LiveRows /\ CompiledInv /\ SettledInv
  BY DEF InventoryInit, LiveRows, CompiledInv, SettledInv
<1> QED BY <1>1, <1>2, <1>3 DEF InventoryInv

\* Every step keeps the invariant.
LEMMA InventoryStepSafe == InventoryInv /\ [InventoryNext]_inventoryVars => InventoryInv'
<1> SUFFICES ASSUME InventoryInv, [InventoryNext]_inventoryVars PROVE InventoryInv'
  OBVIOUS
<1>1. ASSUME NEW s \in Sources, NEW batch \in Feeds[s], RefreshSource(s, batch)
      PROVE  InventoryInv'
  BY <1>1, RefreshSafe
<1>2. ASSUME NEW s \in Sources, NEW batch \in Feeds[s],
             NEW entry \in [DOMAIN batch -> EntryIds], ReconcileSource(s, batch, entry)
      PROVE  InventoryInv'
  BY <1>2, ReconcileSafe
<1>3. ASSUME NEW cfg \in Configs, ApplyConfig(cfg) PROVE InventoryInv'
  BY <1>3, ApplyConfigSafe
<1>4. CASE UNCHANGED inventoryVars
  BY <1>4 DEF inventoryVars, InventoryInv, InventoryTypeOK, OneSource, LiveRows, CompiledInv,
              SettledInv
<1> QED BY <1>1, <1>2, <1>3, <1>4 DEF InventoryNext

\* Whatever was restored, refreshed, mapped by hand and configured, in any order: the
\* invariant holds.
THEOREM InventoryInvAlways == InventorySpec => []InventoryInv
BY InventoryInitSafe, InventoryStepSafe, PTL DEF InventorySpec

\* What is accepted, restored and compiled always has its type.
THEOREM InventoryTypeCorrect == InventorySpec => []InventoryTypeOK
<1>1. InventoryInv => InventoryTypeOK
  BY DEF InventoryInv
<1> QED BY <1>1, InventoryInvAlways, PTL

-----------------------------------------------------------------------------
\* What identity.py says of a source that has not changed since it was accepted
LEMMA SettledRepeats == InventoryInv => RepeatAccepted
<1> SUFFICES ASSUME InventoryInv, NEW s \in Sources, NEW batch \in Feeds[s], batch = repeat[s]
             PROVE  /\ Matching(identity[s], batch).new = {}
                    /\ \A p \in Matching(identity[s], batch).pairs :
                          generations[s][p[2]] = batch[p[1]]
                    /\ Matching(identity[s], batch).conflicts = {} <=> Distinguishable(batch)
  BY DEF RepeatAccepted
<1>1. batch \in Seq(Keys) /\ batch # None
  BY FeedIsSeq
<1>2. PICK entry \in [DOMAIN batch -> DOMAIN identity[s]] :
         /\ Settled(identity[s], batch, entry)
         /\ \A c \in DOMAIN batch : generations[s][entry[c]] = batch[c]
  BY <1>1 DEF InventoryInv, SettledInv
<1>3. DOMAIN identity[s] \subseteq EntryIds
  BY DEF InventoryInv, InventoryTypeOK
<1>4. /\ Matching(identity[s], batch).new = {}
      /\ \A p \in Matching(identity[s], batch).pairs : p[1] \in DOMAIN batch /\ p[2] = entry[p[1]]
      /\ Matching(identity[s], batch).conflicts = {} <=> Distinguishable(batch)
  BY <1>1, <1>2, <1>3, Rematch
<1> QED BY <1>2, <1>4

\* A source that has not changed since it was accepted without a question keeps its
\* entries at the next refresh, and is a conflict exactly when entries without an id
\* of their own cannot be told apart.
THEOREM RepeatAcceptedAlways == InventorySpec => []RepeatAccepted
BY SettledRepeats, InventoryInvAlways, PTL

-----------------------------------------------------------------------------
\* A check is made for an entry of a source and for a target set that its rule gives.
LEMMA DefinitionsMeaning ==
    ASSUME NEW cfg, NEW gens, NEW d \in Definitions(cfg, gens)
    PROVE  /\ d.source \in DOMAIN cfg.sources /\ gens[d.source] # None
           /\ d.entry \in DOMAIN gens[d.source]
           /\ d.id[1] = d.entry /\ d.id[3] = d.set
BY DEF Definitions

\* Each of them is made.
LEMMA DefinitionMade ==
    ASSUME NEW cfg, NEW gens, NEW s \in DOMAIN cfg.sources, gens[s] # None,
           NEW i \in DOMAIN gens[s], gens[s][i].state # "unsupported",
           NEW t \in Resolve(cfg, s, i, gens[s][i]).sets \cap DOMAIN cfg.targetSets
    PROVE  \E d \in Definitions(cfg, gens) : d.entry = i /\ d.set = t
<1> DEFINE Rule(x, id) == Resolve(cfg, x, id, gens[x][id])
           Def(x, id, u) ==
               [id |-> <<id, Rule(x, id).mode, u, Rule(x, id).selection>>, entry |-> id,
                source |-> x, set |-> u, lifecycle |-> Rule(x, id).lifecycle,
                profile |-> <<id, Rule(x, id).mode, Rule(x, id).selection>>,
                enabled |-> /\ cfg.sources[x] /\ gens[x][id].state = "on"
                            /\ Rule(x, id).enabled /\ cfg.targetSets[u]]
           OfEntry(x, id) == {Def(x, id, u) : u \in Rule(x, id).sets \cap DOMAIN cfg.targetSets}
           Runnable(x) == {id \in DOMAIN gens[x] : gens[x][id].state # "unsupported"}
           Live == {x \in DOMAIN cfg.sources : gens[x] # None}
<1>1. Definitions(cfg, gens) = UNION {UNION {OfEntry(x, id) : id \in Runnable(x)} : x \in Live}
  BY DEF Definitions
<1>2. s \in Live /\ i \in Runnable(s) /\ Def(s, i, t) \in OfEntry(s, i)
  OBVIOUS
<1>3. Def(s, i, t).entry = i /\ Def(s, i, t).set = t
  OBVIOUS
<1> HIDE DEF Live, Runnable, OfEntry, Def, Rule
<1>4. Def(s, i, t) \in Definitions(cfg, gens)
  BY <1>1, <1>2
<1> QED BY <1>3, <1>4

\* What is compiled under an id is a check with that id.
LEMMA CompileMeaning ==
    ASSUME NEW cfg, NEW gens, NEW d \in Definitions(cfg, gens)
    PROVE  \E e \in Range(Compile(cfg, gens)) : e \in Definitions(cfg, gens) /\ e.id = d.id
<1> DEFINE all == Definitions(cfg, gens)
           e == CHOOSE x \in all : x.id = d.id
<1>1. e \in all /\ e.id = d.id
  OBVIOUS
<1>2. d.id \in DOMAIN Compile(cfg, gens) /\ Compile(cfg, gens)[d.id] = e
  BY DEF Compile
<1>3. e \in Range(Compile(cfg, gens))
  BY <1>2 DEF Range
<1> QED BY <1>1, <1>3

\* No two sources have an entry in common, so that no two checks have an id in common.
LEMMA NoneLost == InventoryInv => NoCheckLost
<1> SUFFICES ASSUME InventoryInv, NEW s \in DOMAIN config.sources, generations[s] # None,
                    NEW i \in DOMAIN generations[s], generations[s][i].state # "unsupported",
                    NEW t \in Resolve(config, s, i, generations[s][i]).sets
                                  \cap DOMAIN config.targetSets
             PROVE  \E d \in Range(compiled) : d.source = s /\ d.entry = i /\ d.set = t
  BY DEF NoCheckLost
<1>1. DOMAIN config.sources \subseteq Sources
  BY ConfigsAssumption DEF InventoryInv, InventoryTypeOK
<1>2. PICK d \in Definitions(config, generations) : d.entry = i /\ d.set = t
  BY DefinitionMade
<1>3. PICK e \in Range(compiled) : e \in Definitions(config, generations) /\ e.id = d.id
  BY CompileMeaning DEF InventoryInv, CompiledInv
<1>4. d.id[1] = i /\ d.id[3] = t
  BY <1>2, DefinitionsMeaning
<1>5. /\ e.source \in DOMAIN config.sources /\ generations[e.source] # None
      /\ e.entry \in DOMAIN generations[e.source] /\ e.id[1] = e.entry /\ e.id[3] = e.set
  BY <1>3, DefinitionsMeaning
<1>6. e.entry = i /\ e.set = t
  BY <1>3, <1>4, <1>5
<1>7. i \in DOMAIN identity[s] /\ i \in DOMAIN identity[e.source]
  BY <1>1, <1>5, <1>6 DEF InventoryInv, LiveRows
<1>8. e.source = s
  BY <1>1, <1>5, <1>7 DEF InventoryInv, OneSource
<1> QED BY <1>3, <1>6, <1>8

\* Every target set that a rule gives to an entry is checked, whatever was restored,
\* refreshed, mapped by hand and configured.
THEOREM NoCheckLostAlways == InventorySpec => []NoCheckLost
BY NoneLost, InventoryInvAlways, PTL

-----------------------------------------------------------------------------
\* The entries of an id that a source provides before and after a step
KeptFor(s) ==
    repeat'[s] # None /\ generations[s] # None /\ generations'[s] # None =>
    \A i \in DOMAIN generations[s] : \A j \in DOMAIN generations'[s] :
        generations[s][i].external # None /\ generations'[s][j].external = generations[s][i].external
            => i = j

\* A source whose entries stay has no two of them with one id.
LEMMA KeptWhenUnchanged ==
    ASSUME InventoryInv, NEW s \in Sources, generations'[s] = generations[s],
           repeat'[s] = repeat[s]
    PROVE  KeptFor(s)
<1> SUFFICES ASSUME repeat[s] # None,
                    NEW i \in DOMAIN generations[s], NEW j \in DOMAIN generations[s],
                    generations[s][i].external # None,
                    generations[s][j].external = generations[s][i].external
             PROVE  i = j
  BY DEF KeptFor
<1> DEFINE batch == repeat[s]
<1>1. PICK entry \in [DOMAIN batch -> DOMAIN identity[s]] :
         /\ Settled(identity[s], batch, entry)
         /\ DOMAIN generations[s] = Range(entry)
         /\ \A c \in DOMAIN batch : generations[s][entry[c]] = batch[c]
  BY DEF InventoryInv, SettledInv
<1> HIDE DEF batch
<1>2. PICK c \in DOMAIN batch : entry[c] = i
  BY <1>1 DEF Range
<1>3. PICK d \in DOMAIN batch : entry[d] = j
  BY <1>1 DEF Range
<1>4. batch[c].external # None /\ batch[d].external = batch[c].external
  BY <1>1, <1>2, <1>3
<1>5. d = c
  BY <1>1, <1>4 DEF Settled, ExternalClear
<1> QED BY <1>2, <1>3, <1>5

\* An acceptance, automatic or not, gives a source its entries and others theirs.
LEMMA AcceptedEntries ==
    ASSUME InventoryInv, NEW s \in Sources, NEW batch,
           NEW entry \in [DOMAIN batch -> EntryIds], IsInjective(entry), NEW auto \in BOOLEAN,
           Accept(s, batch, entry, auto)
    PROVE  /\ DOMAIN generations'[s] = Range(entry)
           /\ \A c \in DOMAIN batch : generations'[s][entry[c]] = batch[c]
           /\ \A x \in Sources \ {s} :
                 generations'[x] = generations[x] /\ repeat'[x] = repeat[x]
BY AcceptMeaning DEF InventoryInv

\* A refresh gives an id that the source provides to the entry that has it.
LEMMA KeptByRefresh ==
    ASSUME InventoryInv, NEW s \in Sources, NEW batch \in Feeds[s], RefreshSource(s, batch)
    PROVE  KeptFor(s) /\ \A x \in Sources \ {s} :
                            generations'[x] = generations[x] /\ repeat'[x] = repeat[x]
<1>1. Matching(identity[s], batch).conflicts = {}
  BY DEF RefreshSource
<1>2. PICK entry \in Assignments(Matching(identity[s], batch), batch, Unused) :
         Accept(s, batch, entry, TRUE)
  BY DEF RefreshSource
<1>3. /\ entry \in [DOMAIN batch -> EntryIds] /\ IsInjective(entry)
      /\ \A c \in DOMAIN batch : batch[c].external # None =>
            \A i \in DOMAIN identity[s] :
                identity[s][i].external = batch[c].external => entry[c] = i
  BY <1>1, RefreshAssigns
<1>4. /\ DOMAIN generations'[s] = Range(entry)
      /\ \A c \in DOMAIN batch : generations'[s][entry[c]] = batch[c]
      /\ \A x \in Sources \ {s} : generations'[x] = generations[x] /\ repeat'[x] = repeat[x]
  BY <1>2, <1>3, AcceptedEntries
<1>5. KeptFor(s)
  <2> SUFFICES ASSUME generations[s] # None,
                      NEW i \in DOMAIN generations[s], NEW j \in DOMAIN generations'[s],
                      generations[s][i].external # None,
                      generations'[s][j].external = generations[s][i].external
               PROVE  i = j
    BY DEF KeptFor
  <2>1. PICK c \in DOMAIN batch : entry[c] = j
    BY <1>3, <1>4 DEF Range
  <2>2. batch[c].external = generations[s][i].external
    BY <1>4, <2>1
  <2>3. i \in DOMAIN identity[s] /\ identity[s][i] = Binding(generations[s][i])
    BY DEF InventoryInv, LiveRows
  <2>4. identity[s][i].external = generations[s][i].external
    BY <2>3 DEF Binding
  <2> QED BY <1>3, <2>1, <2>2, <2>3, <2>4
<1> QED BY <1>4, <1>5

\* What a source says of its entries by hand is not a refresh, and leaves others alone.
LEMMA KeptByReconcile ==
    ASSUME InventoryInv, NEW s \in Sources, NEW batch \in Feeds[s],
           NEW entry \in [DOMAIN batch -> EntryIds], ReconcileSource(s, batch, entry)
    PROVE  KeptFor(s) /\ \A x \in Sources \ {s} :
                            generations'[x] = generations[x] /\ repeat'[x] = repeat[x]
<1>1. IsInjective(entry) /\ Accept(s, batch, entry, FALSE)
  BY DEF ReconcileSource, MappingAllowed
<1>2. /\ repeat'[s] = None
      /\ \A x \in Sources \ {s} : generations'[x] = generations[x] /\ repeat'[x] = repeat[x]
  BY <1>1, AcceptMeaning DEF InventoryInv
<1> QED BY <1>2 DEF KeptFor

\* A configuration drops the entries of a source or leaves them.
LEMMA KeptByConfig ==
    ASSUME InventoryInv, NEW cfg \in Configs, ApplyConfig(cfg), NEW s \in Sources
    PROVE  KeptFor(s)
<1>1. CASE s \in DOMAIN cfg.sources
  <2>1. generations'[s] = generations[s] /\ repeat'[s] = repeat[s]
    BY <1>1 DEF ApplyConfig
  <2> QED BY <2>1, KeptWhenUnchanged
<1>2. CASE s \notin DOMAIN cfg.sources
  <2>1. repeat'[s] = None
    BY <1>2 DEF ApplyConfig
  <2> QED BY <2>1 DEF KeptFor
<1> QED BY <1>1, <1>2

\* Every step keeps the entries of such ids, for every source.
LEMMA KeptByStep ==
    ASSUME InventoryInv, [InventoryNext]_inventoryVars, NEW s \in Sources
    PROVE  KeptFor(s)
<1>1. ASSUME NEW x \in Sources, NEW batch \in Feeds[x],
             \/ RefreshSource(x, batch)
             \/ \E entry \in [DOMAIN batch -> EntryIds] : ReconcileSource(x, batch, entry)
      PROVE  KeptFor(s)
  <2>1. KeptFor(x) /\ \A y \in Sources \ {x} :
                         generations'[y] = generations[y] /\ repeat'[y] = repeat[y]
    BY <1>1, KeptByRefresh, KeptByReconcile
  <2>2. CASE s = x
    BY <2>1, <2>2
  <2>3. CASE s # x
    BY <2>1, <2>3, KeptWhenUnchanged
  <2> QED BY <2>2, <2>3
<1>2. ASSUME NEW cfg \in Configs, ApplyConfig(cfg) PROVE KeptFor(s)
  BY <1>2, KeptByConfig
<1>3. CASE UNCHANGED inventoryVars
  <2>1. generations'[s] = generations[s] /\ repeat'[s] = repeat[s]
    BY <1>3 DEF inventoryVars
  <2> QED BY <2>1, KeptWhenUnchanged
<1> QED BY <1>1, <1>2, <1>3 DEF InventoryNext

\* A refresh never gives the entry of an id that the source provides to anything else
\* while that id is still there, nor two entries the same id.
THEOREM ExternalIdKeptAlways == InventorySpec => ExternalIdKept
<1> DEFINE Kept1 == \A s \in Sources : KeptFor(s)
<1>1. InventoryInv /\ [InventoryNext]_inventoryVars => Kept1
  BY KeptByStep
<1>2. ExternalIdKept <=> [][Kept1]_inventoryVars
  BY DEF ExternalIdKept, KeptFor
<1> HIDE DEF Kept1
<1> QED BY <1>1, <1>2, InventoryInvAlways, PTL DEF InventorySpec

-----------------------------------------------------------------------------
(***************************************************************************)
(* Results                                                                 *)
(***************************************************************************)
\* A task that saves holds a result of this process.
OwnTask(t) == t.pc = "save" => t.result.boot = boot

(***************************************************************************)
(* FreshIsOurs is not inductive: what a failing save puts in the place of  *)
(* a result is the one its task holds, and a result that is hidden now,    *)
(* because it is of another generation, may be current again after a       *)
(* refresh.  So all results that were not loaded are ours, shown or not.   *)
(***************************************************************************)
OwnInv ==
    /\ \A c \in Checks : results[c] # NoResult /\ c \notin loaded => results[c].boot = boot
    /\ \A c \in Checks : OwnTask(runs[c]) /\ OwnTask(report[c])

-----------------------------------------------------------------------------
\* A result that Made() makes, in execute() or _scheduler_error(), is one.
LEMMA MadeIsResult ==
    ASSUME NEW g \in Gens, NEW r \in Revs, NEW k \in {"verdict", "error"}, boot \in 1..MaxBoots
    PROVE  Made(g, r, k) \in Result
BY DEF Made, Result

\* A task that saves a result is a task, and holds that result.
LEMMA SavingIsTask ==
    ASSUME NEW r \in Result
    PROVE  Saving(r) \in Task /\ Saving(r).pc = "save" /\ Saving(r).result = r
BY DEF Saving, Task

\* What a task that runs or saves remembers
LEMMA TaskHolds ==
    ASSUME NEW t \in Task
    PROVE  /\ t.pc = "save" => t.result \in Result
           /\ t.pc = "run" => t.gen \in Gens /\ t.rev \in Revs
BY DEF Task, Idle

\* The error that execute() stores when its save has failed is a result of this process.
LEMMA ErrorIsResult ==
    ASSUME NEW r \in Result
    PROVE  /\ [r EXCEPT !.kind = "error"] \in Result
           /\ [r EXCEPT !.kind = "error"].kind = "error"
           /\ [r EXCEPT !.kind = "error"].boot = r.boot
BY DEF Result

\* The values of all variables of the module stay in their sets, for every set of
\* checks, generations and revisions: execute(), refresh, reload and restart.
THEOREM TypeCorrect == Spec => []TypeOK
<1>1. Init => TypeOK
  BY BootsAssumption DEF Init, TypeOK, Inventories, Nothing, Task
<1>2. TypeOK /\ [Next]_vars => TypeOK'
  <2> SUFFICES ASSUME TypeOK, [Next]_vars PROVE TypeOK'
    OBVIOUS
  <2>i. Idle \in Task /\ Nothing \in Inventories
    BY DEF Task, Nothing, Inventories
  <2> USE DEF TypeOK
  <2>1. ASSUME NEW c \in Checks, Execute(c) PROVE TypeOK'
    <3>1. inventory[c] \in Gens
      BY <2>1, AbsentAssumption DEF Execute, Inventories
    <3>2. [pc |-> "run", gen |-> inventory[c], rev |-> revision] \in Task
      BY <3>1 DEF Task
    <3> QED BY <2>1, <3>2 DEF Execute, memory, mutator
  <2>2. ASSUME NEW c \in Checks, NEW k \in {"verdict", "error"}, Complete(c, k) PROVE TypeOK'
    <3> DEFINE r == Made(runs[c].gen, runs[c].rev, k)
    <3>1. r \in Result
      BY <2>2, TaskHolds, MadeIsResult DEF Complete
    <3>2. Saving(r) \in Task
      BY <3>1, SavingIsTask
    <3>3. \/ Publish(c, r) /\ runs' = [runs EXCEPT ![c] = Saving(r)]
          \/ runs' = [runs EXCEPT ![c] = Idle] /\ UNCHANGED <<results, loaded>>
      BY <2>2 DEF Complete
    <3>4. UNCHANGED <<inventory, revision, jobs, files, report, mutator>>
      BY <2>2 DEF Complete
    <3> HIDE DEF r
    <3> QED BY <2>i, <3>1, <3>2, <3>3, <3>4 DEF Publish, mutator
  <2>3. ASSUME NEW c \in Checks, Saved(c) PROVE TypeOK'
    BY <2>3, <2>i, TaskHolds DEF Saved, Write, memory, mutator
  <2>4. ASSUME NEW c \in Checks, SaveFailed(c) PROVE TypeOK'
    <3>1. runs[c].result \in Result
      BY <2>4, TaskHolds DEF SaveFailed
    <3> QED BY <2>4, <2>i, <3>1, ErrorIsResult DEF SaveFailed, Write, mutator
  <2>5. ASSUME NEW c \in Checks, SchedulerError(c) PROVE TypeOK'
    <3> DEFINE r == Made(jobs[c], revision, "error")
    <3>1. r \in Result
      BY <2>5, MadeIsResult, AbsentAssumption DEF SchedulerError, Inventories
    <3>2. Saving(r) \in Task
      BY <3>1, SavingIsTask
    <3>3. /\ Publish(c, r) /\ report' = [report EXCEPT ![c] = Saving(r)]
          /\ UNCHANGED <<inventory, revision, jobs, files, runs, mutator>>
      BY <2>5 DEF SchedulerError
    <3> HIDE DEF r
    <3> QED BY <3>1, <3>2, <3>3 DEF Publish, mutator
  <2>6. ASSUME NEW c \in Checks, ReportSaved(c) PROVE TypeOK'
    BY <2>6, <2>i, TaskHolds DEF ReportSaved, Write, memory, mutator
  <2>7. ASSUME Refresh PROVE TypeOK'
    BY <2>7 DEF Refresh
  <2>8. ASSUME DropObsolete PROVE TypeOK'
    BY <2>8 DEF DropObsolete, Drop
  <2>9. ASSUME PruneResults PROVE TypeOK'
    BY <2>9 DEF PruneResults, Prune, memory
  <2>10. ASSUME UpdateScheduler PROVE TypeOK'
    BY <2>10 DEF UpdateScheduler
  <2>11. ASSUME Reload PROVE TypeOK'
    BY <2>11, <2>i DEF Reload, memory
  <2>12. ASSUME Activate PROVE TypeOK'
    BY <2>12, <2>i DEF Activate, Drop
  <2>13. ASSUME Activated PROVE TypeOK'
    BY <2>13 DEF Activated, Prune
  <2>14. ASSUME Crash PROVE TypeOK'
    BY <2>14, <2>i, BootsAssumption DEF Crash
  <2>15. ASSUME Start PROVE TypeOK'
    BY <2>15 DEF Start
  <2>16. ASSUME UNCHANGED vars PROVE TypeOK'
    BY <2>16 DEF vars
  <2> QED BY <2>1, <2>2, <2>3, <2>4, <2>5, <2>6, <2>7, <2>8, <2>9, <2>10, <2>11, <2>12, <2>13,
             <2>14, <2>15, <2>16 DEF Next
<1> QED BY <1>1, <1>2, PTL DEF Spec

-----------------------------------------------------------------------------
\* Every step of the service keeps OwnInv.
LEMMA OwnStep == ASSUME TypeOK, OwnInv, [Next]_vars PROVE OwnInv'
<1> USE DEF OwnInv, OwnTask
<1>i. Idle.pc = "idle"
  BY DEF Idle
<1>1. ASSUME NEW c \in Checks, Execute(c) PROVE OwnInv'
  BY <1>1 DEF Execute, memory, mutator, TypeOK
<1>2. ASSUME NEW c \in Checks, NEW k \in {"verdict", "error"}, Complete(c, k) PROVE OwnInv'
  <2> DEFINE r == Made(runs[c].gen, runs[c].rev, k)
  <2>1. r \in Result /\ r.boot = boot
    BY <1>2, TaskHolds, MadeIsResult DEF Complete, TypeOK, Made
  <2>2. Saving(r).result = r
    BY <2>1, SavingIsTask
  <2>3. \/ Publish(c, r) /\ runs' = [runs EXCEPT ![c] = Saving(r)]
        \/ runs' = [runs EXCEPT ![c] = Idle] /\ UNCHANGED <<results, loaded>>
    BY <1>2 DEF Complete
  <2>4. UNCHANGED <<report, boot>>
    BY <1>2 DEF Complete, mutator
  <2> HIDE DEF r
  <2> QED BY <1>i, <2>1, <2>2, <2>3, <2>4 DEF Publish, TypeOK
<1>3. ASSUME NEW c \in Checks, Saved(c) PROVE OwnInv'
  BY <1>3, <1>i DEF Saved, memory, mutator, TypeOK
<1>4. ASSUME NEW c \in Checks, SaveFailed(c) PROVE OwnInv'
  <2> DEFINE r == [runs[c].result EXCEPT !.kind = "error"]
  <2>1. r.boot = boot
    BY <1>4, TaskHolds, ErrorIsResult DEF SaveFailed, TypeOK
  <2>2. /\ results' = [results EXCEPT ![c] = r] /\ runs' = [runs EXCEPT ![c] = Idle]
        /\ UNCHANGED <<loaded, report, boot>>
    BY <1>4 DEF SaveFailed, mutator
  <2> HIDE DEF r
  <2> QED BY <1>i, <2>1, <2>2 DEF TypeOK
<1>5. ASSUME NEW c \in Checks, SchedulerError(c) PROVE OwnInv'
  <2> DEFINE r == Made(jobs[c], revision, "error")
  <2>1. r \in Result /\ r.boot = boot
    BY <1>5, MadeIsResult, AbsentAssumption DEF SchedulerError, Inventories, TypeOK, Made
  <2>2. Saving(r).result = r
    BY <2>1, SavingIsTask
  <2>3. /\ Publish(c, r) /\ report' = [report EXCEPT ![c] = Saving(r)]
        /\ UNCHANGED <<runs, boot>>
    BY <1>5 DEF SchedulerError, mutator
  <2> HIDE DEF r
  <2> QED BY <2>1, <2>2, <2>3 DEF Publish, TypeOK
<1>6. ASSUME NEW c \in Checks, ReportSaved(c) PROVE OwnInv'
  BY <1>6, <1>i DEF ReportSaved, memory, mutator, TypeOK
<1>7. ASSUME Refresh \/ PruneResults \/ UpdateScheduler \/ Activated PROVE OwnInv'
  BY <1>7 DEF Refresh, PruneResults, UpdateScheduler, Activated, memory
<1>8. ASSUME DropObsolete PROVE OwnInv'
  BY <1>8 DEF DropObsolete, Drop
<1>9. ASSUME Reload PROVE OwnInv'
  BY <1>9, <1>i DEF Reload, memory
<1>10. ASSUME Activate PROVE OwnInv'
  BY <1>10 DEF Activate, Drop
<1>11. ASSUME Crash PROVE OwnInv'
  BY <1>11, <1>i DEF Crash
<1>12. ASSUME Start PROVE OwnInv'
  BY <1>12 DEF Start
<1>13. ASSUME UNCHANGED vars PROVE OwnInv'
  BY <1>13 DEF vars
<1> QED BY <1>1, <1>2, <1>3, <1>4, <1>5, <1>6, <1>7, <1>8, <1>9, <1>10, <1>11, <1>12, <1>13
        DEF Next

\* What _check_public() shows as a fresh verdict or error was measured by this
\* process: loaded results are never passed off as new ones, through any number of
\* refreshes, reloads, failed saves and restarts.
THEOREM FreshIsOursCorrect == Spec => []FreshIsOurs
<1>1. Init => OwnInv
  BY DEF Init, OwnInv, OwnTask, Idle
<1>2. OwnInv => FreshIsOurs
  BY DEF OwnInv, FreshIsOurs, Shown
<1> QED BY <1>1, <1>2, OwnStep, TypeCorrect, PTL DEF Spec

-----------------------------------------------------------------------------
\* Once obsolete results are dropped, no verdict of another generation or revision
\* is in memory: a run that a refresh or a reload has overtaken does not bring one
\* back, because execute() compares both before it publishes.
THEOREM MemoryIsCurrentCorrect == Spec => []MemoryIsCurrent
<1>1. Init => MemoryIsCurrent
  BY DEF Init, MemoryIsCurrent
<1>2. TypeOK /\ MemoryIsCurrent /\ [Next]_vars => MemoryIsCurrent'
  <2> SUFFICES ASSUME TypeOK, MemoryIsCurrent, [Next]_vars PROVE MemoryIsCurrent'
    OBVIOUS
  <2> USE DEF MemoryIsCurrent
  <2>1. ASSUME NEW c \in Checks, Execute(c) \/ Saved(c) \/ ReportSaved(c) PROVE MemoryIsCurrent'
    BY <2>1 DEF Execute, Saved, ReportSaved, memory, mutator, Current
  <2>2. ASSUME NEW c \in Checks, NEW k \in {"verdict", "error"}, Complete(c, k)
        PROVE  MemoryIsCurrent'
    <3> DEFINE r == Made(runs[c].gen, runs[c].rev, k)
    <3>1. \/ Current(c, r) /\ results' = [results EXCEPT ![c] = r]
          \/ UNCHANGED results
      BY <2>2 DEF Complete, Publish
    <3>2. UNCHANGED <<inventory, revision, change>>
      BY <2>2 DEF Complete, mutator
    <3> HIDE DEF r
    <3> QED BY <3>1, <3>2 DEF Current, TypeOK
  <2>3. ASSUME NEW c \in Checks, SaveFailed(c) PROVE MemoryIsCurrent'
    <3> DEFINE r == [runs[c].result EXCEPT !.kind = "error"]
    <3>1. r.kind = "error"
      BY <2>3, TaskHolds, ErrorIsResult DEF SaveFailed, TypeOK
    <3>2. results' = [results EXCEPT ![c] = r] /\ UNCHANGED <<inventory, revision, change>>
      BY <2>3 DEF SaveFailed, mutator
    <3> HIDE DEF r
    <3> QED BY <3>1, <3>2 DEF Current, TypeOK
  <2>4. ASSUME NEW c \in Checks, SchedulerError(c) PROVE MemoryIsCurrent'
    <3> DEFINE r == Made(jobs[c], revision, "error")
    <3>1. r.kind = "error"
      BY DEF Made
    <3>2. results' = [results EXCEPT ![c] = r] /\ UNCHANGED <<inventory, revision, change>>
      BY <2>4 DEF SchedulerError, Publish, mutator
    <3> HIDE DEF r
    <3> QED BY <3>1, <3>2 DEF Current, TypeOK
  <2>5. ASSUME Refresh \/ Reload \/ Crash \/ Start PROVE MemoryIsCurrent'
    BY <2>5 DEF Refresh, Reload, Crash, Start
  <2>6. ASSUME DropObsolete PROVE MemoryIsCurrent'
    BY <2>6 DEF DropObsolete, Drop, Kept, Current
  <2>7. ASSUME PruneResults \/ UpdateScheduler \/ Activated PROVE MemoryIsCurrent'
    BY <2>7 DEF PruneResults, UpdateScheduler, Activated, Prune, memory, Current
  <2>8. ASSUME Activate PROVE MemoryIsCurrent'
    BY <2>8 DEF Activate, Drop, Kept, Current
  <2>9. ASSUME UNCHANGED vars PROVE MemoryIsCurrent'
    BY <2>9 DEF vars, Current
  <2> QED BY <2>1, <2>2, <2>3, <2>4, <2>5, <2>6, <2>7, <2>8, <2>9 DEF Next
<1> QED BY <1>1, <1>2, TypeCorrect, PTL DEF Spec
=============================================================================
