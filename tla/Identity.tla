------------------------------ MODULE Identity ------------------------------
(***************************************************************************)
(* The conservative reconciliation of identity.py: which known entry each  *)
(* candidate of a source is.  The rows that the registry keeps for one     *)
(* source are a function from entry ids to keys; a batch is a function     *)
(* from candidate ids to keys.                                             *)
(*                                                                         *)
(* The loops over groups of equal keys are quantifiers here: two groups of *)
(* one stage share neither candidates nor rows, so that the order in which *)
(* they are visited is of no consequence.                                  *)
(***************************************************************************)
EXTENDS Naturals, FiniteSets, FiniteSetsExt, Functions

CONSTANTS
    ExternalIds,   \* ids that a source provides
    Names,         \* normalized names
    Fingerprints,  \* digests of non-secret semantics
    EntryIds,      \* opaque ids of entries
    None

ASSUME NoneAssumption == None \notin Names
ASSUME EntryIdsAssumption == IsFiniteSet(EntryIds)

\* A key that is absent matches nothing; a candidate always has a name.  Its state,
\* whether it is enabled and can be run at all, is no key.
Keys == [external : ExternalIds \cup {None}, name : Names,
         fingerprint : Fingerprints \cup {None}, state : {"on", "off", "unsupported"}]
Rows == [external : ExternalIds \cup {None}, name : Names \cup {None},
         fingerprint : Fingerprints \cup {None}, active : BOOLEAN]

-----------------------------------------------------------------------------
Sharing(keyed, among, field, v) == {x \in among : keyed[x][field] = v}

\* The candidates and rows, of those still open, that a value of this field pairs
\* one to one
Pairs(rows, batch, open, free, field) ==
    {p \in open \X free :
        LET v == batch[p[1]][field]
        IN /\ v # None
           /\ Sharing(batch, open, field, v) = {p[1]}
           /\ Sharing(rows, free, field, v) = {p[2]}}

\* Mutant: the id that the source provides is not looked at.
NoExternal(rows, batch) == [pairs |-> {}, blocked |-> {}]

\* An id provided by the source decides, and is a conflict when it is not unique.
ByExternal(rows, batch) ==
    LET cands == DOMAIN batch
        pairs == Pairs(rows, batch, cands, DOMAIN rows, "external")
    IN [pairs |-> pairs,
        blocked |-> {c \in cands :
            LET v == batch[c].external
            IN /\ v # None
               /\ \/ Cardinality(Sharing(batch, cands, "external", v)) > 1
                  \/ Cardinality(Sharing(rows, DOMAIN rows, "external", v)) > 1}]

Paired(pairs) == {p[1] : p \in pairs}

\* Mutant: a row that has been taken is available again.
UsedForgotten(pairs) == {}

Used(pairs) == {p[2] : p \in pairs}

\* New candidates that cannot be told from one another
Twins(batch, fresh) ==
    {c \in fresh : \E d \in fresh \ {c} :
        batch[c].name = batch[d].name /\ batch[c].fingerprint = batch[d].fingerprint}

\* Then a name, or else a fingerprint, that is unique among what is left.  What
\* shares its fingerprint or its name with a row that is still free, and what is
\* new twice, must be reconciled by hand.
Matching(rows, batch) ==
    LET one == ByExternal(rows, batch)
        open1 == DOMAIN batch \ (Paired(one.pairs) \cup one.blocked)
        names == Pairs(rows, batch, open1, DOMAIN rows \ Used(one.pairs), "name")
        two == one.pairs \cup names
        open2 == open1 \ Paired(names)
        free2 == DOMAIN rows \ Used(two)
        prints == Pairs(rows, batch, open2, free2, "fingerprint")
        three == two \cup prints
        open3 == open2 \ Paired(prints)
        alike == {c \in open3 :
            /\ batch[c].fingerprint # None
            /\ Sharing(rows, free2, "fingerprint", batch[c].fingerprint) # {}}
        changed == {c \in open3 \ alike :
            Sharing(rows, DOMAIN rows \ Used(three), "name", batch[c].name) # {}}
        fresh == open3 \ (alike \cup changed)
        twins == Twins(batch, fresh)
    IN [pairs |-> three, new |-> fresh \ twins,
        conflicts |-> one.blocked \cup alike \cup changed \cup twins]

\* The entries that the candidates may get when there is no conflict: ids of new
\* ones are random, and new to all sources.
Assignments(matching, batch, unused) ==
    {entry \in [DOMAIN batch -> EntryIds] :
        /\ \A p \in matching.pairs : entry[p[1]] = p[2]
        /\ \A c \in matching.new : entry[c] \in unused
        /\ \A c, d \in matching.new : entry[c] = entry[d] => c = d}

\* Entries without an id of their own that share their names can be told apart by
\* their fingerprints.
Distinguishable(batch) ==
    LET anonymous == {c \in DOMAIN batch : batch[c].external = None}
        namesakes == {c \in anonymous : \E d \in anonymous \ {c} : batch[d].name = batch[c].name}
    IN \A c \in namesakes :
          /\ batch[c].fingerprint # None
          /\ \A d \in namesakes : batch[d].fingerprint = batch[c].fingerprint => d = c

-----------------------------------------------------------------------------

\* The row of a candidate that is accepted
Binding(key) == [external |-> key.external, name |-> key.name,
                 fingerprint |-> key.fingerprint, active |-> TRUE]

\* The rows after an assignment was accepted: the rows of other entries stay, and
\* are not active.
Applied(rows, batch, entry) ==
    LET who(i) == CHOOSE c \in DOMAIN batch : entry[c] = i
    IN [i \in DOMAIN rows \cup Range(entry) |->
           IF i \in Range(entry) THEN Binding(batch[who(i)])
           ELSE [rows[i] EXCEPT !.active = FALSE]]

\* prune_unmatchable_inactive()
Matchable(row) ==
    row.active \/ row.external # None \/ row.name # None \/ row.fingerprint # None
Pruned(rows) == Restrict(rows, {i \in DOMAIN rows : Matchable(rows[i])})

\* Mutant: ids of other sources are not excluded.
MappingAllowedAnywhere(batch, entry, elsewhere) == IsInjective(entry)

\* What apply_manual_mapping() accepts: each candidate once, each id once, no id
\* of another source
MappingAllowed(batch, entry, elsewhere) ==
    IsInjective(entry) /\ Range(entry) \cap elsewhere = {}
=============================================================================
