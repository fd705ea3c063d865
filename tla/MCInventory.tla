----------------------------- MODULE MCInventory -----------------------------
(* Instances of Inventory for TLC.                                         *)
EXTENDS Inventory, TLC

CONSTANTS s1, s2, e, n, m, f, g, h, t1, t2, i1, i2, i3, i4

Key(x, name, fp, state) == [external |-> x, name |-> name, fingerprint |-> fp, state |-> state]
Offers == <<Key(None, n, f, "on"), Key(None, n, g, "on"), Key(e, m, g, "off")>>
Alone == {Key(None, m, f, "on"), Key(e, n, f, "unsupported")}

\* All are new once, and then two have the same fingerprint, and names that are not
\* unique.
Tangle == <<Key(None, n, f, "on"), Key(None, m, f, "on"), Key(None, n, g, "on"), Key(None, m, h, "on")>>

\* Up to two candidates, whose order is of no consequence, or four; the second
\* source is always the same.
MCFeeds ==
    s1 :> {<<>>, Tangle} \cup {<<k>> : k \in Alone \cup Range(Offers)}
          \cup {<<Offers[p[1]], Offers[p[2]]>> : p \in {q \in (1..3) \X (1..3) : q[1] < q[2] \/ q \in {<<1, 1>>, <<3, 3>>}}}
    @@ s2 :> {<<Key(None, n, f, "on")>>}

\* A registry that is empty, or that was exported by another installation, without
\* names: its second row has no key left.
Row(fp) == [external |-> None, name |-> None, fingerprint |-> fp, active |-> TRUE]
MCRestored == {s1 :> <<>> @@ s2 :> <<>>, s1 :> (i1 :> Row(f) @@ i2 :> Row(None)) @@ s2 :> <<>>}

MCRule(entries, names, sets, selection, lifecycle) ==
    [entries |-> entries, source |-> None, names |-> names, sets |-> sets, enabled |-> TRUE,
     mode |-> "connection", selection |-> selection, lifecycle |-> lifecycle]
MCBoth ==
    [sources |-> s1 :> TRUE @@ s2 :> TRUE, sets |-> s1 :> {} @@ s2 :> {t1}, defaults |-> {t1, t2},
     targetSets |-> t1 :> TRUE @@ t2 :> FALSE, limit |-> 2,
     rules |-> <<MCRule({}, {m}, {t1}, None, "persistent"), MCRule({i1}, {}, {t2}, "r", "fresh")>>]
MCTight ==
    [MCBoth EXCEPT !.limit = 1, !.targetSets = t1 :> TRUE @@ t2 :> TRUE]
MCOne == [MCBoth EXCEPT !.sources = s2 :> TRUE]
MCSymmetry == Permutations({i3, i4})
MCConfigs == {MCBoth, MCTight, MCOne}
=============================================================================
