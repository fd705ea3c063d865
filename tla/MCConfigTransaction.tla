------------------------ MODULE MCConfigTransaction ------------------------
(* Instances of ConfigTransaction for TLC: an edit of one configuration    *)
(* into the next adds a secret, drops one, or keeps one.                   *)
EXTENDS ConfigTransaction, TLC

CONSTANTS c1, c2, c3, s1, s2

MCRefs == (c1 :> {s1}) @@ (c2 :> {s1, s2}) @@ (c3 :> {s2})
=============================================================================
