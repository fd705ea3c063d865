------------------------------ MODULE MCChecker ------------------------------
(* Instances of Checker for TLC.                                           *)
EXTENDS Checker, TLC

CONSTANTS a, b, ra, ta, ea, pb

\* The first check has a matcher, a throughput target and an egress assertion, the
\* second competes for the same permits.
MCOf == ra :> a @@ ta :> a @@ ea :> a @@ pb :> b
MCKind == ra :> "regex" @@ ta :> "throughput" @@ ea :> "egress" @@ pb :> "plain"
MCQuorum == a :> 1 @@ b :> 1
MCOffset == [k \in {ra, ta, ea, pb} |-> 0]
=============================================================================
