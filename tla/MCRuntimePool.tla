--------------------------- MODULE MCRuntimePool ---------------------------
(* Instances of RuntimePool for TLC.                                       *)
EXTENDS RuntimePool, TLC

CONSTANTS ka, kb, kc, g1, g2

Shared(k, g) == [key |-> k, gen |-> g, life |-> "persistent", profile |-> "plain"]
Warmed(k, g) == [key |-> k, gen |-> g, life |-> "persistent", profile |-> "observatory"]
Fresh(k, g) == [key |-> k, gen |-> g, life |-> "fresh", profile |-> "plain"]

\* Two persistent profiles, of which one gets a new generation while the other
\* becomes fresh, and back.
MCMixed == {{Warmed(ka, g1), Shared(kb, g1)}, {Shared(ka, g2), Fresh(kb, g1)}}

\* Smaller, for liveness: one key that may be persistent.
MCLive == {{Shared(ka, g1)}, {Fresh(kb, g1)}}

\* A profile that is dropped for two others and comes back beside a new
\* generation of one of them.
MCReturning == {{Shared(ka, g1)}, {Shared(kb, g1), Shared(kc, g1)},
                {Shared(ka, g1), Shared(kb, g2)}}

Symmetry == Permutations(Users)
=============================================================================
