-------------------------- MODULE MCRuntimeManager --------------------------
(* Instances of RuntimeManager for TLC.                                    *)
EXTENDS RuntimeManager, TLC
=============================================================================
