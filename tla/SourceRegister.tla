--------------------------- MODULE SourceRegister ---------------------------
(***************************************************************************)
(* What the publication of a source state promises ("recovery sees either  *)
(* the complete old state or the complete new state, never a               *)
(* registry/generation mixture"): the state a restart would recover is one *)
(* register.  A request replaces it at most once, in one step, before it   *)
(* is answered, and "ok" means that the register holds what was asked for. *)
(***************************************************************************)
CONSTANTS Versions, Nothing

VARIABLES
    val,        \* the state a restart would recover
    req,        \* the version a request wants to publish, or Nothing
    committed,  \* has it?
    outcome     \* how the last request ended, as its caller sees it

rvars == <<val, req, committed, outcome>>

Init == val = Nothing /\ req = Nothing /\ committed = "no" /\ outcome = "none"

Submit == /\ req = Nothing /\ req' \in Versions
          /\ committed' = "no" /\ outcome' = "none" /\ UNCHANGED val

Commit == /\ req # Nothing /\ committed = "no"
          /\ val' = req /\ committed' = "yes" /\ UNCHANGED <<req, outcome>>

\* The caller of a committed request may still see its own cancellation.
Answer == /\ req # Nothing /\ req' = Nothing /\ committed' = "no"
          /\ outcome' \in IF val = req THEN {"ok", "error"} ELSE {"error"}
          /\ UNCHANGED val

\* A request that is refused changes nothing.
Refuse == req = Nothing /\ outcome' = "error" /\ UNCHANGED <<val, req, committed>>

\* The process dies: nobody is answered.
Lose == req' = Nothing /\ committed' = "no" /\ outcome' = "none" /\ UNCHANGED val

Next == Submit \/ Commit \/ Answer \/ Refuse \/ Lose

Spec == Init /\ [][Next]_rvars
=============================================================================
