--------------------------- MODULE ConfigRegister ---------------------------
(***************************************************************************)
(* What ProberService.replace_config promises ("Validate and atomically    *)
(* replace config through the daemon owner"): the configuration a restart  *)
(* would load is one register, a request either replaces it in one step or *)
(* leaves it alone, and only a request that replaced it is answered "ok".  *)
(***************************************************************************)
EXTENDS Naturals

CONSTANTS Configs, Absent

VARIABLES
    val,      \* the configuration a restart would load
    req,      \* the candidate of the request in progress, or Absent
    outcome   \* how the last request ended, as its caller sees it

rvars == <<val, req, outcome>>

Init == val = Absent /\ req = Absent /\ outcome = "none"

Submit == req = Absent /\ req' \in Configs /\ outcome' = "none" /\ UNCHANGED val

\* The candidate is durable; the caller may still see its own cancellation or
\* an error of the file system.
Commit == /\ req # Absent /\ val' = req /\ req' = Absent
          /\ outcome' \in {"ok", "error"}

Reject == req # Absent /\ req' = Absent /\ outcome' = "error" /\ UNCHANGED val

\* The process dies: nobody is answered.
Lose == req' = Absent /\ outcome' = "none" /\ UNCHANGED val

Next == Submit \/ Commit \/ Reject \/ Lose

Spec == Init /\ [][Next]_rvars
=============================================================================
