-------------------------- MODULE RuntimeContract --------------------------
(***************************************************************************)
(* What the pool assumes of XrayRuntimeManager: a call of start_for()      *)
(* either gives its caller a running process or leaves none behind, a      *)
(* process stays its holder's until the holder stops it or the manager is  *)
(* closed, no start succeeds once close() was called, and close() ends     *)
(* when no call is under way any more and no process is left.              *)
(***************************************************************************)
CONSTANT Callers

VARIABLES
    call,     \* where each caller is
    process,  \* the process that it was given
    manager   \* open, closing or closed

cvars == <<call, process, manager>>

Init ==
    /\ call = [t \in Callers |-> "out"]
    /\ process = [t \in Callers |-> "none"]
    /\ manager = "open"

Move(t, from, to) == call[t] = from /\ call' = [call EXCEPT ![t] = to]

Start(t) == manager = "open" /\ Move(t, "out", "starting") /\ UNCHANGED <<process, manager>>

Succeed(t) ==
    /\ manager = "open" /\ Move(t, "starting", "holding")
    /\ process' = [process EXCEPT ![t] = "alive"]
    /\ UNCHANGED manager

Fail(t) == Move(t, "starting", "out") /\ UNCHANGED <<process, manager>>

\* A process dies, by itself or because it is told to.
Die(t) ==
    /\ process[t] = "alive" /\ process' = [process EXCEPT ![t] = "exited"]
    /\ UNCHANGED <<call, manager>>

Stop(t) == Move(t, "holding", "stopping") /\ UNCHANGED <<process, manager>>

\* It is gone only for a holder that stops it, or for a manager that is closed.
Reap(t) ==
    /\ call[t] = "stopping" \/ manager = "closing"
    /\ process[t] = "exited" /\ process' = [process EXCEPT ![t] = "none"]
    /\ UNCHANGED <<call, manager>>

Stopped(t) ==
    /\ process[t] = "none" /\ Move(t, "stopping", "out")
    /\ UNCHANGED <<process, manager>>

BeginClose == manager = "open" /\ manager' = "closing" /\ UNCHANGED <<call, process>>

EndClose ==
    /\ manager = "closing"
    /\ \A t \in Callers : process[t] = "none" /\ call[t] # "starting"
    /\ manager' = "closed"
    /\ UNCHANGED <<call, process>>

Next ==
    \/ \E t \in Callers :
          Start(t) \/ Succeed(t) \/ Fail(t) \/ Die(t) \/ Stop(t) \/ Reap(t) \/ Stopped(t)
    \/ BeginClose \/ EndClose

Spec == Init /\ [][Next]_cvars
=============================================================================
