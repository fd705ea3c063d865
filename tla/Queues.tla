------------------------------- MODULE Queues -------------------------------
(***************************************************************************)
(* The locks of asyncio, which serve their waiters in the order of         *)
(* arrival: a lock is the sequence of the tasks that hold or await it, its *)
(* holder first.                                                           *)
(***************************************************************************)
EXTENDS Naturals, Sequences

Holds(q, p) == q # <<>> /\ Head(q) = p

\* p releases the lock, or waits no longer.  A task is in a queue once at most.
Without(q, p) ==
    IF \E i \in DOMAIN q : q[i] = p
    THEN LET i == CHOOSE i \in DOMAIN q : q[i] = p
         IN  SubSeq(q, 1, i - 1) \o SubSeq(q, i + 1, Len(q))
    ELSE q
=============================================================================
