-------------------------------- MODULE Fifo --------------------------------
(***************************************************************************)
(* What Queue of basic.hpp promises: nodes leave in the order they came.   *)
(***************************************************************************)
EXTENDS Sequences, Functions

CONSTANTS
    Nodes,      \* the nodes that may be queued
    Null        \* the null pointer

VARIABLES
    q,          \* the nodes in the queue, oldest first
    got         \* what the last pop() returned

vars == <<q, got>>

Init == q = <<>> /\ got = Null

\* "consume a dangling node": the node is in no queue.
Push(n) == n \notin Range(q) /\ q' = Append(q, n) /\ UNCHANGED got

Pop ==
    /\ got' = IF q = <<>> THEN Null ELSE Head(q)
    /\ q' = IF q = <<>> THEN q ELSE Tail(q)

Clear == q' = <<>> /\ UNCHANGED got

Next == Pop \/ Clear \/ \E n \in Nodes : Push(n)

Spec == Init /\ [][Next]_vars
=============================================================================
