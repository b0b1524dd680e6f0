----------------------------- MODULE ListQueue -----------------------------
(***************************************************************************)
(* The intrusive list Queue of basic.hpp, pointer by pointer.  It holds the *)
(* PostTasks of IoContext and the awaiters of Acceptor.                     *)
(***************************************************************************)
EXTENDS Integers, Sequences, FiniteSets, Functions

CONSTANTS
    Nodes,      \* the ListNodes
    Before,     \* the address of m_before_head
    Null,       \* the null pointer
    MaxSize     \* bound: queue_size, which clear() does not reset

ASSUME QueueAssumption ==
    /\ Before \notin Nodes
    /\ Null \notin Nodes
    /\ Null # Before
    /\ IsFiniteSet(Nodes)
    /\ MaxSize \in Nat

VARIABLES
    link,       \* m_next of every node and of m_before_head
    tail,       \* m_tail
    size,       \* queue_size
    got,        \* what the last pop returned
    held        \* the nodes the callers have pushed and not got back

vars == <<link, tail, size, got, held>>

Init ==
    /\ link = [n \in Nodes \cup {Before} |-> Null]
    /\ tail = Null
    /\ size = 0
    /\ got = Null
    /\ held = {}

\* The loop of count(): the k-th node behind m_before_head.
Nth[k \in 0..Cardinality(Nodes)] ==
    IF k = 0 THEN Before ELSE IF Nth[k - 1] = Null THEN Null ELSE link[Nth[k - 1]]

count == Cardinality({k \in 1..Cardinality(Nodes) : Nth[k] # Null})

\* The nodes in the list, oldest first.
Contents == [k \in 1..count |-> Nth[k]]

TypeOK ==
    /\ link \in [Nodes \cup {Before} -> Nodes \cup {Null}]
    /\ tail \in Nodes \cup {Null}
    /\ size \in Nat
    /\ got \in Nodes \cup {Null}
    /\ held \in SUBSET Nodes

\* Mutant: the new node keeps the m_next of its last stay in a queue.
LinkedStale(n, t) == [link EXCEPT ![t] = n]

\* node->m_next = nullptr; tail->m_next = node.
Linked(n, t) == [link EXCEPT ![n] = Null, ![t] = n]

\* Mutant: the pushed node is not counted.
Uncounted == size

\* ++queue_size.
Counted == size + 1

\* "consume a dangling node": the caller hands over a node that is in no queue.
push(n) ==
    /\ size < MaxSize
    /\ n \notin held
    /\ link' = Linked(n, IF tail = Null THEN Before ELSE tail)
    /\ tail' = n
    /\ size' = Counted
    /\ held' = held \cup {n}
    /\ UNCHANGED got

\* Mutant: the last node leaves and m_tail stays.
TailStays(rest) == tail

\* m_tail after a pop that leaves the list at rest.
TailAfter(rest) == IF rest = Null THEN Null ELSE tail

\* The node at the head is unlinked; its own m_next is left as it is.
Unlink ==
    LET head == link[Before]
    IN  /\ link' = [link EXCEPT ![Before] = link[head]]
        /\ tail' = TailAfter(link[head])
        /\ size' = size - 1
        /\ got' = head
        /\ held' = held \ {head}

pop ==
    \/ link[Before] # Null /\ Unlink
    \/ link[Before] = Null /\ got' = Null /\ UNCHANGED <<link, tail, size, held>>

\* The caller knows that there is a node.
pop_nocheck == link[Before] # Null /\ Unlink

\* queue_size keeps its value.
clear ==
    /\ link' = [link EXCEPT ![Before] = Null]
    /\ tail' = Null
    /\ held' = {}
    /\ UNCHANGED <<size, got>>

Next == pop \/ pop_nocheck \/ clear \/ \E n \in Nodes : push(n)

Spec == Init /\ [][Next]_vars

-----------------------------------------------------------------------------
\* The list is a queue: what pop() returns, and when it returns null, is what
\* the sequence of pushes, pops and clears says.
F == INSTANCE Fifo WITH q <- Contents
ImplementsFifo == F!Spec

\* The pointers spell out the sequence s of distinct nodes: from m_before_head
\* along m_next to m_tail, and s is what the callers have handed over.
Spells(s) ==
    /\ s \in Seq(Nodes)
    /\ IsInjective(s)
    /\ Range(s) = held
    /\ link[Before] = IF s = <<>> THEN Null ELSE s[1]
    /\ tail = IF s = <<>> THEN Null ELSE s[Len(s)]
    /\ \A i \in 1..Len(s) : link[s[i]] = IF i = Len(s) THEN Null ELSE s[i + 1]

\* No node is lost and none is linked twice: the list from m_before_head to
\* m_tail is exactly the nodes pushed and not popped, and queue_size is never less
\* than their number (clear() may leave it too large).
ListSound == \E k \in 0..size : \E s \in [1..k -> held] : Spells(s)
=============================================================================
