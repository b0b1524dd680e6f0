------------------------------ MODULE HeapTimer ------------------------------
(***************************************************************************)
(* HeapTimer of core/heaptimer.cpp: a binary heap of deadlines and the      *)
(* place of every id in it, as operators on h = [heap, ref, ok].  Places    *)
(* count from 1; ok becomes FALSE when an assert fails.  What the callbacks *)
(* do is up to the module that uses the timer.                              *)
(***************************************************************************)
EXTENDS Integers, Sequences

NewTimer == [heap |-> <<>>, ref |-> <<>>, ok |-> TRUE]

Has(h, id) == id \in DOMAIN h.ref

Earlier(h, i, j) == h.heap[i].expires < h.heap[j].expires

Assert_(h, holds) == [h EXCEPT !.ok = h.ok /\ holds]

SwapNode_(h, i, j) ==
    [heap |-> [h.heap EXCEPT ![i] = h.heap[j], ![j] = h.heap[i]],
     ref  |-> [h.ref EXCEPT ![h.heap[j].id] = i, ![h.heap[i].id] = j],
     ok   |-> h.ok]

-----------------------------------------------------------------------------
(***************************************************************************)
(* The loops.  A state of one is the timer and the place i of the node that *)
(* moves, a loop that breaks stays where it is, and neither has more        *)
(* iterations than there are places.                                        *)
(***************************************************************************)

\* The states of a loop after 0, 1, 2, ... iterations.
Iterates(body, start) ==
    LET after[k \in Nat] == IF k = 0 THEN start ELSE body[after[k - 1]]
    IN  after

\* The nodes of h in any places.
NodesOf(h) == {h.heap[k] : k \in DOMAIN h.heap}

Cursors(h) ==
    [h : [heap : [DOMAIN h.heap -> NodesOf(h)], ref : [DOMAIN h.ref -> DOMAIN h.heap], ok : {h.ok}],
     i : DOMAIN h.heap]

Cursor(h, i) == [h |-> h, i |-> i]

step_up(c) ==
    LET j == c.i \div 2
    IN  IF j = 0 \/ Earlier(c.h, j, c.i) THEN c ELSE Cursor(SwapNode_(c.h, c.i, j), j)

rise(h, i) == Iterates([c \in Cursors(h) |-> step_up(c)], Cursor(h, i))[i]

\* The loop does not end at the root: it compares the node there with what lies in memory
\* before the array.  garbage says whether that looks earlier; when it does not, the assert
\* of SwapNode_ fails.
siftup_(h, i, garbage) ==
    LET up == rise(h, i)
    IN  IF i = 1 THEN h ELSE IF up.i = 1 THEN Assert_(up.h, garbage) ELSE up.h

\* Mutant: the left child is taken for the smaller one.
left_child(h, i, n) == 2 * i

smaller_child(h, i, n) == IF 2 * i + 1 <= n /\ Earlier(h, 2 * i + 1, 2 * i) THEN 2 * i + 1 ELSE 2 * i

step_down(c, n) ==
    LET j == smaller_child(c.h, c.i, n)
    IN  IF 2 * c.i > n \/ Earlier(c.h, c.i, j) THEN c ELSE Cursor(SwapNode_(c.h, c.i, j), j)

\* The heap and where the node has come to; it went down if that is not where it was.
siftdown_(h, i, n) == Iterates([c \in Cursors(h) |-> step_down(c, n)], Cursor(h, i))[n]

-----------------------------------------------------------------------------
\* Down, and if it did not move, up.
Settle(h, i, n, garbage) ==
    LET down == siftdown_(h, i, n)
    IN  IF down.i > i THEN down.h ELSE siftup_(down.h, i, garbage)

\* A node with another deadline.
Expiring(h, i, expires) == [h EXCEPT !.heap = [h.heap EXCEPT ![i] = [id |-> h.heap[i].id, expires |-> expires]]]

\* A node behind the last one.
Pushed(h, id, expires) ==
    [heap |-> Append(h.heap, [id |-> id, expires |-> expires]),
     ref  |-> [x \in DOMAIN h.ref \cup {id} |-> IF x = id THEN Len(h.heap) + 1 ELSE h.ref[x]],
     ok   |-> h.ok]

add(h, id, expires, garbage) ==
    IF ~Has(h, id) THEN siftup_(Pushed(h, id, expires), Len(h.heap) + 1, garbage)
    ELSE Settle(Expiring(h, h.ref[id], expires), h.ref[id], Len(h.heap), garbage)

\* ref_.erase(heap_.back().id); heap_.pop_back().
Popped(h) ==
    LET n == Len(h.heap)
    IN  [heap |-> SubSeq(h.heap, 1, n - 1),
         ref  |-> [x \in DOMAIN h.ref \ {h.heap[n].id} |-> h.ref[x]],
         ok   |-> h.ok]

del_(h, i, garbage) ==
    LET n == Len(h.heap)
    IN  Popped(IF i < n THEN Settle(SwapNode_(h, i, n), i, n - 1, garbage) ELSE h)

doWork(h, id, garbage) == IF Has(h, id) THEN del_(h, h.ref[id], garbage) ELSE h

\* Mutant: the deadline stays what it was.
no_adjust(h, id, expires) == h

\* Only down: the new deadline is taken to be later.
adjust(h, id, expires) ==
    IF ~Has(h, id) THEN Assert_(h, FALSE)
    ELSE siftdown_(Expiring(h, h.ref[id], expires), h.ref[id], Len(h.heap)).h

\* tick(): whether the first node is due at the time now; pop() after its callback.
IsDue(h, now) == h.heap # <<>> /\ h.heap[1].expires - now <= 0

pop_first(h) == del_(h, 1, TRUE)

\* GetNextTick(), once tick() is over: a deadline that has just passed is a huge number,
\* which epoll_wait() takes for no deadline at all.
Forever == -1
NextTick(h, now) ==
    IF h.heap = <<>> \/ h.heap[1].expires < now THEN Forever ELSE h.heap[1].expires

-----------------------------------------------------------------------------
\* No node is due before its parent, and every id is found where it is.
IsHeap(h) ==
    /\ \A i \in 2..Len(h.heap) : ~Earlier(h, i, i \div 2)
    /\ \A id \in DOMAIN h.ref : h.ref[id] \in 1..Len(h.heap) /\ h.heap[h.ref[id]].id = id
    /\ \A i \in DOMAIN h.heap : Has(h, h.heap[i].id) /\ h.ref[h.heap[i].id] = i
=============================================================================
