----------------------------- MODULE ArrayQueue -----------------------------
(***************************************************************************)
(* lockFreeQueue of lib/lockfree_queue.hpp: an array, four atomic counters, *)
(* and every atomic operation a step.  The node a producer brings is a     *)
(* number.                                                                  *)
(***************************************************************************)
EXTENDS Integers, Sequences

CONSTANTS
    Writers, Readers,
    Slots,          \* the template parameter size
    MaxCalls        \* bound: the calls of queue() that succeed

VARIABLES
    q,
    head, qtail, readableCnt, writeableCnt,
    at,             \* where each thread is, and the slot it was given
    accepted,       \* the nodes that got a slot; they are numbered in the order of their slots
    received        \* the nodes deque() returned, in the order it returned them

aqVars == <<q, head, qtail, readableCnt, writeableCnt, at, accepted, received>>

Empty == 0

AQInit ==
    /\ q = [i \in 0..Slots - 1 |-> Empty]
    /\ head = 0 /\ qtail = 0 /\ readableCnt = 0 /\ writeableCnt = Slots
    /\ at = [t \in Writers \cup Readers |-> [pc |-> "outside", pos |-> 0, node |-> Empty]]
    /\ accepted = 0 /\ received = <<>>

Goes(t, from, to) == at[t].pc = from /\ at' = [at EXCEPT ![t].pc = to]

\* compare_exchange_strong(m, 0): the counter starts again when it has passed the last slot.
wrapped(n) == IF n = Slots THEN 0 ELSE n

-----------------------------------------------------------------------------
\* queue(): fetch_sub on the places, and fetch_add to give one back that was not there.
queue_claim(t) ==
    /\ accepted < MaxCalls
    /\ Goes(t, "outside", IF writeableCnt <= 0 THEN "refused" ELSE "wrap")
    /\ writeableCnt' = writeableCnt - 1
    /\ UNCHANGED <<q, head, qtail, readableCnt, accepted, received>>

queue_refused(t) ==
    /\ Goes(t, "refused", "outside")
    /\ writeableCnt' = writeableCnt + 1
    /\ UNCHANGED <<q, head, qtail, readableCnt, accepted, received>>

queue_wrap(t) ==
    /\ Goes(t, "wrap", "take")
    /\ qtail' = wrapped(qtail)
    /\ UNCHANGED <<q, head, readableCnt, writeableCnt, accepted, received>>

queue_take(t) ==
    /\ at[t].pc = "take"
    /\ at' = [at EXCEPT ![t] = [pc |-> "fill", pos |-> qtail % Slots, node |-> accepted + 1]]
    /\ qtail' = qtail + 1
    /\ accepted' = accepted + 1
    /\ UNCHANGED <<q, head, readableCnt, writeableCnt, received>>

queue_fill(t) ==
    /\ Goes(t, "fill", "publish")
    /\ q' = [q EXCEPT ![at[t].pos] = at[t].node]
    /\ UNCHANGED <<head, qtail, readableCnt, writeableCnt, accepted, received>>

queue_publish(t) ==
    /\ Goes(t, "publish", "outside")
    /\ readableCnt' = readableCnt + 1
    /\ UNCHANGED <<q, head, qtail, writeableCnt, accepted, received>>

-----------------------------------------------------------------------------
\* Mutant: a queue with no node is taken for one with a node.
claim_of_none(t) ==
    /\ Goes(t, "outside", IF readableCnt < 0 THEN "refused" ELSE "wrap")
    /\ readableCnt' = readableCnt - 1
    /\ UNCHANGED <<q, head, qtail, writeableCnt, accepted, received>>

deque_claim(t) ==
    /\ Goes(t, "outside", IF readableCnt <= 0 THEN "refused" ELSE "wrap")
    /\ readableCnt' = readableCnt - 1
    /\ UNCHANGED <<q, head, qtail, writeableCnt, accepted, received>>

deque_refused(t) ==
    /\ Goes(t, "refused", "outside")
    /\ readableCnt' = readableCnt + 1
    /\ UNCHANGED <<q, head, qtail, writeableCnt, accepted, received>>

deque_wrap(t) ==
    /\ Goes(t, "wrap", "take")
    /\ head' = wrapped(head)
    /\ UNCHANGED <<q, qtail, readableCnt, writeableCnt, accepted, received>>

deque_take(t) ==
    /\ at[t].pc = "take"
    /\ at' = [at EXCEPT ![t].pc = "read", ![t].pos = head % Slots]
    /\ head' = head + 1
    /\ UNCHANGED <<q, qtail, readableCnt, writeableCnt, accepted, received>>

\* node = q[pos], and only then the place is free.
deque_read(t) ==
    \/ /\ Goes(t, "read", "release") /\ received' = Append(received, q[at[t].pos])
       /\ UNCHANGED <<q, head, qtail, readableCnt, writeableCnt, accepted>>
    \/ /\ Goes(t, "release", "outside") /\ writeableCnt' = writeableCnt + 1
       /\ UNCHANGED <<q, head, qtail, readableCnt, accepted, received>>

AQNext ==
    \/ \E t \in Writers : \/ queue_claim(t) \/ queue_refused(t) \/ queue_wrap(t)
                          \/ queue_take(t) \/ queue_fill(t) \/ queue_publish(t)
    \/ \E t \in Readers : \/ deque_claim(t) \/ deque_refused(t) \/ deque_wrap(t)
                          \/ deque_take(t) \/ deque_read(t)

AQSpec == AQInit /\ [][AQNext]_aqVars

-----------------------------------------------------------------------------
\* With one writer and one reader, deque() returns exactly the nodes queue() took, in
\* their order, however the two wrap around the array and however often they find it full
\* or empty.  (With more of either, a slot is published before an earlier one is filled.)
ArrayQueueExact == \A i \in DOMAIN received : i <= accepted /\ received[i] = i
=============================================================================
