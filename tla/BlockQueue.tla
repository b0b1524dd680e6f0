----------------------------- MODULE BlockQueue -----------------------------
(***************************************************************************)
(* BlockDeque of lib/blockqueue.h: producers and consumers on one mutex and *)
(* two condition variables.  What the items are, and at which end one is    *)
(* put, does not matter to who waits for whom: the deque is its length.     *)
(***************************************************************************)
EXTENDS Integers, FiniteSets

CONSTANTS
    Producers,
    Consumers,
    Timed,          \* the consumers that call pop(item, timeout)
    Capacity

ASSUME BlockQueueAssumption ==
    /\ IsFiniteSet(Producers) /\ IsFiniteSet(Consumers)
    /\ Timed \subseteq Consumers
    /\ Capacity \in Nat \ {0}

VARIABLES
    items,          \* deq_.size()
    isClose,
    closing,        \* what Close() has still to do
    pro, con,       \* each thread: outside, in wait(), or notified and on its way out of it
    lost            \* a wake-up went to a thread that did not use it, or was never sent

bqVars == <<items, isClose, closing, pro, con, lost>>

In(f, state) == {t \in DOMAIN f : f[t] = state}

BQTypeOK ==
    /\ items \in 0..Capacity
    /\ isClose \in BOOLEAN /\ lost \in BOOLEAN
    /\ closing \in {"no", "producers", "consumers", "done"}
    /\ pro \in [Producers -> {"outside", "waiting", "notified"}]
    /\ con \in [Consumers -> {"outside", "waiting", "notified"}]

BQInit ==
    /\ items = 0 /\ isClose = FALSE /\ closing = "no" /\ lost = FALSE
    /\ pro = [p \in Producers |-> "outside"]
    /\ con = [c \in Consumers |-> "outside"]

\* notify_one() on the threads f: one that waits is woken, if there is any.
notify_one(f, g) ==
    IF In(f, "waiting") = {} THEN g = f
    ELSE \E t \in In(f, "waiting") : g = [f EXCEPT ![t] = "notified"]

notify_all(f) == [t \in DOMAIN f |-> IF f[t] = "waiting" THEN "notified" ELSE f[t]]

\* push_back() and push_front(): the loop at its first turn, or after wait().
push_back(p) ==
    /\ pro[p] \in {"outside", "notified"}
    /\ IF items >= Capacity
       THEN pro' = [pro EXCEPT ![p] = "waiting"] /\ UNCHANGED <<items, con>>
       ELSE /\ pro' = [pro EXCEPT ![p] = "outside"]
            /\ items' = items + 1
            /\ notify_one(con, con')
    /\ UNCHANGED <<isClose, closing, lost>>

\* Mutant: the producers are told only when the queue was full.
Takes_when_full(c) ==
    /\ con' = [con EXCEPT ![c] = "outside"]
    /\ items' = items - 1
    /\ IF items = Capacity THEN notify_one(pro, pro') ELSE UNCHANGED pro
    /\ UNCHANGED <<isClose, closing, lost>>

\* item = deq_.front(); deq_.pop_front(); condProducer_.notify_one().
Takes(c) ==
    /\ con' = [con EXCEPT ![c] = "outside"]
    /\ items' = items - 1
    /\ notify_one(pro, pro')
    /\ UNCHANGED <<isClose, closing, lost>>

Waits(c) == con' = [con EXCEPT ![c] = "waiting"] /\ UNCHANGED <<items, isClose, closing, pro, lost>>

\* pop() from outside: isClose_ is not looked at before it has waited.
pop_outside(c) ==
    /\ con[c] = "outside"
    /\ IF items = 0 THEN Waits(c) ELSE Takes(c)

\* wait() returns.
pop_woken(c) ==
    /\ con[c] = "notified"
    /\ IF isClose THEN con' = [con EXCEPT ![c] = "outside"] /\ UNCHANGED <<items, isClose, closing, pro, lost>>
       ELSE IF items = 0 THEN Waits(c) ELSE Takes(c)

\* wait_for() returns after its time, which it takes from the clock: the thread may have
\* been notified and pop() returns false all the same.
pop_timeout(c) ==
    /\ c \in Timed /\ con[c] \in {"waiting", "notified"}
    /\ con' = [con EXCEPT ![c] = "outside"]
    /\ lost' = (lost \/ (con[c] = "notified" /\ items > 0))
    /\ UNCHANGED <<items, isClose, closing, pro>>

\* A condition variable may wake a thread for no reason.
spurious ==
    /\ \/ (\E c \in In(con, "waiting") : con' = [con EXCEPT ![c] = "notified"]) /\ UNCHANGED pro
       \/ (\E p \in In(pro, "waiting") : pro' = [pro EXCEPT ![p] = "notified"]) /\ UNCHANGED con
    /\ UNCHANGED <<items, isClose, closing, lost>>

flush == notify_one(con, con') /\ UNCHANGED <<items, isClose, closing, pro, lost>>

\* clear() tells nobody that there is room.
clear_items ==
    /\ items' = 0
    /\ lost' = (lost \/ In(pro, "waiting") # {})
    /\ UNCHANGED <<isClose, closing, pro, con>>

\* Close(): the two notify_all() come after the lock is given back.
Close ==
    /\ closing = "no"
    /\ items' = 0 /\ isClose' = TRUE /\ closing' = "producers"
    /\ UNCHANGED <<pro, con, lost>>

Close_notify ==
    /\ \/ closing = "producers" /\ closing' = "consumers" /\ pro' = notify_all(pro) /\ UNCHANGED con
       \/ closing = "consumers" /\ closing' = "done" /\ con' = notify_all(con) /\ UNCHANGED pro
    /\ UNCHANGED <<items, isClose, lost>>

BQNext ==
    \/ \E p \in Producers : push_back(p)
    \/ \E c \in Consumers : pop_outside(c) \/ pop_woken(c) \/ pop_timeout(c)
    \/ spurious \/ flush \/ clear_items \/ Close \/ Close_notify

BQSpec == BQInit /\ [][BQNext]_bqVars

-----------------------------------------------------------------------------
\* Nobody sleeps while there is something to do: until Close(), a thread stays in wait()
\* only if the items (the free places) are no more than the threads already woken for them.
\* Two things of blockqueue.h break this and are left out by lost: clear() frees places and
\* notifies no producer, and a pop() that times out keeps the notification it was given.
NoLostWakeup ==
    ~isClose /\ ~lost =>
        /\ In(con, "waiting") # {} => items <= Cardinality(In(con, "notified"))
        /\ In(pro, "waiting") # {} => Capacity - items <= Cardinality(In(pro, "notified"))
=============================================================================
