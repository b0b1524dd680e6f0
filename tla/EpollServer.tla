----------------------------- MODULE EpollServer -----------------------------
(***************************************************************************)
(* The earlier server of core/: the main thread waits on epoll, accepts,    *)
(* keeps the deadlines of the connections in a HeapTimer and gives reading  *)
(* and writing to the workers of a pool.  A descriptor is watched ONESHOT   *)
(* (level triggered, trigMode 0): an event disarms it, and the worker that  *)
(* handled it arms it again.                                                *)
(***************************************************************************)
EXTENDS Integers, FiniteSets, Sequences, HeapTimer

CONSTANTS
    Fds,            \* the numbers accept() can return
    Workers,
    Timeout,        \* timeoutMS_, above 0
    MaxUsers,       \* MAX_FD
    MaxTime,        \* bound: the clock
    MaxClients      \* bound: the clients that ever connect

\* The server keeps timers only when timeoutMS_ > 0 (Start, AddClient_, ExtentTime_).
ASSUME EpollAssumption == Timeout \in Nat \ {0}

VARIABLES
    clock,
    timer,          \* timer_
    opened,         \* the descriptors that are open: users_ that are not closed
    watch,          \* epoll: "none", "off" (disarmed), "in" or "out" for each descriptor
    peer,           \* what the client did that has not been read: "quiet", "data" or "gone"
    clients,        \* the clients that have connected, and how many of them wait in accept
    main,           \* the main thread: where it is, its batch of events, when its wait ends
    tasks,          \* the queue of the pool
    worker,         \* what each worker is doing, and to which connection
    active          \* when each connection was last accepted or given to a worker

esVars == <<clock, timer, opened, watch, peer, clients, main, tasks, worker, active>>

Listen == "listen"

IdleWorker == [at |-> "idle", fd |-> Listen]

ESInit ==
    /\ clock = 0 /\ timer = NewTimer
    /\ opened = {}
    /\ watch = [f \in Fds |-> "none"] /\ peer = [f \in Fds |-> "quiet"]
    /\ clients = [all |-> 0, waiting |-> 0]
    /\ main = [at |-> "tick", batch |-> <<>>, until |-> Forever]
    /\ tasks = <<>> /\ worker = [w \in Workers |-> IdleWorker]
    /\ active = [f \in Fds |-> 0]

-----------------------------------------------------------------------------
\* The clock and the clients
ClockTicks ==
    /\ clock < MaxTime /\ clock' = clock + 1
    /\ UNCHANGED <<timer, opened, watch, peer, clients, main, tasks, worker, active>>

Connects ==
    /\ clients.all < MaxClients
    /\ clients' = [all |-> clients.all + 1, waiting |-> clients.waiting + 1]
    /\ UNCHANGED <<clock, timer, opened, watch, peer, main, tasks, worker, active>>

Sends(f) ==
    /\ f \in opened /\ peer[f] # "gone"
    /\ peer' \in {[peer EXCEPT ![f] = "data"], [peer EXCEPT ![f] = "gone"]} \ {peer}
    /\ UNCHANGED <<clock, timer, opened, watch, clients, main, tasks, worker, active>>

-----------------------------------------------------------------------------
\* epoll and descriptors.  A closed descriptor is no longer watched.
ModFd(f, events) == watch' = IF watch[f] = "none" THEN watch ELSE [watch EXCEPT ![f] = events]

DelFd(f) == watch' = [watch EXCEPT ![f] = "none"]

\* client->Close(): once for every init().
CloseFd(f) ==
    IF f \notin opened THEN UNCHANGED <<opened, watch, peer>>
    ELSE /\ opened' = opened \ {f}
         /\ watch' = [watch EXCEPT ![f] = "none"]
         /\ peer' = [peer EXCEPT ![f] = "quiet"]

\* What epoll reports of a descriptor that is armed: that the client has gone, always.
Ready(f) == \/ watch[f] \in {"in", "out", "hup"} /\ peer[f] = "gone"
            \/ watch[f] = "in" /\ peer[f] = "data"
            \/ watch[f] = "out"

EventOf(f) == IF peer[f] = "gone" THEN "hup" ELSE watch[f]

-----------------------------------------------------------------------------
\* The main thread: Start()

\* tick(): the callback of a node that is due begins with DelFd.
TimerFires ==
    /\ main.at = "tick" /\ IsDue(timer, clock)
    /\ DelFd(timer.heap[1].id)
    /\ main' = [main EXCEPT !.at = "timer_close"]
    /\ UNCHANGED <<clock, timer, opened, peer, clients, tasks, worker, active>>

\* Close() of the callback, and then pop().
TimerCloses ==
    /\ main.at = "timer_close"
    /\ CloseFd(timer.heap[1].id)
    /\ timer' = pop_first(timer)
    /\ main' = [main EXCEPT !.at = "tick"]
    /\ UNCHANGED <<clock, clients, tasks, worker, active>>

\* tick() has nothing to do at one time, the deadline is taken from the clock at another.
GetNextTick ==
    /\ \/ main.at = "tick" /\ ~IsDue(timer, clock) /\ main' = [main EXCEPT !.at = "next"]
       \/ main.at = "next" /\ main' = [main EXCEPT !.at = "wait", !.until = NextTick(timer, clock)]
    /\ UNCHANGED <<clock, timer, opened, watch, peer, clients, tasks, worker, active>>

\* epoll_wait(): the descriptors that are ready, in some order, each disarmed; or its time
\* is over.
Wait ==
    /\ main.at = "wait"
    /\ \/ LET ready == {f \in Fds : Ready(f)}
              all   == ready \cup (IF clients.waiting > 0 THEN {Listen} ELSE {})
              Event(f) == [fd |-> f, event |-> IF f = Listen THEN "accept" ELSE EventOf(f)]
          IN  /\ all # {}
              /\ \E order \in [1..Cardinality(all) -> all] :
                    /\ \A f \in all : \E i \in DOMAIN order : order[i] = f
                    /\ main' = [main EXCEPT !.at = "events", !.batch = [i \in DOMAIN order |-> Event(order[i])]]
              /\ watch' = [f \in Fds |-> IF f \in ready THEN "off" ELSE watch[f]]
       \/ /\ main.until # Forever /\ clock >= main.until
          /\ main' = [main EXCEPT !.at = "tick"] /\ UNCHANGED watch
    /\ UNCHANGED <<clock, timer, opened, peer, clients, tasks, worker, active>>

Handling(event) == main.at = "events" /\ main.batch # <<>> /\ Head(main.batch).event = event

Handled == main' = [main EXCEPT !.batch = Tail(@)]

EventsDone ==
    /\ main.at = "events" /\ main.batch = <<>> /\ main' = [main EXCEPT !.at = "tick"]
    /\ UNCHANGED <<clock, timer, opened, watch, peer, clients, tasks, worker, active>>

\* DealListen_ and AddClient_: one accept() for an event, and a client too many is closed.
DealListen_ ==
    /\ Handling("accept") /\ Handled
    /\ clients' = [clients EXCEPT !.waiting = @ - 1]
    /\ \/ /\ Cardinality(opened) >= MaxUsers
          /\ UNCHANGED <<timer, opened, watch, active>>
       \/ \E f \in Fds \ opened, garbage \in BOOLEAN :
            /\ Cardinality(opened) < MaxUsers
            /\ opened' = opened \cup {f}
            /\ timer' = add(timer, f, clock + Timeout, garbage)
            /\ watch' = [watch EXCEPT ![f] = "in"]
            /\ active' = [active EXCEPT ![f] = clock]
    /\ UNCHANGED <<clock, peer, tasks, worker>>

\* The client has gone: CloseConn_ in the main thread.
HupFires ==
    /\ Handling("hup") /\ DelFd(Head(main.batch).fd)
    /\ main' = [main EXCEPT !.at = "hup_close"]
    /\ UNCHANGED <<clock, timer, opened, peer, clients, tasks, worker, active>>

HupCloses ==
    /\ main.at = "hup_close" /\ CloseFd(Head(main.batch).fd)
    /\ main' = [main EXCEPT !.at = "events", !.batch = Tail(@)]
    /\ UNCHANGED <<clock, timer, clients, tasks, worker, active>>

\* DealRead_ and DealWrite_: ExtentTime_, and a task for the pool.
Deal(event, op) ==
    /\ Handling(event) /\ Handled
    /\ LET f == Head(main.batch).fd
       IN  /\ timer' = adjust(timer, f, clock + Timeout)
           /\ active' = [active EXCEPT ![f] = clock]
           /\ tasks' = Append(tasks, [at |-> op, fd |-> f])
    /\ UNCHANGED <<clock, opened, watch, peer, clients, worker>>

Deals == Deal("in", "read") \/ Deal("out", "write")

-----------------------------------------------------------------------------
\* The workers

TakesTask(w) ==
    /\ worker[w] = IdleWorker /\ tasks # <<>>
    /\ worker' = [worker EXCEPT ![w] = Head(tasks)] /\ tasks' = Tail(tasks)
    /\ UNCHANGED <<clock, timer, opened, watch, peer, clients, main, active>>

WorkerGoes(w, to) == worker' = [worker EXCEPT ![w].at = to]

\* OnRead_: all that is there is read; an error other than EAGAIN closes.
OnRead_(w) ==
    LET f == worker[w].fd
    IN  /\ worker[w].at = "read"
        /\ IF f \notin opened \/ peer[f] = "gone" THEN WorkerGoes(w, "del") ELSE WorkerGoes(w, "process")
        /\ peer' = IF peer[f] = "data" THEN [peer EXCEPT ![f] = "quiet"] ELSE peer
        /\ UNCHANGED <<clock, timer, opened, watch, clients, main, tasks, active>>

\* process() wants more to read, has something to write, or is a WebSocket that waits.
OnProcess(w) ==
    /\ worker[w].at = "process"
    /\ \E to \in {"in", "out", "hup"} : WorkerGoes(w, to)
    /\ UNCHANGED <<clock, timer, opened, watch, peer, clients, main, tasks, active>>

\* Everything is written and there is more to do; EAGAIN; or this was all, or an error, or
\* a write that did not take everything.
OnWrite_(w) ==
    /\ worker[w].at = "write"
    /\ \E to \in IF worker[w].fd \in opened THEN {"process", "out", "del"} ELSE {"process", "del"} : WorkerGoes(w, to)
    /\ UNCHANGED <<clock, timer, opened, watch, peer, clients, main, tasks, active>>

Rearms(w) ==
    /\ worker[w].at \in {"in", "out", "hup"}
    /\ ModFd(worker[w].fd, worker[w].at)
    /\ worker' = [worker EXCEPT ![w] = IdleWorker]
    /\ UNCHANGED <<clock, timer, opened, peer, clients, main, tasks, active>>

CloseConn_(w) ==
    \/ /\ worker[w].at = "del" /\ DelFd(worker[w].fd) /\ WorkerGoes(w, "close")
       /\ UNCHANGED <<clock, timer, opened, peer, clients, main, tasks, active>>
    \/ /\ worker[w].at = "close" /\ CloseFd(worker[w].fd)
       /\ worker' = [worker EXCEPT ![w] = IdleWorker]
       /\ UNCHANGED <<clock, timer, clients, main, tasks, active>>

\* An assert that fails ends the program.
ESNext ==
    /\ timer.ok
    /\ \/ ClockTicks \/ Connects \/ \E f \in Fds : Sends(f)
       \/ TimerFires \/ TimerCloses \/ GetNextTick \/ Wait \/ EventsDone
       \/ DealListen_ \/ HupFires \/ HupCloses \/ Deals
       \/ \E w \in Workers : \/ TakesTask(w) \/ OnRead_(w) \/ OnProcess(w) \/ OnWrite_(w)
                             \/ Rearms(w) \/ CloseConn_(w)

ESSpec == ESInit /\ [][ESNext]_esVars

-----------------------------------------------------------------------------
\* Every open connection has a deadline, the heap is in order and finds every connection:
\* so no connection is forgotten, and adjust() is never called for one that is not there.
\* (The timer of a connection that a worker closed stays and is taken over by the next
\* client with the same descriptor.)
TimersKept ==
    timer.ok => IsHeap(timer) /\ \A f \in opened : Has(timer, f)

\* The timer closes only a connection that was neither accepted nor given to a worker for
\* Timeout, whatever other connections did to the heap meanwhile.
IdleClosed == TimerFires => clock - active[timer.heap[1].id] >= Timeout

ClosedOnlyWhenIdle == [][IdleClosed]_esVars

\* epoll_server.hpp:287 says of OnProcess "this ensures that only one thread works on one
\* fd".  It does not hold: the timer of the main thread closes a connection a worker is at,
\* and a descriptor closed and used again has an event in the batch of the one before.
Working(f) == {w \in Workers : worker[w] # IdleWorker /\ worker[w].fd = f}
              \cup {m \in {"main"} : \/ main.at = "timer_close" /\ timer.heap[1].id = f
                                     \/ main.at = "hup_close" /\ Head(main.batch).fd = f}

OneThreadPerFd == \A f \in Fds : Cardinality(Working(f)) <= 1
=============================================================================
