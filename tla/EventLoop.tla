----------------------------- MODULE EventLoop -----------------------------
(***************************************************************************)
(* One server thread: IoContext::run, the PostTasks that watch for         *)
(* timeouts, the RawConnections it serves, the awaiters of async_read and  *)
(* async_send, and the coroutine Server::handle that uses them.            *)
(*                                                                         *)
(* The thread runs each callback to completion, so a callback is one step. *)
(* The kernel (sockets, the epoll ready list, the clock) and the peers     *)
(* move between any two steps.  Bytes are counted in abstract units.       *)
(***************************************************************************)
EXTENDS Integers, Sequences, FiniteSets, Functions

CONSTANTS
    Conns,      \* the connections that may be accepted
    Posts,      \* the addresses at which PostTasks are allocated
    Null,       \* the null pointer
    MaxIn,      \* bound: unread units a peer may have queued on a socket
    BufSize,    \* room in the request's buffer when async_read is called
    MaxRoom,    \* size of a socket's send buffer
    MaxReply,   \* bound: size of a response
    MaxEvents,  \* maxevents of epoll_wait
    Closings,   \* the ways a peer may close: "fin" (orderly), "rst" (reset)
    Shared      \* TRUE iff other threads accept from the same listening socket

ASSUME LoopAssumption ==
    /\ Null \notin Posts
    /\ Null \notin Conns
    /\ MaxIn \in Nat \ {0}
    /\ BufSize \in Nat \ {0}
    /\ MaxRoom \in Nat \ {0}
    /\ MaxReply \in Nat
    /\ MaxEvents \in Nat \ {0}
    /\ Closings \subseteq {"fin", "rst"}
    /\ Shared \in BOOLEAN

VARIABLES
    phase,      \* where IoContext::run stands
    taskq,      \* IoContext::m_task_queue
    end,        \* the local variable end of run()
    batch,      \* events of the last epoll_wait not yet handled, per connection
    listenEv,   \* TRUE iff that batch still holds the listening socket's event
    ref,        \* m_ref_count of every PostTask ("free": not allocated)
    owner,      \* the connection of the PostTask's awaiter
    late,       \* awaiters whose m_end_time has passed
    conn,       \* life of the RawConnection
    readAw,     \* m_read_awaiter: the awaiter is named by its PostTask
    sendAw,     \* m_send_awaiter
    sendAt,     \* m_send_at_awaiter
    except,     \* m_except
    left,       \* units of the response still to be sent
    keep,       \* the coroutine reads again after this response
    backlog,    \* connections waiting in the listening socket
    rdl,        \* connections on the epoll ready list
    inbox, fin, rst, room, nospace      \* the kernel's socket

loopVars == <<phase, taskq, end, batch, listenEv>>
postVars == <<ref, owner, late>>
connVars == <<conn, readAw, sendAw, sendAt, except, left, keep>>
sockVars == <<inbox, fin, rst, room, nospace>>
vars == <<loopVars, postVars, connVars, backlog, rdl, sockVars>>

Phases == {"start", "pass", "poll", "events", "stopped", "crashed"}
EvIn == "EPOLLIN"
EvOut == "EPOLLOUT"
Halted == phase \in {"stopped", "crashed"}
Queued == Range(taskq)
Free == {t \in Posts : ref[t] = "free"}
Awaits(c, t) == readAw[c] = t \/ sendAw[c] = t

LoopType ==
    /\ phase \in Phases
    /\ taskq \in Seq(Posts)
    /\ end \in Posts \cup {Null}
    /\ batch \in [Conns -> SUBSET {EvIn, EvOut}]
    /\ listenEv \in BOOLEAN

PostType ==
    /\ ref \in [Posts -> {"free", "live", "dead"}]
    /\ owner \in [Posts -> Conns \cup {Null}]
    /\ late \in SUBSET Posts

ConnType ==
    /\ conn \in [Conns -> {"unborn", "open", "closed"}]
    /\ readAw \in [Conns -> Posts \cup {Null}]
    /\ sendAw \in [Conns -> Posts \cup {Null}]
    /\ sendAt \in [Conns -> BOOLEAN]
    /\ except \in [Conns -> {"none", "send"}]
    /\ left \in [Conns -> 0..MaxReply]
    /\ keep \in [Conns -> BOOLEAN]

SockType ==
    /\ backlog \in Nat
    /\ rdl \in SUBSET Conns
    /\ inbox \in [Conns -> 0..MaxIn]
    /\ fin \in [Conns -> BOOLEAN]
    /\ rst \in [Conns -> BOOLEAN]
    /\ room \in [Conns -> 0..MaxRoom]
    /\ nospace \in [Conns -> BOOLEAN]

\* Every variable has its type; no counter passes its bound.
TypeOK == LoopType /\ PostType /\ ConnType /\ SockType

\* The thread has spawned listen() and is about to enter run().
Init ==
    /\ phase = "start"
    /\ taskq = <<>>
    /\ end = Null
    /\ batch = [c \in Conns |-> {}]
    /\ listenEv = FALSE
    /\ ref = [t \in Posts |-> "free"]
    /\ owner = [t \in Posts |-> Null]
    /\ late = {}
    /\ conn = [c \in Conns |-> "unborn"]
    /\ readAw = [c \in Conns |-> Null]
    /\ sendAw = [c \in Conns |-> Null]
    /\ sendAt = [c \in Conns |-> FALSE]
    /\ except = [c \in Conns |-> "none"]
    /\ left = [c \in Conns |-> 0]
    /\ keep = [c \in Conns |-> FALSE]
    /\ backlog = 0
    /\ rdl = {}
    /\ inbox = [c \in Conns |-> 0]
    /\ fin = [c \in Conns |-> FALSE]
    /\ rst = [c \in Conns |-> FALSE]
    /\ room = [c \in Conns |-> MaxRoom]
    /\ nospace = [c \in Conns |-> FALSE]

-----------------------------------------------------------------------------
(* The kernel and the peers.                                               *)

\* What epoll_wait reports for a socket on its ready list.
Mask(c) ==
    {e \in {EvIn, EvOut} :
        \/ rst[c]
        \/ e = EvIn /\ (inbox[c] > 0 \/ fin[c])
        \/ e = EvOut /\ room[c] > 0}

Socket(c) == conn[c] = "open" /\ ~Halted

PeerConnects ==
    /\ ~Halted
    /\ backlog < Cardinality({c \in Conns : conn[c] = "unborn"})
    /\ backlog' = backlog + 1
    /\ UNCHANGED <<loopVars, postVars, connVars, rdl, sockVars>>

\* Another server thread accepts the connection this thread was told about.
OtherThreadAccepts ==
    /\ Shared /\ ~Halted
    /\ backlog > 0
    /\ backlog' = backlog - 1
    /\ UNCHANGED <<loopVars, postVars, connVars, rdl, sockVars>>

PeerSends(c) ==
    /\ Socket(c) /\ ~fin[c] /\ ~rst[c]
    /\ inbox[c] < MaxIn
    /\ inbox' = [inbox EXCEPT ![c] = @ + 1]
    /\ rdl' = rdl \cup {c}
    /\ UNCHANGED <<loopVars, postVars, connVars, backlog, fin, rst, room, nospace>>

PeerCloses(c) ==
    /\ Socket(c) /\ ~fin[c] /\ ~rst[c]
    /\ \/ "fin" \in Closings /\ fin' = [fin EXCEPT ![c] = TRUE] /\ UNCHANGED rst
       \/ "rst" \in Closings /\ rst' = [rst EXCEPT ![c] = TRUE] /\ UNCHANGED fin
    /\ rdl' = rdl \cup {c}
    /\ UNCHANGED <<loopVars, postVars, connVars, backlog, inbox, room, nospace>>

\* The edge-triggered EPOLLOUT only follows a send or a poll that found no room.
PeerReceives(c) ==
    /\ Socket(c) /\ ~rst[c]
    /\ room[c] < MaxRoom
    /\ room' = [room EXCEPT ![c] = @ + 1]
    /\ rdl' = IF nospace[c] THEN rdl \cup {c} ELSE rdl
    /\ nospace' = [nospace EXCEPT ![c] = FALSE]
    /\ UNCHANGED <<loopVars, postVars, connVars, backlog, inbox, fin, rst>>

\* AsyncIoWaiterBases::expired() turns true.
TimePasses(t) ==
    /\ ~Halted
    /\ ref[t] = "live" /\ t \notin late
    /\ late' = late \cup {t}
    /\ UNCHANGED <<loopVars, ref, owner, connVars, backlog, rdl, sockVars>>

-----------------------------------------------------------------------------
(* Awaiters and their PostTasks.                                           *)

Fresh(used) == CHOOSE t \in Free \ used : TRUE

\* Mutant: the destructor of the awaiter forgets set_ref_count(0).
CountStays(t, made, old, alive) == IF t \in made THEN "live" ELSE ref[t]

\* m_ref_count after awaiters were created and all but alive destroyed.
Count(t, made, old, alive) ==
    IF t \in alive THEN "live"
    ELSE IF t \in made \cup {old} THEN "dead"
    ELSE ref[t]

\* The awaiter old of connection c is destroyed (its PostTask is marked
\* invalid and stays where it is), the awaiters of the PostTasks new are
\* created in this order, and of these only alive is not destroyed again.
Turnover(c, queue, old, new, alive) ==
    LET made == Range(new)
    IN  /\ taskq' = queue \o new
        /\ ref' = [t \in Posts |-> Count(t, made, old, alive)]
        /\ owner' = [t \in Posts |-> IF t \in made THEN c ELSE owner[t]]
        /\ late' = late \ (made \cup {old})

\* Mutant: await_resume of async_read leaves m_read_awaiter set.
SuspendsKeepsReader(c, point, t) ==
    /\ conn' = [conn EXCEPT ![c] = "open"]
    /\ readAw' = [readAw EXCEPT ![c] = IF point = "read" THEN t ELSE @]
    /\ sendAw' = [sendAw EXCEPT ![c] = IF point = "send" THEN t ELSE Null]

\* The coroutine suspends in async_read or in async_send with the awaiter t.
SuspendsIn(c, point, t) ==
    /\ conn' = [conn EXCEPT ![c] = "open"]
    /\ readAw' = [readAw EXCEPT ![c] = IF point = "read" THEN t ELSE Null]
    /\ sendAw' = [sendAw EXCEPT ![c] = IF point = "send" THEN t ELSE Null]

\* Mutant: close() forgets ::close, the socket stays in the epoll set.
StaysReady(c) == rdl

\* ::close takes the socket out of the epoll set.
NotReady(c) == rdl \ {c}

\* Mutant: handle() catches the exception and forgets clear_except().
LeaveExcept(c) == [except EXCEPT ![c] = "send"]

ClearExcept(c) == [except EXCEPT ![c] = "none"]

\* The coroutine ends: co_spawn destroys its frame, the last reference to the
\* RawConnection goes, and close() closes the socket, which leaves the epoll set.
\* Nothing of the connection remains but the m_except its destructor looked at.
Closes(c) ==
    /\ conn' = [conn EXCEPT ![c] = "closed"]
    /\ readAw' = [readAw EXCEPT ![c] = Null]
    /\ sendAw' = [sendAw EXCEPT ![c] = Null]
    /\ sendAt' = [sendAt EXCEPT ![c] = FALSE]
    /\ left' = [left EXCEPT ![c] = 0]
    /\ keep' = [keep EXCEPT ![c] = FALSE]
    /\ rdl' = NotReady(c)
    /\ inbox' = [inbox EXCEPT ![c] = 0]
    /\ fin' = [fin EXCEPT ![c] = FALSE]
    /\ rst' = [rst EXCEPT ![c] = FALSE]
    /\ room' = [room EXCEPT ![c] = MaxRoom]
    /\ nospace' = [nospace EXCEPT ![c] = FALSE]

-----------------------------------------------------------------------------
(* IoContext::run, first half: one call of every task that was queued.     *)

StartPass ==
    /\ phase = "start"
    /\ end' = IF taskq = <<>> THEN Null ELSE taskq[Len(taskq)]
    /\ phase' = IF taskq = <<>> THEN "poll" ELSE "pass"
    /\ UNCHANGED <<taskq, batch, listenEv, postVars, connVars, backlog, rdl, sockVars>>

\* Mutant: the pass goes on until the queue is empty instead of until end.
PassToEmpty == phase' = IF Tail(taskq) = <<>> THEN "poll" ELSE "pass"

PassGoesOn == phase' = IF Head(taskq) = end THEN "poll" ELSE "pass"

\* Mutant: check_deley posts a task that has not expired only once.
NotReposted == Tail(taskq)

\* post_task(): the popped task goes to the end of the queue.
Reposted == Append(Tail(taskq), Head(taskq))

\* Mutant: check_deley deletes the task and posts it again.
PoppedAndPosted == Append(Tail(taskq), Head(taskq))

\* The task is popped and not posted again.
Popped == Tail(taskq)

\* check_deley of a task whose awaiter is gone.
DeleteTask ==
    LET t == Head(taskq)
    IN  /\ phase = "pass" /\ taskq # <<>>
        /\ ref[t] = "dead"
        /\ ref' = [ref EXCEPT ![t] = "free"]
        /\ owner' = [owner EXCEPT ![t] = Null]
        /\ taskq' = Popped
        /\ PassGoesOn
        /\ UNCHANGED <<end, batch, listenEv, late, connVars, backlog, rdl, sockVars>>

\* check_deley of a task whose awaiter still has time.
Repost ==
    LET t == Head(taskq)
    IN  /\ phase = "pass" /\ taskq # <<>>
        /\ ref[t] = "live" /\ t \notin late
        /\ taskq' = Reposted
        /\ PassGoesOn
        /\ UNCHANGED <<end, batch, listenEv, postVars, connVars, backlog, rdl, sockVars>>

\* check_deley of a task whose awaiter has expired: the coroutine resumes with
\* IoTimeOut in m_except, await_resume rethrows it, handle() catches it, clears
\* m_except and returns.  The task is neither queued again nor deleted.
TimeOut ==
    LET t == Head(taskq)
        c == owner[t]
    IN  /\ phase = "pass" /\ taskq # <<>>
        /\ ref[t] = "live" /\ t \in late
        /\ Turnover(c, Popped, t, <<>>, {})
        /\ Closes(c)
        /\ except' = ClearExcept(c)
        /\ PassGoesOn
        /\ UNCHANGED <<end, batch, listenEv, backlog>>

-----------------------------------------------------------------------------
(* IoContext::run, second half: epoll_wait and the callbacks.              *)

Poll ==
    LET ready == {c \in rdl : Mask(c) # {}}
        all == Cardinality(ready) + (IF backlog > 0 THEN 1 ELSE 0)
    IN  /\ phase = "poll"
        /\ \E S \in SUBSET ready, l \in {FALSE, backlog > 0} :
              /\ Cardinality(S) + (IF l THEN 1 ELSE 0)
                     = IF all < MaxEvents THEN all ELSE MaxEvents
              /\ batch' = [c \in Conns |-> IF c \in S THEN Mask(c) ELSE {}]
              /\ listenEv' = l
              /\ rdl' = ready \ S
              /\ nospace' = [c \in Conns |->
                                nospace[c] \/ (c \in rdl /\ room[c] = 0)]
              /\ phase' = IF S # {} \/ l THEN "events" ELSE "start"
        /\ end' = Null
        /\ UNCHANGED <<taskq, postVars, connVars, backlog, inbox, fin, rst, room>>

\* The callback returns to run(), or run() is over.
Returns(b, l) ==
    /\ batch' = b
    /\ listenEv' = l
    /\ phase' = IF l \/ \E d \in Conns : b[d] # {} THEN "events" ELSE "start"

Stops(how) ==
    /\ batch' = [d \in Conns |-> {}]
    /\ listenEv' = FALSE
    /\ phase' = how

\* AcceptorCallback::on_callback, then listen(): accept() succeeds, the new
\* connection is registered with epoll, its coroutine runs to its first
\* async_read, and listen() awaits the next connection.  With no connection
\* left in the backlog accept() blocks: the listening socket is a blocking one.
Accept(c) ==
    /\ phase = "events" /\ listenEv
    /\ backlog > 0 /\ conn[c] = "unborn"
    /\ Free # {}
    /\ backlog' = backlog - 1
    /\ LET t == Fresh({})
       IN  Turnover(c, taskq, Null, <<t>>, {t}) /\ SuspendsIn(c, "read", t)
    /\ rdl' = rdl \cup {c}
    /\ Returns(batch, FALSE)
    /\ UNCHANGED <<end, sendAt, except, left, keep, sockVars>>

\* accept() fails for another reason: await_resume throws, nothing in listen()
\* or run() catches it, and the thread ends in Server::Serve.
AcceptFails ==
    /\ phase = "events" /\ listenEv
    /\ backlog > 0
    /\ backlog' = backlog - 1
    /\ Stops("stopped")
    /\ UNCHANGED <<taskq, end, postVars, connVars, rdl, sockVars>>

\* The lines of ConnCallBack::on_callback that follow the resume of the read
\* coroutine, which now stands at point.  The callback captured
\* m_send_awaiter before the resume, when it was null.  If the connection is
\* gone the callback reads freed memory: it finds the null left there, or traps.
AfterRead(c, point) ==
    LET b == [batch EXCEPT ![c] = {}]
    IN  \/ EvOut \notin batch[c] /\ Returns(b, listenEv)
        \/ EvOut \in batch[c] /\ point \in {"read", "gone"} /\ Returns(b, listenEv)
        \/ EvOut \in batch[c] /\ point \in {"send", "gone"} /\ Stops("crashed")

Reading(c) == phase = "events" /\ EvIn \in batch[c] /\ readAw[c] # Null

\* Mutant: recv does not notice that the buffer is full.
RecvThrowsOnReset(c) == rst[c]

\* What netcore::recv makes of the socket: it reads until EAGAIN, ::recv returns
\* 0 at the end of the stream and when no room is left in the buffer.
RecvThrows(c) == rst[c] \/ inbox[c] >= BufSize
RecvZero(c) == ~RecvThrows(c) /\ (fin[c] \/ inbox[c] = 0 \/ inbox[c] >= BufSize)
RecvData(c) == ~RecvThrows(c) /\ ~RecvZero(c)

\* Mutant: recv calls ::recv once instead of until EAGAIN.
ReadOnce(c) == [inbox EXCEPT ![c] = @ - 1]

Drained(c) == [inbox EXCEPT ![c] = 0]

\* handle() leaves without an answer: async_read threw or returned 0, or
\* update_size found the request too large.
ReadEnds(c) ==
    /\ Reading(c)
    /\ Turnover(c, taskq, readAw[c], <<>>, {})
    /\ Closes(c)
    /\ except' = IF RecvThrows(c) THEN ClearExcept(c) ELSE except
    /\ AfterRead(c, "gone")
    /\ UNCHANGED <<end, backlog>>

\* process() answers need_read: the next async_read.
NeedRead(c) ==
    /\ Reading(c) /\ RecvData(c)
    /\ Free # {}
    /\ LET t == Fresh({})
       IN  Turnover(c, taskq, readAw[c], <<t>>, {t}) /\ SuspendsIn(c, "read", t)
    /\ inbox' = Drained(c)
    /\ sendAt' = [sendAt EXCEPT ![c] = @ \/ EvOut \in batch[c]]
    /\ AfterRead(c, "read")
    /\ UNCHANGED <<end, except, left, keep, backlog, rdl, fin, rst, room, nospace>>

\* process() has built a response of len units; async_send tries to send it in
\* await_suspend iff m_send_at_awaiter says the socket was last seen writable.
CanSend(c) == sendAt[c] \/ EvOut \in batch[c]

Replying(c) ==
    /\ Reading(c) /\ RecvData(c)
    /\ Free # {}
    /\ UNCHANGED <<end, except, backlog>>

\* The whole response goes out: the coroutine reads again (need_write_then_read)
\* or ends (need_write).
ReplySent(c, len, again) ==
    LET s == Fresh({})
        r == Fresh({s})
    IN  /\ Replying(c) /\ CanSend(c)
        /\ len <= room[c]
        /\ IF again
           THEN /\ Free \ {s} # {}
                /\ Turnover(c, taskq, readAw[c], <<s, r>>, {r})
                /\ SuspendsIn(c, "read", r)
                /\ AfterRead(c, "read")
                /\ sendAt' = [sendAt EXCEPT ![c] = TRUE]
                /\ inbox' = Drained(c)
                /\ room' = [room EXCEPT ![c] = @ - len]
                /\ UNCHANGED <<left, keep, rdl, fin, rst, nospace>>
           ELSE /\ Turnover(c, taskq, readAw[c], <<s>>, {})
                /\ Closes(c)
                /\ AfterRead(c, "gone")

\* The peer resets the connection after recv: async_send throws SendError,
\* handle() catches it and returns.
ReplyFails(c, len) ==
    LET s == Fresh({})
    IN  /\ Replying(c) /\ CanSend(c)
        /\ len > 0
        /\ Turnover(c, taskq, readAw[c], <<s>>, {})
        /\ Closes(c)
        /\ AfterRead(c, "gone")

\* Only a part goes out, or nothing may be tried: the coroutine suspends.
ReplyWaits(c, len, again) ==
    LET s == Fresh({})
        now == IF CanSend(c) THEN room[c] ELSE 0
    IN  /\ Replying(c)
        /\ CanSend(c) => len > room[c]
        /\ Turnover(c, taskq, readAw[c], <<s>>, {s})
        /\ SuspendsIn(c, "send", s)
        /\ left' = [left EXCEPT ![c] = len - now]
        /\ keep' = [keep EXCEPT ![c] = again]
        /\ room' = [room EXCEPT ![c] = @ - now]
        /\ nospace' = [nospace EXCEPT ![c] = @ \/ CanSend(c)]
        /\ sendAt' = [sendAt EXCEPT ![c] = CanSend(c)]
        /\ inbox' = Drained(c)
        /\ AfterRead(c, "send")
        /\ UNCHANGED <<rdl, fin, rst>>

\* EPOLLIN while the coroutine waits in async_send: recv_awaiter is null.
ReadTraps(c) ==
    /\ phase = "events" /\ EvIn \in batch[c] /\ readAw[c] = Null
    /\ Stops("crashed")
    /\ UNCHANGED <<taskq, end, postVars, connVars, backlog, rdl, sockVars>>

\* EPOLLOUT alone, no send awaiter: the next async_send may try at once.
NoteWritable(c) ==
    /\ phase = "events" /\ batch[c] = {EvOut}
    /\ sendAw[c] = Null
    /\ sendAt' = [sendAt EXCEPT ![c] = TRUE]
    /\ Returns([batch EXCEPT ![c] = {}], listenEv)
    /\ UNCHANGED <<taskq, end, postVars, conn, readAw, sendAw, except, left, keep,
                   backlog, rdl, sockVars>>

Sending(c) ==
    /\ phase = "events" /\ batch[c] = {EvOut}
    /\ sendAw[c] # Null
    /\ Returns([batch EXCEPT ![c] = {}], listenEv)
    /\ UNCHANGED <<end, backlog>>

\* "try again latter": the awaiter stays, and so does an exception send() threw.
SendWaits(c) ==
    /\ Sending(c)
    /\ sendAt' = [sendAt EXCEPT ![c] = FALSE]
    /\ IF rst[c]
       THEN /\ left[c] > 0
            /\ except' = [except EXCEPT ![c] = "send"]
            /\ UNCHANGED <<left, room, nospace>>
       ELSE /\ left[c] > room[c]
            /\ left' = [left EXCEPT ![c] = @ - room[c]]
            /\ room' = [room EXCEPT ![c] = 0]
            /\ nospace' = [nospace EXCEPT ![c] = TRUE]
            /\ UNCHANGED except
    /\ UNCHANGED <<taskq, postVars, conn, readAw, sendAw, keep, rdl, inbox, fin, rst>>

\* The rest goes out and finised() holds.
Finished(c) == left[c] = 0 \/ (~rst[c] /\ left[c] <= room[c])

\* The coroutine of async_send resumes.
SendDone(c) ==
    LET t == Fresh({})
    IN  /\ Sending(c)
        /\ Finished(c)
        /\ IF keep[c] /\ except[c] = "none"
           THEN /\ Free # {}
                /\ Turnover(c, taskq, sendAw[c], <<t>>, {t})
                /\ SuspendsIn(c, "read", t)
                /\ sendAt' = [sendAt EXCEPT ![c] = FALSE]
                /\ left' = [left EXCEPT ![c] = 0]
                /\ keep' = [keep EXCEPT ![c] = FALSE]
                /\ room' = [room EXCEPT ![c] = @ - left[c]]
                /\ UNCHANGED <<except, rdl, inbox, fin, rst, nospace>>
           ELSE /\ Turnover(c, taskq, sendAw[c], <<>>, {})
                /\ Closes(c)
                /\ except' = ClearExcept(c)

-----------------------------------------------------------------------------
Callback(c) ==
    \/ ReadEnds(c) \/ NeedRead(c) \/ ReadTraps(c)
    \/ \E len \in 0..MaxReply, again \in BOOLEAN :
          ReplySent(c, len, again) \/ ReplyWaits(c, len, again)
    \/ \E len \in 0..MaxReply : ReplyFails(c, len)
    \/ NoteWritable(c) \/ SendWaits(c) \/ SendDone(c)

Loop ==
    \/ StartPass \/ DeleteTask \/ Repost \/ TimeOut
    \/ Poll
    \/ AcceptFails
    \/ \E c \in Conns : Accept(c) \/ Callback(c)

Kernel ==
    \/ PeerConnects \/ OtherThreadAccepts
    \/ \E c \in Conns : PeerSends(c) \/ PeerCloses(c) \/ PeerReceives(c)
    \/ \E t \in Posts : TimePasses(t)

Over == Halted /\ UNCHANGED vars

Next == Loop \/ Kernel \/ Over

Spec == Init /\ [][Next]_vars

\* The thread keeps running and the clock keeps going; peers promise nothing.
Fairness == WF_vars(Loop) /\ \A t \in Posts : WF_vars(TimePasses(t))

FairSpec == Spec /\ Fairness

\* The same with a thread that never starves, for the thread blocked in accept().
StrongFairSpec == FairSpec /\ SF_vars(Loop)

-----------------------------------------------------------------------------
(* What the thread must keep true.                                         *)

\* The task queue is an intrusive list: no PostTask is in it twice, and none
\* that is in it has been deleted.
QueueSound ==
    /\ IsInjective(taskq)
    /\ \A t \in Queued : ref[t] # "free"

\* run() pops tasks until it meets end; end is still queued, so the pass never
\* runs off the list, however the called tasks change the queue.
EndIsQueued == phase = "pass" => end \in Queued

\* check_deley follows m_awaiter_ptr of a task whose count is not 0: that awaiter
\* is still the one its connection waits on.
NoDanglingTask ==
    \A t \in Queued : ref[t] = "live" =>
        /\ owner[t] \in Conns
        /\ conn[owner[t]] = "open"
        /\ Awaits(owner[t], t)

\* Every suspended async_read or async_send has its PostTask in the queue, so the
\* next pass checks it for a timeout.
EveryAwaitWatched ==
    \A c \in Conns : conn[c] = "open" =>
        \E t \in Queued : ref[t] = "live" /\ owner[t] = c /\ Awaits(c, t)

\* A connection waits in async_read or in async_send, never in both, and a
\* destroyed one in neither (close() has no coroutine left to resume).
OneAwaiter ==
    \A c \in Conns :
        IF conn[c] = "open" THEN (readAw[c] = Null) # (sendAw[c] = Null)
                            ELSE readAw[c] = Null /\ sendAw[c] = Null

\* ~RawConnection rethrows m_except, and would end the process: it is always
\* clear when the connection is destroyed.
CleanDestroy == \A c \in Conns : conn[c] = "closed" => except[c] = "none"

\* Events of one epoll_wait are only delivered to connections that still exist,
\* although the callbacks in between destroy connections.
EventsHaveTarget == \A c \in Conns : batch[c] # {} => conn[c] = "open"

\* With edge-triggered epoll no wakeup is lost: a coroutine that waits for data
\* that is there, or for room that is there, has an event on its way.
NoLostEdge ==
    ~Halted => \A c \in Conns : conn[c] = "open" =>
        /\ readAw[c] # Null /\ EvIn \in Mask(c) => c \in rdl \/ EvIn \in batch[c]
        /\ sendAw[c] # Null /\ EvOut \in Mask(c) => c \in rdl \/ EvOut \in batch[c]

\* async_read returns 0 only when the peer has closed ("retvalue=0").
ZeroMeansClosed ==
    \A c \in Conns : Reading(c) /\ RecvZero(c) => fin[c]

\* Every co_await of async_read or async_send ends, by an event or by its
\* timeout, as long as the thread lives.
AwaitEnds ==
    \A c \in Conns, t \in Posts : Awaits(c, t) ~> (~Awaits(c, t) \/ Halted)

\* A response that was only partly sent is tried again later: the thread
\* survives to do so.
PartialSendSurvives ==
    phase = "crashed" => \A c \in Conns : sendAw[c] = Null
=============================================================================
