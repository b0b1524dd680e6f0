-------------------------- MODULE EventLoopProofs --------------------------
(***************************************************************************)
(* The inductive invariant of EventLoop, for any number of connections and *)
(* PostTasks, what a change of awaiter does to it, and that every step of  *)
(* the kernel, of IoContext::run and of the callbacks keeps it; then what  *)
(* follows from it, and that no edge of epoll is lost.                     *)
(***************************************************************************)
EXTENDS EventLoop, TLAPS

-----------------------------------------------------------------------------
(* Sequences as queues of distinct elements.                               *)

\* Popping a task takes exactly that task out of the queue.
LEMMA RangeOfTail ==
    ASSUME NEW S, NEW q \in Seq(S), q # <<>>, IsInjective(q)
    PROVE  /\ Tail(q) \in Seq(S)
           /\ IsInjective(Tail(q))
           /\ Head(q) \in Range(q)
           /\ Range(Tail(q)) = Range(q) \ {Head(q)}
<1>1. /\ Tail(q) \in Seq(S) /\ Len(q) \in Nat /\ Len(q) > 0
      /\ Len(Tail(q)) = Len(q) - 1
      /\ DOMAIN q = 1..Len(q) /\ DOMAIN Tail(q) = 1..Len(Tail(q))
      /\ \A i \in 1..Len(Tail(q)) : Tail(q)[i] = q[i + 1]
      /\ Head(q) = q[1]
  OBVIOUS
<1>2. IsInjective(Tail(q))
  BY <1>1 DEF IsInjective
<1>3. Head(q) \in Range(q)
  BY <1>1 DEF Range
<1>4. ASSUME NEW x \in Range(Tail(q)) PROVE x \in Range(q) \ {Head(q)}
  <2>1. PICK i \in 1..Len(Tail(q)) : x = q[i + 1]
    BY <1>1, <1>4, Zenon DEF Range
  <2>2. i + 1 \in 1..Len(q) /\ i + 1 # 1 /\ 1 \in 1..Len(q)
    BY <1>1
  <2>3. QED
    BY <1>1, <2>1, <2>2, Zenon DEF Range, IsInjective
<1>5. ASSUME NEW x \in Range(q) \ {Head(q)} PROVE x \in Range(Tail(q))
  <2>1. PICK i \in 1..Len(q) : x = q[i]
    BY <1>1, <1>5, Zenon DEF Range
  <2>2. i # 1
    BY <1>1, <2>1, Zenon
  <2>3. i - 1 \in 1..Len(Tail(q)) /\ Tail(q)[i - 1] = q[(i - 1) + 1] /\ (i - 1) + 1 = i
    BY <1>1, <2>2
  <2>4. QED
    BY <1>1, <2>1, <2>3, Zenon DEF Range
<1>6. QED
  BY <1>1, <1>2, <1>3, <1>4, <1>5, Zenon

\* Queueing new tasks behind the old ones keeps every task once.
LEMMA RangeOfConcat ==
    ASSUME NEW S, NEW q \in Seq(S), NEW n \in Seq(S),
           IsInjective(q), IsInjective(n), Range(q) \cap Range(n) = {}
    PROVE  /\ q \o n \in Seq(S)
           /\ IsInjective(q \o n)
           /\ Range(q \o n) = Range(q) \cup Range(n)
<1>1. /\ q \o n \in Seq(S) /\ Len(q) \in Nat /\ Len(n) \in Nat
      /\ Len(q \o n) = Len(q) + Len(n)
      /\ DOMAIN q = 1..Len(q) /\ DOMAIN n = 1..Len(n)
      /\ DOMAIN (q \o n) = 1..(Len(q) + Len(n))
      /\ \A i \in 1..(Len(q) + Len(n)) :
            (q \o n)[i] = IF i <= Len(q) THEN q[i] ELSE n[i - Len(q)]
  OBVIOUS
<1>2. Range(q \o n) = Range(q) \cup Range(n)
  <2>1. ASSUME NEW x \in Range(q \o n)
        PROVE  x \in Range(q) \cup Range(n)
    <3>1. PICK i \in 1..(Len(q) + Len(n)) : x = (q \o n)[i]
      BY <1>1, <2>1, Zenon DEF Range
    <3>2. CASE i <= Len(q)
      BY <1>1, <3>1, <3>2 DEF Range
    <3>3. CASE i > Len(q)
      <4>1. i - Len(q) \in DOMAIN n /\ x = n[i - Len(q)]
        BY <1>1, <3>1, <3>3
      <4>2. QED
        BY <4>1, Zenon DEF Range
    <3>4. QED
      BY <1>1, <3>2, <3>3
  <2>2. ASSUME NEW i \in DOMAIN q
        PROVE  q[i] \in Range(q \o n)
    <3>1. i \in DOMAIN (q \o n) /\ (q \o n)[i] = q[i]
      BY <1>1
    <3>2. QED
      BY <3>1, Zenon DEF Range
  <2>3. ASSUME NEW i \in DOMAIN n
        PROVE  n[i] \in Range(q \o n)
    <3>1. i + Len(q) \in DOMAIN (q \o n) /\ (q \o n)[i + Len(q)] = n[i]
      BY <1>1
    <3>2. QED
      BY <3>1, Zenon DEF Range
  <2>4. QED
    BY <2>1, <2>2, <2>3, ZenonT(60) DEF Range
<1>3. ASSUME NEW i \in 1..(Len(q) + Len(n)), NEW j \in 1..(Len(q) + Len(n)),
             (q \o n)[i] = (q \o n)[j]
      PROVE  i = j
  <2>1. CASE i <= Len(q) /\ j <= Len(q)
    BY <1>1, <1>3, <2>1 DEF IsInjective
  <2>2. CASE i > Len(q) /\ j > Len(q)
    BY <1>1, <1>3, <2>2, SMTT(30) DEF IsInjective
  <2>3. CASE i <= Len(q) /\ j > Len(q)
    <3>1. i \in DOMAIN q /\ j - Len(q) \in DOMAIN n
      BY <1>1, <2>3
    <3>2. q[i] \in Range(q) /\ n[j - Len(q)] \in Range(n)
      BY <3>1, Zenon DEF Range
    <3>3. QED
      BY <1>1, <1>3, <2>3, <3>2
  <2>4. CASE i > Len(q) /\ j <= Len(q)
    <3>1. j \in DOMAIN q /\ i - Len(q) \in DOMAIN n
      BY <1>1, <2>4
    <3>2. q[j] \in Range(q) /\ n[i - Len(q)] \in Range(n)
      BY <3>1, Zenon DEF Range
    <3>3. QED
      BY <1>1, <1>3, <2>4, <3>2
  <2>5. QED
    BY <1>1, <2>1, <2>2, <2>3, <2>4
<1>4. QED
  BY <1>1, <1>2, <1>3, Zenon DEF IsInjective

\* The sequences of new PostTasks that Turnover is given.
LEMMA ShortSeqs ==
    ASSUME NEW S, NEW s \in S, NEW r \in S, s # r
    PROVE  /\ <<>> \in Seq(S) /\ IsInjective(<<>>) /\ Range(<<>>) = {}
           /\ <<s>> \in Seq(S) /\ IsInjective(<<s>>) /\ Range(<<s>>) = {s}
           /\ <<s, r>> \in Seq(S) /\ IsInjective(<<s, r>>) /\ Range(<<s, r>>) = {s, r}
  BY DEF IsInjective, Range

-----------------------------------------------------------------------------
(* The inductive invariant.                                                *)

\* A PostTask that counts an awaiter belongs to the awaiter a live connection
\* waits on.
LiveIsAwaited ==
    \A t \in Posts : ref[t] = "live" =>
        /\ owner[t] \in Conns
        /\ conn[owner[t]] = "open"
        /\ Awaits(owner[t], t)

\* The awaiter a connection waits on has its PostTask queued and counted.
AwaitIsQueued ==
    \A c \in Conns, t \in Posts : Awaits(c, t) =>
        /\ conn[c] = "open"
        /\ t \in Queued
        /\ ref[t] = "live"
        /\ owner[t] = c

\* Only open connections are on the epoll ready list or in the batch, and there
\* is no batch but while its callbacks run.
ReadyIsOpen ==
    /\ \A c \in rdl : conn[c] = "open"
    /\ phase # "events" => \A c \in Conns : batch[c] = {}

\* An exception is stored across steps only while async_send waits.
ExceptIsSending == \A c \in Conns : except[c] # "none" => sendAw[c] # Null

\* Queue, tasks and awaiters agree.
TaskInv ==
    /\ QueueSound
    /\ LiveIsAwaited
    /\ AwaitIsQueued
    /\ OneAwaiter

\* The inductive invariant of the server thread.
IInv ==
    /\ TypeOK
    /\ TaskInv
    /\ EndIsQueued
    /\ EventsHaveTarget
    /\ ReadyIsOpen
    /\ ExceptIsSending

USE LoopAssumption

\* The invariant holds when the thread enters run().
LEMMA InitIInv == Init => IInv
<1> SUFFICES ASSUME Init PROVE IInv
  BY Zenon
<1>1. LoopType
  <2>1. batch \in [Conns -> SUBSET {EvIn, EvOut}]
    BY Zenon DEF Init
  <2>2. taskq \in Seq(Posts)
    BY DEF Init
  <2>3. QED
    BY <2>1, <2>2, Zenon DEF Init, LoopType, Phases
<1>2. PostType
  BY Zenon DEF Init, PostType
<1>3. ConnType
  BY DEF Init, ConnType
<1>4. SockType
  BY DEF Init, SockType
<1>5. Range(taskq) = {} /\ IsInjective(taskq)
  BY DEF Init, Range, IsInjective
<1>6. TaskInv
  BY <1>5, Zenon DEF Init, TaskInv, QueueSound, LiveIsAwaited, AwaitIsQueued, OneAwaiter,
              Queued, Awaits
<1>7. EndIsQueued /\ EventsHaveTarget /\ ReadyIsOpen /\ ExceptIsSending
  BY Zenon DEF Init, EndIsQueued, EventsHaveTarget, ReadyIsOpen, ExceptIsSending
<1>8. QED
  BY <1>1, <1>2, <1>3, <1>4, <1>6, <1>7, Zenon DEF IInv, TypeOK

-----------------------------------------------------------------------------
(* The queue and the awaiters across a change of awaiter.                  *)

\* What is queued is a PostTask.
LEMMA QueuedArePosts ==
    ASSUME taskq \in Seq(Posts)
    PROVE  Queued \subseteq Posts
  BY DEF Queued, Range

\* A connection's awaiter is replaced by a fresh one.
LEMMA TurnToAwaiter ==
    ASSUME PostType, ConnType, taskq \in Seq(Posts), TaskInv, NEW c \in Conns,
           NEW new \in Seq(Posts), IsInjective(new), Range(new) \subseteq Free,
           NEW t \in Range(new),
           NEW old \in Posts \cup {Null},
           old # Null => Awaits(c, old),
           old = Null => conn[c] # "open",
           NEW point \in {"read", "send"},
           Turnover(c, taskq, old, new, {t}),
           SuspendsIn(c, point, t)
    PROVE  TaskInv'
<1>1. t \in Posts /\ t # Null /\ Range(new) \subseteq Posts
  BY Zenon DEF Free
<1>2. Range(taskq) \cap Range(new) = {} /\ IsInjective(taskq)
  BY Zenon DEF TaskInv, QueueSound, Queued, Free
<1>3. taskq' = taskq \o new /\ IsInjective(taskq') /\ Queued' = Queued \cup Range(new)
  BY <1>2, RangeOfConcat DEF Turnover, Count, Queued
<1>4. \A u \in Posts : ref'[u] = IF u = t THEN "live"
                                 ELSE IF u \in Range(new) \/ u = old THEN "dead"
                                 ELSE ref[u]
  BY Zenon DEF Turnover, Count
<1>5. \A u \in Posts : owner'[u] = IF u \in Range(new) THEN c ELSE owner[u]
  BY Zenon DEF Turnover, Count
<1>6. \A d \in Conns : /\ conn'[d] = IF d = c THEN "open" ELSE conn[d]
                       /\ d # c => readAw'[d] = readAw[d] /\ sendAw'[d] = sendAw[d]
  BY Zenon DEF SuspendsIn, ConnType
<1>7. \/ readAw'[c] = t /\ sendAw'[c] = Null
      \/ readAw'[c] = Null /\ sendAw'[c] = t
  BY Zenon DEF SuspendsIn, ConnType
<1>8. \A u \in Posts : Awaits(c, u) => u = old
  BY <1>1 DEF TaskInv, OneAwaiter, AwaitIsQueued, Awaits
<1>9. QueueSound'
  <2>1. \A u \in Queued : u \in Posts /\ ref[u] # "free"
    BY QueuedArePosts, Zenon DEF TaskInv, QueueSound
  <2>2. \A u \in Queued' : u \in Posts /\ ref'[u] # "free"
    BY <1>1, <1>3, <1>4, <2>1, Zenon
  <2>3. QED
    BY <1>3, <2>2, Zenon DEF QueueSound
<1>10. LiveIsAwaited'
  <2> SUFFICES ASSUME NEW u \in Posts, ref'[u] = "live"
               PROVE  owner'[u] \in Conns /\ conn'[owner'[u]] = "open"
                      /\ (readAw'[owner'[u]] = u \/ sendAw'[owner'[u]] = u)
    BY Zenon DEF LiveIsAwaited, Awaits
  <2>1. CASE u = t
    BY <1>1, <1>5, <1>6, <1>7, <2>1
  <2>2. CASE u # t
    <3>1. u \notin Range(new) /\ u # old /\ ref[u] = "live" /\ owner'[u] = owner[u]
      BY <1>4, <1>5, <2>2, Zenon
    <3>2. owner[u] \in Conns /\ conn[owner[u]] = "open" /\ Awaits(owner[u], u)
      BY <3>1, Zenon DEF TaskInv, LiveIsAwaited
    <3>3. owner[u] # c
      BY <1>8, <3>1, <3>2, Zenon
    <3>4. QED
      BY <1>6, <3>1, <3>2, <3>3 DEF Awaits
  <2>3. QED
    BY <2>1, <2>2, Zenon
<1>11. AwaitIsQueued'
  <2> SUFFICES ASSUME NEW d \in Conns, NEW u \in Posts, readAw'[d] = u \/ sendAw'[d] = u
               PROVE  conn'[d] = "open" /\ u \in Queued' /\ ref'[u] = "live" /\ owner'[u] = d
    BY DEF AwaitIsQueued, Awaits
  <2>1. CASE d = c
    <3>1. u = t
      BY <1>1, <1>7, <2>1, Zenon
    <3>2. QED
      BY <1>3, <1>4, <1>5, <1>6, <2>1, <3>1, Zenon
  <2>2. CASE d # c
    <3>1. conn[d] = "open" /\ u \in Queued /\ ref[u] = "live" /\ owner[u] = d
      BY <1>6, <2>2 DEF TaskInv, AwaitIsQueued, Awaits
    <3>2. u \notin Range(new) /\ u # t
      BY <3>1, Zenon DEF Free
    <3>3. u # old
      BY <1>1, <2>2, <3>1 DEF TaskInv, AwaitIsQueued
    <3>4. QED
      BY <1>3, <1>4, <1>5, <1>6, <2>2, <3>1, <3>2, <3>3, SMTT(30)
  <2>3. QED
    BY <2>1, <2>2, Zenon
<1>12. OneAwaiter'
  BY <1>1, <1>6, <1>7 DEF TaskInv, OneAwaiter
<1>13. QED
  BY <1>9, <1>10, <1>11, <1>12, Zenon DEF TaskInv

\* A connection's awaiter goes and the connection is closed.
LEMMA TurnToClosed ==
    ASSUME PostType, ConnType, taskq \in Seq(Posts), TaskInv, NEW c \in Conns,
           NEW old \in Posts, Awaits(c, old),
           NEW q \in Seq(Posts), IsInjective(q),
           Range(q) \subseteq Queued, Queued \ {old} \subseteq Range(q),
           NEW new \in Seq(Posts), IsInjective(new), Range(new) \subseteq Free,
           Turnover(c, q, old, new, {}),
           Closes(c)
    PROVE  TaskInv'
<1>1. old # Null /\ Range(new) \subseteq Posts
  BY Zenon DEF Free
<1>2. Range(q) \cap Range(new) = {}
  BY Zenon DEF TaskInv, QueueSound, Free
<1>3. IsInjective(taskq') /\ Queued' = Range(q) \cup Range(new)
  BY <1>2, RangeOfConcat DEF Turnover, Count, Queued
<1>4. \A u \in Posts : ref'[u] = IF u \in Range(new) \/ u = old THEN "dead" ELSE ref[u]
  BY Zenon DEF Turnover, Count
<1>5. \A u \in Posts : owner'[u] = IF u \in Range(new) THEN c ELSE owner[u]
  BY Zenon DEF Turnover, Count
<1>6. \A d \in Conns : /\ conn'[d] = IF d = c THEN "closed" ELSE conn[d]
                       /\ d # c => readAw'[d] = readAw[d] /\ sendAw'[d] = sendAw[d]
  BY DEF Closes, NotReady, ConnType
<1>7. readAw'[c] = Null /\ sendAw'[c] = Null
  BY Zenon DEF Closes, NotReady, ConnType
<1>8. \A u \in Posts : Awaits(c, u) => u = old
  BY <1>1 DEF TaskInv, OneAwaiter, AwaitIsQueued, Awaits
<1>9. QueueSound'
  <2>1. \A u \in Queued : u \in Posts /\ ref[u] # "free"
    BY QueuedArePosts, Zenon DEF TaskInv, QueueSound
  <2>2. \A u \in Queued' : u \in Posts /\ ref'[u] # "free"
    BY <1>1, <1>3, <1>4, <2>1, ZenonT(60)
  <2>3. QED
    BY <1>3, <2>2, Zenon DEF QueueSound
<1>10. LiveIsAwaited'
  <2> SUFFICES ASSUME NEW u \in Posts, ref'[u] = "live"
               PROVE  owner'[u] \in Conns /\ conn'[owner'[u]] = "open"
                      /\ (readAw'[owner'[u]] = u \/ sendAw'[owner'[u]] = u)
    BY Zenon DEF LiveIsAwaited, Awaits
  <2>1. u \notin Range(new) /\ u # old /\ ref[u] = "live" /\ owner'[u] = owner[u]
    BY <1>4, <1>5, Zenon
  <2>2. owner[u] \in Conns /\ conn[owner[u]] = "open" /\ Awaits(owner[u], u)
    BY <2>1, Zenon DEF TaskInv, LiveIsAwaited
  <2>3. owner[u] # c
    BY <1>8, <2>1, <2>2, Zenon
  <2>4. QED
    BY <1>6, <2>1, <2>2, <2>3 DEF Awaits
<1>11. AwaitIsQueued'
  <2> SUFFICES ASSUME NEW d \in Conns, NEW u \in Posts, readAw'[d] = u \/ sendAw'[d] = u
               PROVE  conn'[d] = "open" /\ u \in Queued' /\ ref'[u] = "live" /\ owner'[u] = d
    BY DEF AwaitIsQueued, Awaits
  <2>1. d # c
    BY <1>7, Zenon
  <2>2. conn[d] = "open" /\ u \in Queued /\ ref[u] = "live" /\ owner[u] = d
    BY <1>6, <2>1 DEF TaskInv, AwaitIsQueued, Awaits
  <2>3. u \notin Range(new)
    BY <2>2, Zenon DEF Free
  <2>4. u # old
    BY <2>1, <2>2, SMTT(30) DEF TaskInv, AwaitIsQueued
  <2>5. QED
    BY <1>3, <1>4, <1>5, <1>6, <2>1, <2>2, <2>3, <2>4, Zenon
<1>12. OneAwaiter'
  BY <1>6, <1>7 DEF TaskInv, OneAwaiter
<1>13. QED
  BY <1>9, <1>10, <1>11, <1>12, Zenon DEF TaskInv

\* A step that leaves tasks and awaiters alone keeps their invariant.
LEMMA SameTasks ==
    ASSUME TaskInv, UNCHANGED <<taskq, ref, owner, conn, readAw, sendAw>>
    PROVE  TaskInv'
  BY DEF TaskInv, QueueSound, LiveIsAwaited, AwaitIsQueued, OneAwaiter, Queued, Awaits

\* Turnover keeps the types of queue and tasks.
LEMMA TurnTypes ==
    ASSUME PostType, NEW c \in Conns, NEW q \in Seq(Posts), NEW new \in Seq(Posts),
           NEW old, NEW alive, Turnover(c, q, old, new, alive)
    PROVE  PostType' /\ taskq' \in Seq(Posts)
<1>1. taskq' \in Seq(Posts)
  BY DEF Turnover, Count
<1>2. PostType'
  BY Zenon DEF Turnover, Count, PostType
<1>3. QED
  BY <1>1, <1>2, Zenon

\* Closes keeps the types of connection and socket.
LEMMA CloseTypes ==
    ASSUME ConnType, SockType, NEW c \in Conns, Closes(c),
           except' \in [Conns -> {"none", "send"}], backlog' \in Nat
    PROVE  ConnType' /\ SockType'
<1>1. ConnType'
  <2>1. /\ conn' \in [Conns -> {"unborn", "open", "closed"}]
        /\ readAw' \in [Conns -> Posts \cup {Null}]
        /\ sendAw' \in [Conns -> Posts \cup {Null}]
    BY Zenon DEF ConnType, Closes, NotReady
  <2>2. /\ sendAt' \in [Conns -> BOOLEAN]
        /\ left' \in [Conns -> 0..MaxReply]
        /\ keep' \in [Conns -> BOOLEAN]
    BY DEF ConnType, Closes, NotReady
  <2>3. QED
    BY <2>1, <2>2, Zenon DEF ConnType
<1>2. SockType'
  BY DEF SockType, Closes, NotReady
<1>3. QED
  BY <1>1, <1>2, Zenon

\* The end of a callback: the batch loses the connection's event, or the run is
\* over; no other connection is closed.
LEMMA BatchShrinks ==
    ASSUME LoopType, EventsHaveTarget, NEW c \in Conns, NEW point,
           \/ AfterRead(c, point)
           \/ Returns([batch EXCEPT ![c] = {}], listenEv)
           \/ Stops("crashed"),
           \A d \in Conns : d # c => conn'[d] = conn[d]
    PROVE  /\ phase' \in Phases \ {"pass"}
           /\ batch' \in [Conns -> SUBSET {EvIn, EvOut}]
           /\ listenEv' \in BOOLEAN
           /\ EventsHaveTarget'
           /\ phase' # "events" => \A d \in Conns : batch'[d] = {}
<1>1. CASE Returns([batch EXCEPT ![c] = {}], listenEv)
  BY <1>1, Zenon DEF Returns, LoopType, EventsHaveTarget, Phases
<1>2. CASE Stops("crashed")
  BY <1>2, Zenon DEF Stops, LoopType, EventsHaveTarget, Phases
<1>3. QED
  BY <1>1, <1>2, Zenon DEF AfterRead

-----------------------------------------------------------------------------
(* The steps of the kernel and of IoContext::run.                          *)

\* What the kernel, the peers and the clock do keeps the invariant.
LEMMA KernelStep ==
    ASSUME IInv, Kernel
    PROVE  IInv'
<1>1. /\ UNCHANGED <<loopVars, ref, owner, connVars>>
      /\ late' \in SUBSET Posts
      /\ SockType'
      /\ \A d \in rdl' : d \in rdl \/ conn[d] = "open"
  <2>1. CASE PeerConnects
    BY <2>1 DEF PeerConnects, IInv, TypeOK, SockType, PostType, postVars, sockVars
  <2>2. CASE OtherThreadAccepts
    BY <2>2 DEF OtherThreadAccepts, IInv, TypeOK, SockType, PostType, postVars, sockVars
  <2>3. ASSUME NEW c \in Conns, PeerSends(c) PROVE <1>1!:
    BY <2>3 DEF PeerSends, Socket, IInv, TypeOK, SockType, PostType, postVars
  <2>4. ASSUME NEW c \in Conns, PeerCloses(c) PROVE <1>1!:
    BY <2>4, Zenon DEF PeerCloses, Socket, IInv, TypeOK, SockType, PostType, postVars
  <2>5. ASSUME NEW c \in Conns, PeerReceives(c) PROVE <1>1!:
    BY <2>5 DEF PeerReceives, Socket, IInv, TypeOK, SockType, PostType, postVars
  <2>6. ASSUME NEW t \in Posts, TimePasses(t) PROVE <1>1!:
    BY <2>6, Zenon DEF TimePasses, IInv, TypeOK, SockType, PostType, sockVars
  <2>7. QED
    BY <2>1, <2>2, <2>3, <2>4, <2>5, <2>6, Zenon DEF Kernel
<1>2. TaskInv'
  BY <1>1, SameTasks, Zenon DEF IInv, loopVars, connVars
<1>3. TypeOK'
  BY <1>1, Zenon DEF IInv, TypeOK, LoopType, PostType, ConnType, loopVars, connVars
<1>4. EndIsQueued' /\ EventsHaveTarget' /\ ReadyIsOpen' /\ ExceptIsSending'
  BY <1>1, Zenon DEF IInv, EndIsQueued, EventsHaveTarget, ReadyIsOpen, ExceptIsSending,
              Queued, loopVars, connVars
<1>5. QED
  BY <1>2, <1>3, <1>4, Zenon DEF IInv

\* What a pass over the tasks leaves of the invariant to show when the head of
\* the queue has been popped.
LEMMA EndStays ==
    ASSUME IInv, phase = "pass", taskq # <<>>, PassGoesOn, UNCHANGED end,
           Queued \ {Head(taskq)} \subseteq Queued'
    PROVE  EndIsQueued'
  BY Zenon DEF IInv, EndIsQueued, PassGoesOn

\* run() begins a pass: its end is the last task of the queue.
LEMMA StartPassStep ==
    ASSUME IInv, StartPass
    PROVE  IInv'
<1>1. taskq \in Seq(Posts) /\ phase = "start"
  BY Zenon DEF IInv, TypeOK, LoopType, StartPass
<1>2. taskq # <<>> => taskq[Len(taskq)] \in Queued
  BY <1>1 DEF Queued, Range
<1>3. TaskInv'
  BY SameTasks, Zenon DEF IInv, StartPass, postVars, connVars
<1>4. LoopType'
  BY <1>1, <1>2, QueuedArePosts, Zenon DEF IInv, TypeOK, LoopType, StartPass, Phases
<1>5. PostType' /\ ConnType' /\ SockType'
  BY Zenon DEF IInv, TypeOK, PostType, ConnType, SockType, StartPass, postVars, connVars, sockVars
<1>6. EndIsQueued'
  BY <1>2, Zenon DEF EndIsQueued, StartPass, Queued
<1>7. EventsHaveTarget' /\ ReadyIsOpen' /\ ExceptIsSending'
  BY Zenon DEF IInv, EventsHaveTarget, ReadyIsOpen, ExceptIsSending, StartPass, connVars
<1>8. QED
  BY <1>3, <1>4, <1>5, <1>6, <1>7, Zenon DEF IInv, TypeOK

\* check_deley deletes a task that was just popped: nobody refers to it.
LEMMA DeleteTaskStep ==
    ASSUME IInv, DeleteTask
    PROVE  IInv'
<1> DEFINE t == Head(taskq)
<1>1. taskq \in Seq(Posts) /\ taskq # <<>> /\ IsInjective(taskq) /\ phase = "pass"
  BY Zenon DEF IInv, TypeOK, LoopType, DeleteTask, TaskInv, QueueSound
<1>2. /\ taskq' \in Seq(Posts) /\ IsInjective(taskq')
      /\ t \in Posts /\ Queued' = Queued \ {t}
  BY <1>1, RangeOfTail, QueuedArePosts, Zenon DEF DeleteTask, Popped, Queued
<1>3. \A u \in Posts : /\ ref'[u] = IF u = t THEN "free" ELSE ref[u]
                       /\ owner'[u] = IF u = t THEN Null ELSE owner[u]
  BY <1>2, Zenon DEF IInv, TypeOK, PostType, DeleteTask
<1>4. ref[t] = "dead"
  BY Zenon DEF DeleteTask
<1>5. TaskInv'
  <2>1. QueueSound'
    <3>1. \A u \in Queued' : u \in Posts /\ ref'[u] # "free"
      BY <1>1, <1>2, <1>3, QueuedArePosts, SMTT(30) DEF IInv, TaskInv, QueueSound
    <3>2. QED
      BY <1>2, <3>1, Zenon DEF QueueSound
  <2>2. LiveIsAwaited' /\ AwaitIsQueued' /\ OneAwaiter'
    BY <1>2, <1>3, <1>4 DEF IInv, TaskInv, LiveIsAwaited, AwaitIsQueued, OneAwaiter,
                            Awaits, DeleteTask, connVars
  <2>3. QED
    BY <2>1, <2>2, Zenon DEF TaskInv
<1>6. LoopType'
  BY <1>2, Zenon DEF IInv, TypeOK, LoopType, DeleteTask, PassGoesOn, Phases
<1>7. PostType'
  BY <1>2, Zenon DEF IInv, TypeOK, PostType, DeleteTask
<1>8. ConnType' /\ SockType'
  BY Zenon DEF IInv, TypeOK, ConnType, SockType, DeleteTask, connVars, sockVars
<1>9. EndIsQueued'
  BY <1>1, <1>2, EndStays, Zenon DEF DeleteTask
<1>10. EventsHaveTarget' /\ ReadyIsOpen' /\ ExceptIsSending'
  BY <1>1, Zenon DEF IInv, EventsHaveTarget, ReadyIsOpen, ExceptIsSending, DeleteTask, connVars
<1>11. QED
  BY <1>5, <1>6, <1>7, <1>8, <1>9, <1>10, Zenon DEF IInv, TypeOK

\* check_deley posts a popped task again: it is queued once.
LEMMA RepostStep ==
    ASSUME IInv, Repost
    PROVE  IInv'
<1> DEFINE t == Head(taskq)
<1>1. taskq \in Seq(Posts) /\ taskq # <<>> /\ IsInjective(taskq) /\ phase = "pass"
  BY Zenon DEF IInv, TypeOK, LoopType, Repost, TaskInv, QueueSound
<1>2. /\ Tail(taskq) \in Seq(Posts) /\ IsInjective(Tail(taskq))
      /\ t \in Queued /\ t \in Posts /\ Range(Tail(taskq)) = Queued \ {t}
  BY <1>1, RangeOfTail, QueuedArePosts, Zenon DEF Queued
<1> DEFINE n == <<t>>
<1>3. n \in Seq(Posts) /\ IsInjective(n) /\ Range(n) = {t}
  BY <1>2 DEF IsInjective, Range
<1>4. taskq' = Tail(taskq) \o n
  BY <1>2 DEF Repost, Reposted
<1>5. taskq' \in Seq(Posts) /\ IsInjective(taskq') /\ Queued' = Queued
  <2> DEFINE q == Tail(taskq)
  <2>1. q \in Seq(Posts) /\ IsInjective(q) /\ Range(q) = Queued \ {t} /\ taskq' = q \o n
    BY <1>2, <1>4, Zenon
  <2> HIDE DEF n, q
  <2>2. q \o n \in Seq(Posts) /\ IsInjective(q \o n) /\ Range(q \o n) = Range(q) \cup Range(n)
    BY <1>3, <2>1, RangeOfConcat
  <2>3. Queued' = Range(taskq')
    BY Zenon DEF Queued
  <2>4. QED
    BY <1>2, <1>3, <2>1, <2>2, <2>3, ZenonT(60)
<1>6. TaskInv'
  <2>1. QueueSound'
    BY <1>5, Zenon DEF IInv, TaskInv, QueueSound, Repost, postVars
  <2>2. LiveIsAwaited' /\ AwaitIsQueued' /\ OneAwaiter'
    BY <1>5 DEF IInv, TaskInv, LiveIsAwaited, AwaitIsQueued, OneAwaiter, Awaits,
                Repost, postVars, connVars
  <2>3. QED
    BY <2>1, <2>2, Zenon DEF TaskInv
<1>7. LoopType'
  BY <1>5, Zenon DEF IInv, TypeOK, LoopType, Repost, PassGoesOn, Phases
<1>8. PostType' /\ ConnType' /\ SockType'
  BY Zenon DEF IInv, TypeOK, PostType, ConnType, SockType, Repost, postVars, connVars, sockVars
<1>9. EndIsQueued'
  BY <1>1, <1>5, EndStays, Zenon DEF Repost
<1>10. EventsHaveTarget' /\ ReadyIsOpen' /\ ExceptIsSending'
  BY <1>1, Zenon DEF IInv, EventsHaveTarget, ReadyIsOpen, ExceptIsSending, Repost, connVars
<1>11. QED
  BY <1>6, <1>7, <1>8, <1>9, <1>10, Zenon DEF IInv, TypeOK

\* check_deley resumes an expired awaiter: its connection is closed.
LEMMA TimeOutStep ==
    ASSUME IInv, TimeOut
    PROVE  IInv'
<1> DEFINE t == Head(taskq)
           c == owner[t]
<1>1. /\ taskq \in Seq(Posts) /\ taskq # <<>> /\ IsInjective(taskq) /\ phase = "pass"
      /\ PostType /\ ConnType /\ SockType /\ TaskInv
  BY Zenon DEF IInv, TypeOK, LoopType, TimeOut, TaskInv, QueueSound
<1>2. /\ Tail(taskq) \in Seq(Posts) /\ IsInjective(Tail(taskq))
      /\ t \in Posts /\ Range(Tail(taskq)) = Queued \ {t}
  BY <1>1, RangeOfTail, QueuedArePosts, Zenon DEF Queued
<1>3. c \in Conns /\ Awaits(c, t)
  BY <1>2, Zenon DEF IInv, TaskInv, LiveIsAwaited, TimeOut
<1>4. <<>> \in Seq(Posts) /\ IsInjective(<<>>) /\ Range(<<>>) = {}
  BY DEF IsInjective, Range
<1>5. Turnover(c, Tail(taskq), t, <<>>, {}) /\ Closes(c)
  BY Zenon DEF TimeOut, Popped
<1> HIDE DEF t, c
<1>6. TaskInv'
  BY <1>1, <1>2, <1>3, <1>4, <1>5, TurnToClosed, Zenon
<1>7. PostType' /\ taskq' \in Seq(Posts)
  BY <1>1, <1>2, <1>3, <1>4, <1>5, TurnTypes, Zenon
<1>8. ConnType' /\ SockType'
  <2>1. except' \in [Conns -> {"none", "send"}] /\ backlog' \in Nat
    BY <1>1, Zenon DEF TimeOut, ClearExcept, ConnType, SockType
  <2>2. QED
    BY <1>1, <1>3, <1>5, <2>1, CloseTypes, Zenon
<1>9. LoopType'
  BY <1>7, Zenon DEF IInv, TypeOK, LoopType, TimeOut, PassGoesOn, Phases
<1>10. EndIsQueued'
  <2>1. taskq' = Tail(taskq) \o <<>>
    BY <1>5, Zenon DEF Turnover, Count
  <2>2. Queued' = Queued \ {t}
    BY <1>2, <2>1 DEF Queued
  <2>3. QED
    BY <1>1, <2>2, EndStays, Zenon DEF TimeOut, t
<1>11. EventsHaveTarget' /\ ReadyIsOpen'
  <2>1. \A d \in Conns : d # c => conn'[d] = conn[d]
    BY <1>1, <1>3, <1>5, Zenon DEF ConnType, Closes
  <2>2. rdl' = rdl \ {c} /\ rdl \subseteq Conns
    BY <1>1, <1>5, Zenon DEF Closes, NotReady, SockType
  <2>3. batch' = batch /\ \A d \in Conns : batch[d] = {}
    BY <1>1, Zenon DEF IInv, ReadyIsOpen, TimeOut
  <2>4. QED
    BY <2>1, <2>2, <2>3, Zenon DEF IInv, EventsHaveTarget, ReadyIsOpen
<1>12. ExceptIsSending'
  <2>1. \A d \in Conns : d # c => sendAw'[d] = sendAw[d]
    BY <1>1, <1>3, <1>5, Zenon DEF ConnType, Closes
  <2>2. except' = [except EXCEPT ![c] = "none"]
    BY Zenon DEF TimeOut, ClearExcept, c, t
  <2>3. QED
    BY <1>1, <1>3, <2>1, <2>2, Zenon DEF IInv, ExceptIsSending, ConnType
<1>13. QED
  BY <1>6, <1>7, <1>8, <1>9, <1>10, <1>11, <1>12, Zenon DEF IInv, TypeOK

\* epoll_wait reports open connections only.
LEMMA PollStep ==
    ASSUME IInv, Poll
    PROVE  IInv'
<1>1. PICK S \in SUBSET {c \in rdl : Mask(c) # {}}, l \in {FALSE, backlog > 0} :
          /\ batch' = [c \in Conns |-> IF c \in S THEN Mask(c) ELSE {}]
          /\ listenEv' = l
          /\ rdl' = {c \in rdl : Mask(c) # {}} \ S
          /\ nospace' = [c \in Conns |-> nospace[c] \/ (c \in rdl /\ room[c] = 0)]
          /\ phase' = IF S # {} \/ l THEN "events" ELSE "start"
  BY Zenon DEF Poll
<1>2. S \subseteq rdl /\ rdl \subseteq Conns /\ \A c \in S : conn[c] = "open"
  BY Zenon DEF IInv, TypeOK, SockType, ReadyIsOpen
<1>3. TaskInv'
  BY SameTasks, Zenon DEF IInv, Poll, postVars, connVars
<1>4. LoopType'
  <2>1. batch' \in [Conns -> SUBSET {EvIn, EvOut}]
    BY <1>1, Zenon DEF Mask
  <2>2. (backlog > 0) \in BOOLEAN
    OBVIOUS
  <2>3. listenEv' \in BOOLEAN
    BY <1>1, <2>2, Zenon
  <2>4. phase' \in Phases
    BY <1>1, Zenon DEF Phases
  <2>5. QED
    BY <2>1, <2>3, <2>4, Zenon DEF IInv, TypeOK, LoopType, Poll
<1>5. PostType' /\ ConnType'
  BY Zenon DEF IInv, TypeOK, PostType, ConnType, Poll, postVars, connVars
<1>6. SockType'
  BY <1>1, <1>2, Zenon DEF IInv, TypeOK, SockType, Poll
<1>7. EndIsQueued' /\ EventsHaveTarget' /\ ReadyIsOpen'
  BY <1>1, <1>2, Zenon DEF IInv, EndIsQueued, EventsHaveTarget, ReadyIsOpen, Poll, connVars
<1>8. ExceptIsSending'
  BY Zenon DEF IInv, ExceptIsSending, Poll, connVars
<1>9. QED
  BY <1>3, <1>4, <1>5, <1>6, <1>7, <1>8, Zenon DEF IInv, TypeOK

\* A new PostTask is one that was not allocated.
LEMMA FreshIsFree ==
    ASSUME NEW used, Free \ used # {}
    PROVE  Fresh(used) \in Free \ used
  BY Zenon DEF Fresh

\* The first PostTask a step allocates is in no queue and no awaiter.
LEMMA FirstFresh ==
    ASSUME Free # {}
    PROVE  Fresh({}) \in Free /\ Fresh({}) \in Posts
<1>1. Free \ {} # {}
  BY Zenon
<1>2. Fresh({}) \in Free
  BY <1>1, FreshIsFree, Zenon
<1>3. QED
  BY <1>2, Zenon DEF Free

\* A new connection starts with a queued and counted awaiter.
LEMMA AcceptStep ==
    ASSUME IInv, NEW c \in Conns, Accept(c)
    PROVE  IInv'
<1> DEFINE t == Fresh({})
<1>1. /\ taskq \in Seq(Posts) /\ PostType /\ ConnType /\ SockType /\ TaskInv
      /\ phase = "events" /\ conn[c] = "unborn" /\ backlog > 0
  BY Zenon DEF IInv, TypeOK, LoopType, Accept
<1>2. t \in Free /\ t \in Posts
  BY FirstFresh, Zenon DEF Accept
<1>3. Turnover(c, taskq, Null, <<t>>, {t}) /\ SuspendsIn(c, "read", t)
  BY Zenon DEF Accept
<1>4. <<t>> \in Seq(Posts) /\ IsInjective(<<t>>) /\ Range(<<t>>) = {t}
  BY <1>2 DEF IsInjective, Range
<1> HIDE DEF t
<1>5. TaskInv'
  BY <1>1, <1>2, <1>3, <1>4, TurnToAwaiter, Zenon
<1>6. PostType' /\ taskq' \in Seq(Posts)
  BY <1>1, <1>3, <1>4, TurnTypes, Zenon
<1>7. ConnType'
  BY <1>1, <1>2, <1>3 DEF ConnType, SuspendsIn, Accept
<1>8. SockType'
  BY <1>1, SMTT(30) DEF SockType, Accept, sockVars
<1>9. LoopType'
  BY <1>6, Zenon DEF IInv, TypeOK, LoopType, Accept, Returns, Phases
<1>10. EndIsQueued' /\ EventsHaveTarget' /\ ReadyIsOpen'
  <2>1. \A d \in Conns : conn'[d] = "open" \/ (d # c /\ conn'[d] = conn[d])
    BY <1>1, <1>3, Zenon DEF ConnType, SuspendsIn
  <2>2. rdl' = rdl \cup {c} /\ batch' = batch /\ rdl \subseteq Conns
    BY <1>1, Zenon DEF Accept, Returns, SockType
  <2>3. /\ phase' # "pass"
        /\ phase' # "events" => \A d \in Conns : batch[d] = {}
    BY Zenon DEF Accept, Returns
  <2>4. EndIsQueued'
    BY <2>3, Zenon DEF EndIsQueued
  <2>5. EventsHaveTarget'
    BY <2>1, <2>2, Zenon DEF IInv, EventsHaveTarget
  <2>6. ReadyIsOpen'
    <3>1. conn'[c] = "open"
      BY <2>1, Zenon
    <3>2. QED
      BY <2>1, <2>2, <2>3, <3>1, Zenon DEF IInv, ReadyIsOpen
  <2>7. QED
    BY <2>4, <2>5, <2>6, Zenon
<1>11. ExceptIsSending'
  <2>1. sendAw[c] = Null
    BY <1>1, Zenon DEF TaskInv, OneAwaiter
  <2>2. QED
    BY <1>1, <1>3, <2>1 DEF IInv, ExceptIsSending, ConnType, SuspendsIn, Accept
<1>12. QED
  BY <1>5, <1>6, <1>7, <1>8, <1>9, <1>10, <1>11, Zenon DEF IInv, TypeOK

\* A failed accept() stops the thread and changes nothing else.
LEMMA AcceptFailsStep ==
    ASSUME IInv, AcceptFails
    PROVE  IInv'
<1>1. TaskInv'
  BY SameTasks, Zenon DEF IInv, AcceptFails, postVars, connVars
<1>2. LoopType'
  BY Zenon DEF IInv, TypeOK, LoopType, AcceptFails, Stops, Phases
<1>3. PostType' /\ ConnType' /\ SockType'
  BY DEF IInv, TypeOK, PostType, ConnType, SockType, AcceptFails, postVars, connVars, sockVars
<1>4. EndIsQueued' /\ EventsHaveTarget' /\ ReadyIsOpen' /\ ExceptIsSending'
  BY Zenon DEF IInv, EndIsQueued, EventsHaveTarget, ReadyIsOpen, ExceptIsSending, AcceptFails,
         Stops, connVars
<1>5. QED
  BY <1>1, <1>2, <1>3, <1>4, Zenon DEF IInv, TypeOK

-----------------------------------------------------------------------------
(* The callbacks.  A callback that resumes the coroutine ends with the      *)
(* connection closed or with a new awaiter.                                 *)

\* A callback after which the connection is gone keeps the invariant.
LEMMA CallbackCloses ==
    ASSUME IInv, NEW c \in Conns, NEW old \in Posts, Awaits(c, old),
           NEW new \in Seq(Posts), IsInjective(new), Range(new) \subseteq Free,
           Turnover(c, taskq, old, new, {}), Closes(c),
           \/ AfterRead(c, "gone")
           \/ Returns([batch EXCEPT ![c] = {}], listenEv),
           UNCHANGED <<end, backlog>>,
           \E x \in {"none", except[c]} : except' = [except EXCEPT ![c] = x],
           except'[c] = "none"
    PROVE  IInv'
<1>1. /\ LoopType /\ PostType /\ ConnType /\ SockType /\ TaskInv /\ EventsHaveTarget
      /\ taskq \in Seq(Posts) /\ IsInjective(taskq)
  BY Zenon DEF IInv, TypeOK, LoopType, TaskInv, QueueSound
<1>2. TaskInv'
  BY <1>1, TurnToClosed, Zenon DEF Queued
<1>3. PostType' /\ taskq' \in Seq(Posts)
  BY <1>1, TurnTypes, Zenon
<1>4. ConnType' /\ SockType'
  <2>1. except' \in [Conns -> {"none", "send"}] /\ backlog' \in Nat
    BY <1>1 DEF ConnType, SockType
  <2>2. QED
    BY <1>1, <2>1, CloseTypes, Zenon
<1>5. \A d \in Conns : d # c => conn'[d] = conn[d]
  BY <1>1, Zenon DEF ConnType, Closes, NotReady
<1>6. /\ phase' \in Phases \ {"pass"}
      /\ batch' \in [Conns -> SUBSET {EvIn, EvOut}]
      /\ listenEv' \in BOOLEAN
      /\ EventsHaveTarget'
      /\ phase' # "events" => \A d \in Conns : batch'[d] = {}
  BY <1>1, <1>5, BatchShrinks, Zenon
<1>7. LoopType' /\ EndIsQueued'
  BY <1>1, <1>3, <1>6, Zenon DEF LoopType, EndIsQueued
<1>8. ReadyIsOpen'
  BY <1>1, <1>5, <1>6, Zenon DEF IInv, ReadyIsOpen, Closes, NotReady, SockType
<1>9. ExceptIsSending'
  <2>1. \A d \in Conns : d # c => sendAw'[d] = sendAw[d] /\ except'[d] = except[d]
    BY <1>1, Zenon DEF Closes, NotReady, ConnType
  <2>2. QED
    BY <2>1, Zenon DEF IInv, ExceptIsSending
<1>10. QED
  BY <1>2, <1>3, <1>4, <1>6, <1>7, <1>8, <1>9, Zenon DEF IInv, TypeOK

\* A callback that replaces the awaiter keeps tasks and awaiters in agreement.
LEMMA AwaiterTurns ==
    ASSUME IInv, NEW c \in Conns, NEW old \in Posts, Awaits(c, old),
           NEW new \in Seq(Posts), IsInjective(new), Range(new) \subseteq Free,
           NEW t \in Range(new), NEW point \in {"read", "send"},
           Turnover(c, taskq, old, new, {t}), SuspendsIn(c, point, t)
    PROVE  TaskInv' /\ PostType' /\ taskq' \in Seq(Posts)
<1>1. PostType /\ ConnType /\ TaskInv /\ taskq \in Seq(Posts)
  BY Zenon DEF IInv, TypeOK, LoopType
<1>2. old \in Posts \cup {Null} /\ old # Null
  BY Zenon
<1>3. TaskInv'
  BY <1>1, <1>2, TurnToAwaiter, Zenon
<1>4. QED
  BY <1>1, <1>3, TurnTypes, Zenon

\* A callback after which the coroutine waits again keeps the invariant.
LEMMA CallbackSuspends ==
    ASSUME IInv, NEW c \in Conns, NEW t \in Posts, NEW point \in {"read", "send"},
           TaskInv', PostType', taskq' \in Seq(Posts), SuspendsIn(c, point, t),
           \/ AfterRead(c, point)
           \/ Returns([batch EXCEPT ![c] = {}], listenEv),
           except[c] = "none",
           sendAt' \in [Conns -> BOOLEAN], left' \in [Conns -> 0..MaxReply],
           keep' \in [Conns -> BOOLEAN], inbox' \in [Conns -> 0..MaxIn],
           room' \in [Conns -> 0..MaxRoom], nospace' \in [Conns -> BOOLEAN],
           UNCHANGED <<end, except, backlog, rdl, fin, rst>>
    PROVE  IInv'
<1>1. LoopType /\ ConnType /\ SockType /\ EventsHaveTarget
  BY Zenon DEF IInv, TypeOK
<1>2. ConnType'
  <2>1. /\ conn' \in [Conns -> {"unborn", "open", "closed"}]
        /\ readAw' \in [Conns -> Posts \cup {Null}]
        /\ sendAw' \in [Conns -> Posts \cup {Null}]
    BY <1>1, Zenon DEF ConnType, SuspendsIn
  <2>2. QED
    BY <1>1, <2>1, Zenon DEF ConnType
<1>3. SockType'
  BY <1>1, Zenon DEF SockType
<1>4. \A d \in Conns : /\ d # c => conn'[d] = conn[d] /\ sendAw'[d] = sendAw[d]
                       /\ conn'[c] = "open"
  BY <1>1, Zenon DEF ConnType, SuspendsIn
<1>5. /\ phase' \in Phases \ {"pass"}
      /\ batch' \in [Conns -> SUBSET {EvIn, EvOut}]
      /\ listenEv' \in BOOLEAN
      /\ EventsHaveTarget'
      /\ phase' # "events" => \A d \in Conns : batch'[d] = {}
  BY <1>1, <1>4, BatchShrinks, Zenon
<1>6. LoopType' /\ EndIsQueued'
  BY <1>1, <1>5, Zenon DEF LoopType, EndIsQueued
<1>7. ReadyIsOpen'
  BY <1>1, <1>4, <1>5, Zenon DEF IInv, ReadyIsOpen, SockType
<1>8. ExceptIsSending'
  BY <1>1, <1>4, Zenon DEF IInv, ExceptIsSending, ConnType
<1>9. QED
  BY <1>2, <1>3, <1>5, <1>6, <1>7, <1>8, Zenon DEF IInv, TypeOK

\* The facts about a callback whose coroutine waits in async_read.
LEMMA ReadingFacts ==
    ASSUME IInv, NEW c \in Conns, Reading(c)
    PROVE  /\ readAw[c] \in Posts /\ Awaits(c, readAw[c])
           /\ sendAw[c] = Null /\ except[c] = "none"
  BY DEF IInv, TypeOK, ConnType, TaskInv, OneAwaiter, Reading, Awaits, ExceptIsSending

\* handle() leaves after async_read.
LEMMA ReadEndsStep ==
    ASSUME IInv, NEW c \in Conns, ReadEnds(c)
    PROVE  IInv'
<1> DEFINE new == <<>>
<1>1. new \in Seq(Posts) /\ IsInjective(new) /\ Range(new) \subseteq Free
  BY DEF IsInjective, Range
<1>2. /\ Turnover(c, taskq, readAw[c], new, {}) /\ Closes(c) /\ AfterRead(c, "gone")
      /\ UNCHANGED <<end, backlog>>
  BY Zenon DEF ReadEnds
<1>3. readAw[c] \in Posts /\ Awaits(c, readAw[c]) /\ except[c] = "none"
  BY ReadingFacts, Zenon DEF ReadEnds
<1>4. /\ \E x \in {"none", except[c]} : except' = [except EXCEPT ![c] = x]
      /\ except'[c] = "none"
  BY <1>3, Zenon DEF ReadEnds, ClearExcept, IInv, TypeOK, ConnType
<1> HIDE DEF new
<1>5. QED
  BY <1>1, <1>2, <1>3, <1>4, CallbackCloses, Zenon

\* handle() reads again.
LEMMA NeedReadStep ==
    ASSUME IInv, NEW c \in Conns, NeedRead(c)
    PROVE  IInv'
<1> DEFINE t == Fresh({})
           new == <<t>>
<1>1. t \in Free /\ t \in Posts
  BY FirstFresh, Zenon DEF NeedRead
<1>2. new \in Seq(Posts) /\ IsInjective(new) /\ Range(new) \subseteq Free /\ t \in Range(new)
  BY <1>1 DEF IsInjective, Range
<1>3. /\ Turnover(c, taskq, readAw[c], new, {t}) /\ SuspendsIn(c, "read", t)
      /\ AfterRead(c, "read")
  BY Zenon DEF NeedRead
<1>4. readAw[c] \in Posts /\ Awaits(c, readAw[c]) /\ except[c] = "none"
  BY ReadingFacts, Zenon DEF NeedRead
<1>5. /\ sendAt' \in [Conns -> BOOLEAN] /\ left' \in [Conns -> 0..MaxReply]
      /\ keep' \in [Conns -> BOOLEAN] /\ inbox' \in [Conns -> 0..MaxIn]
      /\ room' \in [Conns -> 0..MaxRoom] /\ nospace' \in [Conns -> BOOLEAN]
      /\ UNCHANGED <<end, except, backlog, rdl, fin, rst>>
  <2>1. sendAt' = [sendAt EXCEPT ![c] = @ \/ EvOut \in batch[c]] /\ sendAt \in [Conns -> BOOLEAN]
    BY Zenon DEF NeedRead, IInv, TypeOK, ConnType
  <2>2. sendAt' \in [Conns -> BOOLEAN]
    BY <2>1, Zenon
  <2>3. inbox' = [inbox EXCEPT ![c] = 0] /\ inbox \in [Conns -> 0..MaxIn]
    BY Zenon DEF NeedRead, Drained, IInv, TypeOK, SockType
  <2>4. inbox' \in [Conns -> 0..MaxIn]
    BY <2>3, SMTT(30)
  <2>5. QED
    BY <2>2, <2>4, Zenon DEF NeedRead, IInv, TypeOK, ConnType, SockType
<1> HIDE DEF t, new
<1>6. TaskInv' /\ PostType' /\ taskq' \in Seq(Posts)
  BY <1>2, <1>3, <1>4, AwaiterTurns, Zenon
<1>7. QED
  BY <1>1, <1>3, <1>4, <1>5, <1>6, CallbackSuspends, Zenon

\* A response goes out at once.
LEMMA ReplySentStep ==
    ASSUME IInv, NEW c \in Conns, NEW len \in 0..MaxReply, NEW again \in BOOLEAN,
           ReplySent(c, len, again)
    PROVE  IInv'
<1> DEFINE s == Fresh({})
           r == Fresh({s})
<1>1. s \in Free /\ s \in Posts
  BY FirstFresh, Zenon DEF ReplySent, Replying
<1>2. readAw[c] \in Posts /\ Awaits(c, readAw[c]) /\ except[c] = "none"
  BY ReadingFacts, Zenon DEF ReplySent, Replying
<1>3. UNCHANGED <<end, except, backlog>>
  BY Zenon DEF ReplySent, Replying
<1>4. CASE again
  <2> DEFINE new == <<s, r>>
  <2>0. /\ Free \ {s} # {}
        /\ len <= room[c]
        /\ sendAt' = [sendAt EXCEPT ![c] = TRUE]
        /\ inbox' = [inbox EXCEPT ![c] = 0]
        /\ room' = [room EXCEPT ![c] = @ - len]
        /\ UNCHANGED <<left, keep, rdl, fin, rst, nospace>>
    BY <1>4, Zenon DEF ReplySent, Drained
  <2>1. r \in Free /\ r \in Posts /\ r # s
    <3>1. r \in Free \ {s}
      BY <2>0, FreshIsFree, Zenon
    <3>2. QED
      BY <3>1, Zenon DEF Free
  <2>2. new \in Seq(Posts) /\ IsInjective(new) /\ Range(new) \subseteq Free /\ r \in Range(new)
    <3>1. new \in Seq(Posts) /\ IsInjective(new) /\ Range(new) = {s, r}
      BY <1>1, <2>1 DEF IsInjective, Range
    <3>2. QED
      BY <1>1, <2>1, <3>1, Zenon
  <2>3. /\ Turnover(c, taskq, readAw[c], new, {r}) /\ SuspendsIn(c, "read", r)
        /\ AfterRead(c, "read")
    BY <1>4, Zenon DEF ReplySent
  <2>4. /\ sendAt' \in [Conns -> BOOLEAN] /\ left' \in [Conns -> 0..MaxReply]
        /\ keep' \in [Conns -> BOOLEAN] /\ inbox' \in [Conns -> 0..MaxIn]
        /\ room' \in [Conns -> 0..MaxRoom] /\ nospace' \in [Conns -> BOOLEAN]
        /\ UNCHANGED <<rdl, fin, rst>>
    BY <2>0 DEF IInv, TypeOK, ConnType, SockType
  <2> HIDE DEF s, r, new
  <2>5. TaskInv' /\ PostType' /\ taskq' \in Seq(Posts)
    BY <1>2, <2>2, <2>3, AwaiterTurns, Zenon
  <2>6. QED
    BY <1>2, <1>3, <2>1, <2>3, <2>4, <2>5, CallbackSuspends, Zenon
<1>5. CASE ~again
  <2> DEFINE new == <<s>>
  <2>1. new \in Seq(Posts) /\ IsInjective(new) /\ Range(new) \subseteq Free
    BY <1>1 DEF IsInjective, Range
  <2>2. Turnover(c, taskq, readAw[c], new, {}) /\ Closes(c) /\ AfterRead(c, "gone")
    BY <1>5, Zenon DEF ReplySent
  <2>3. except' = [except EXCEPT ![c] = except[c]] /\ except'[c] = "none"
    BY <1>2, <1>3, Zenon DEF IInv, TypeOK, ConnType
  <2> HIDE DEF s, new
  <2>4. QED
    BY <1>2, <1>3, <2>1, <2>2, <2>3, CallbackCloses, Zenon
<1>6. QED
  BY <1>4, <1>5, Zenon

\* async_send throws at once.
LEMMA ReplyFailsStep ==
    ASSUME IInv, NEW c \in Conns, NEW len \in 0..MaxReply, ReplyFails(c, len)
    PROVE  IInv'
<1> DEFINE s == Fresh({})
           new == <<s>>
<1>1. s \in Free /\ s \in Posts
  BY FirstFresh, Zenon DEF ReplyFails, Replying
<1>2. new \in Seq(Posts) /\ IsInjective(new) /\ Range(new) \subseteq Free
  BY <1>1 DEF IsInjective, Range
<1>3. readAw[c] \in Posts /\ Awaits(c, readAw[c]) /\ except[c] = "none"
  BY ReadingFacts, Zenon DEF ReplyFails, Replying
<1>4. /\ Turnover(c, taskq, readAw[c], new, {}) /\ Closes(c) /\ AfterRead(c, "gone")
      /\ UNCHANGED <<end, except, backlog>>
  BY Zenon DEF ReplyFails, Replying
<1>5. except' = [except EXCEPT ![c] = except[c]] /\ except'[c] = "none"
  BY <1>3, <1>4, Zenon DEF IInv, TypeOK, ConnType
<1> HIDE DEF s, new
<1>6. QED
  BY <1>2, <1>3, <1>4, <1>5, CallbackCloses, Zenon

\* A response waits in async_send.
LEMMA ReplyWaitsStep ==
    ASSUME IInv, NEW c \in Conns, NEW len \in 0..MaxReply, NEW again \in BOOLEAN,
           ReplyWaits(c, len, again)
    PROVE  IInv'
<1> DEFINE s == Fresh({})
           new == <<s>>
           now == IF CanSend(c) THEN room[c] ELSE 0
<1>1. s \in Free /\ s \in Posts
  BY FirstFresh, Zenon DEF ReplyWaits, Replying
<1>2. new \in Seq(Posts) /\ IsInjective(new) /\ Range(new) \subseteq Free /\ s \in Range(new)
  BY <1>1 DEF IsInjective, Range
<1>3. readAw[c] \in Posts /\ Awaits(c, readAw[c]) /\ except[c] = "none"
  BY ReadingFacts, Zenon DEF ReplyWaits, Replying
<1>4. /\ Turnover(c, taskq, readAw[c], new, {s}) /\ SuspendsIn(c, "send", s)
      /\ AfterRead(c, "send")
      /\ UNCHANGED <<end, except, backlog, rdl, fin, rst>>
  BY Zenon DEF ReplyWaits, Replying
<1>5. room[c] \in 0..MaxRoom /\ now \in 0..MaxRoom /\ now <= room[c] /\ now <= len
  BY DEF ReplyWaits, IInv, TypeOK, SockType
<1>6. /\ left' = [left EXCEPT ![c] = len - now]
      /\ room' = [room EXCEPT ![c] = @ - now]
  BY Zenon DEF ReplyWaits
<1>7. CanSend(c) \in BOOLEAN
  BY Zenon DEF CanSend, IInv, TypeOK, ConnType
<1> HIDE DEF s, new, now
<1>8. /\ left' \in [Conns -> 0..MaxReply] /\ room' \in [Conns -> 0..MaxRoom]
  BY <1>5, <1>6 DEF IInv, TypeOK, ConnType, SockType
<1>9. /\ sendAt' \in [Conns -> BOOLEAN] /\ nospace' \in [Conns -> BOOLEAN]
      /\ keep' \in [Conns -> BOOLEAN] /\ inbox' \in [Conns -> 0..MaxIn]
  BY <1>7 DEF ReplyWaits, Drained, IInv, TypeOK, ConnType, SockType
<1>10. TaskInv' /\ PostType' /\ taskq' \in Seq(Posts)
  BY <1>2, <1>3, <1>4, AwaiterTurns, Zenon
<1>11. QED
  BY <1>1, <1>3, <1>4, <1>8, <1>9, <1>10, CallbackSuspends, Zenon

\* The callbacks that resume nobody.
LEMMA QuietCallbackStep ==
    ASSUME IInv, NEW c \in Conns, ReadTraps(c) \/ NoteWritable(c) \/ SendWaits(c)
    PROVE  IInv'
<1>1. LoopType /\ PostType /\ ConnType /\ SockType /\ TaskInv /\ EventsHaveTarget
  BY Zenon DEF IInv, TypeOK
<1>2. UNCHANGED <<taskq, end, ref, owner, late, conn, readAw, sendAw, keep, backlog, rdl>>
  BY Zenon DEF ReadTraps, NoteWritable, SendWaits, Sending, postVars, connVars
<1>3. TaskInv' /\ PostType'
  BY <1>1, <1>2, SameTasks, Zenon DEF PostType
<1>4. ConnType' /\ SockType'
  <2>1. CASE ReadTraps(c)
    BY <1>1, <2>1, Zenon DEF ReadTraps, ConnType, SockType, connVars, sockVars
  <2>2. CASE NoteWritable(c)
    BY <1>1, <2>2, Zenon DEF NoteWritable, ConnType, SockType, sockVars
  <2>3. CASE SendWaits(c)
    <3>1. /\ left' \in [Conns -> 0..MaxReply] /\ except' \in [Conns -> {"none", "send"}]
          /\ room' \in [Conns -> 0..MaxRoom] /\ nospace' \in [Conns -> BOOLEAN]
      <4>1. CASE rst[c]
        BY <1>1, <2>3, <4>1 DEF SendWaits, ConnType, SockType
      <4>2. CASE ~rst[c]
        <5>1. /\ left' = [left EXCEPT ![c] = @ - room[c]] /\ left[c] > room[c]
              /\ room' = [room EXCEPT ![c] = 0]
              /\ nospace' = [nospace EXCEPT ![c] = TRUE] /\ except' = except
          BY <2>3, <4>2, Zenon DEF SendWaits
        <5>2. left[c] \in 0..MaxReply /\ room[c] \in 0..MaxRoom
          BY <1>1, Zenon DEF ConnType, SockType
        <5>3. left[c] - room[c] \in 0..MaxReply
          BY <5>1, <5>2
        <5>4. QED
          BY <1>1, <5>1, <5>3 DEF ConnType, SockType
      <4>3. QED
        BY <4>1, <4>2, Zenon
    <3>2. sendAt' \in [Conns -> BOOLEAN] /\ UNCHANGED <<inbox, fin, rst>>
      BY <1>1, <2>3, Zenon DEF SendWaits, ConnType
    <3>3. QED
      BY <1>1, <1>2, <3>1, <3>2, Zenon DEF ConnType, SockType
  <2>4. QED
    BY <2>1, <2>2, <2>3, Zenon
<1>5. Returns([batch EXCEPT ![c] = {}], listenEv) \/ Stops("crashed")
  BY Zenon DEF ReadTraps, NoteWritable, SendWaits, Sending
<1>6. /\ phase' \in Phases \ {"pass"}
      /\ batch' \in [Conns -> SUBSET {EvIn, EvOut}]
      /\ listenEv' \in BOOLEAN
      /\ EventsHaveTarget'
      /\ phase' # "events" => \A d \in Conns : batch'[d] = {}
  BY <1>1, <1>2, <1>5, BatchShrinks, Zenon
<1>7. LoopType' /\ EndIsQueued'
  BY <1>1, <1>2, <1>6, Zenon DEF LoopType, EndIsQueued
<1>8. ReadyIsOpen'
  BY <1>2, <1>6, Zenon DEF IInv, ReadyIsOpen
<1>9. ExceptIsSending'
  <2>1. \A d \in Conns : d # c => except'[d] = except[d]
    <3>1. except' = except \/ except' = [except EXCEPT ![c] = "send"]
      BY Zenon DEF ReadTraps, NoteWritable, SendWaits, Sending, connVars
    <3>2. QED
      BY <1>1, <3>1, Zenon DEF ConnType
  <2>2. except'[c] = except[c] \/ sendAw[c] # Null
    BY <1>1, Zenon DEF ReadTraps, NoteWritable, SendWaits, Sending, connVars, ConnType
  <2>3. QED
    BY <1>2, <2>1, <2>2, Zenon DEF IInv, ExceptIsSending
<1>10. QED
  BY <1>3, <1>4, <1>6, <1>7, <1>8, <1>9, Zenon DEF IInv, TypeOK

\* The coroutine of async_send resumes.
LEMMA SendDoneStep ==
    ASSUME IInv, NEW c \in Conns, SendDone(c)
    PROVE  IInv'
<1> DEFINE t == Fresh({})
<1>1. sendAw[c] \in Posts /\ Awaits(c, sendAw[c])
  BY Zenon DEF IInv, TypeOK, ConnType, SendDone, Sending, Awaits
<1>2. Returns([batch EXCEPT ![c] = {}], listenEv) /\ UNCHANGED <<end, backlog>>
  BY Zenon DEF SendDone, Sending
<1>3. CASE keep[c] /\ except[c] = "none"
  <2> DEFINE new == <<t>>
  <2>1. /\ Free # {}
        /\ Turnover(c, taskq, sendAw[c], new, {t})
        /\ SuspendsIn(c, "read", t)
        /\ sendAt' = [sendAt EXCEPT ![c] = FALSE]
        /\ left' = [left EXCEPT ![c] = 0]
        /\ keep' = [keep EXCEPT ![c] = FALSE]
        /\ room' = [room EXCEPT ![c] = @ - left[c]]
        /\ left[c] = 0 \/ left[c] <= room[c]
        /\ UNCHANGED <<except, rdl, inbox, fin, rst, nospace>>
    BY <1>3, Zenon DEF SendDone, Finished
  <2>2. t \in Free /\ t \in Posts
    BY <2>1, FirstFresh, Zenon
  <2>3. new \in Seq(Posts) /\ IsInjective(new) /\ Range(new) \subseteq Free /\ t \in Range(new)
    BY <2>2 DEF IsInjective, Range
  <2>4. /\ sendAt' \in [Conns -> BOOLEAN] /\ left' \in [Conns -> 0..MaxReply]
        /\ keep' \in [Conns -> BOOLEAN] /\ inbox' \in [Conns -> 0..MaxIn]
        /\ room' \in [Conns -> 0..MaxRoom] /\ nospace' \in [Conns -> BOOLEAN]
    BY <2>1, SMTT(30) DEF IInv, TypeOK, ConnType, SockType
  <2> HIDE DEF t, new
  <2>5. TaskInv' /\ PostType' /\ taskq' \in Seq(Posts)
    BY <1>1, <2>1, <2>3, AwaiterTurns, Zenon
  <2>6. QED
    BY <1>2, <1>3, <2>1, <2>2, <2>4, <2>5, CallbackSuspends, Zenon
<1>4. CASE ~(keep[c] /\ except[c] = "none")
  <2> DEFINE new == <<>>
  <2>1. new \in Seq(Posts) /\ IsInjective(new) /\ Range(new) \subseteq Free
    BY DEF IsInjective, Range
  <2>2. /\ Turnover(c, taskq, sendAw[c], new, {}) /\ Closes(c)
        /\ except' = [except EXCEPT ![c] = "none"]
    BY <1>4, Zenon DEF SendDone, ClearExcept
  <2>3. except'[c] = "none"
    BY <2>2, Zenon DEF IInv, TypeOK, ConnType
  <2> HIDE DEF new
  <2>4. QED
    BY <1>1, <1>2, <2>1, <2>2, <2>3, CallbackCloses, Zenon
<1>5. QED
  BY <1>3, <1>4, Zenon

-----------------------------------------------------------------------------
(* The theorems.                                                           *)

\* Every step keeps the invariant.
LEMMA NextIInv == IInv /\ [Next]_vars => IInv'
<1> SUFFICES ASSUME IInv, [Next]_vars PROVE IInv'
  BY Zenon
<1>1. CASE Kernel
  BY <1>1, KernelStep, Zenon
<1>2. CASE StartPass
  BY <1>2, StartPassStep, Zenon
<1>3. CASE DeleteTask
  BY <1>3, DeleteTaskStep, Zenon
<1>4. CASE Repost
  BY <1>4, RepostStep, Zenon
<1>5. CASE TimeOut
  BY <1>5, TimeOutStep, Zenon
<1>6. CASE Poll
  BY <1>6, PollStep, Zenon
<1>7. CASE AcceptFails
  BY <1>7, AcceptFailsStep, Zenon
<1>8. ASSUME NEW c \in Conns, Accept(c) PROVE IInv'
  BY <1>8, AcceptStep, Zenon
<1>9. ASSUME NEW c \in Conns, Callback(c) PROVE IInv'
  BY <1>9, ReadEndsStep, NeedReadStep, ReplySentStep, ReplyFailsStep, ReplyWaitsStep, Zenon,
     QuietCallbackStep, SendDoneStep DEF Callback
<1>10. CASE UNCHANGED vars
  <2>1. TaskInv'
    BY <1>10, SameTasks, Zenon DEF IInv, vars, loopVars, postVars, connVars
  <2>2. LoopType' /\ PostType' /\ ConnType' /\ SockType'
    BY <1>10, Zenon DEF IInv, TypeOK, LoopType, PostType, ConnType, SockType,
                 vars, loopVars, postVars, connVars, sockVars
  <2>3. EndIsQueued' /\ EventsHaveTarget' /\ ReadyIsOpen' /\ ExceptIsSending'
    BY <1>10, Zenon DEF IInv, EndIsQueued, EventsHaveTarget, ReadyIsOpen, ExceptIsSending, Queued,
                 vars, loopVars, connVars
  <2>4. QED
    BY <2>1, <2>2, <2>3, Zenon DEF IInv, TypeOK
<1>11. QED
  BY <1>1, <1>2, <1>3, <1>4, <1>5, <1>6, <1>7, <1>8, <1>9, <1>10, Zenon DEF Next, Loop, Over

\* The invariant holds always.
LEMMA SpecIInv == Spec => []IInv
  BY InitIInv, NextIInv, PTL DEF Spec

-----------------------------------------------------------------------------
(***************************************************************************)
(* What follows from the invariant.                                        *)
(***************************************************************************)

USE LoopAssumption

\* Every variable of the server thread keeps its type and its bounds.
THEOREM TypeCorrect == Spec => []TypeOK
<1>1. IInv => TypeOK
  BY Zenon DEF IInv
<1>2. QED
  BY SpecIInv, <1>1, PTL

\* The task queue never holds a PostTask twice nor a deleted one, and the pass of
\* IoContext::run always meets the task it took as its end.
THEOREM QueueCorrect == Spec => [](QueueSound /\ EndIsQueued)
<1>1. IInv => QueueSound /\ EndIsQueued
  BY Zenon DEF IInv, TaskInv
<1>2. QED
  BY SpecIInv, <1>1, PTL

\* check_deley never follows the pointer to an awaiter that is gone.
THEOREM NoTaskDangles == Spec => []NoDanglingTask
<1>1. IInv => NoDanglingTask
  BY QueuedArePosts, Zenon DEF IInv, TypeOK, LoopType, TaskInv, LiveIsAwaited, NoDanglingTask
<1>2. QED
  BY SpecIInv, <1>1, PTL

\* Every suspended async_read or async_send is watched for its timeout, and a
\* connection is suspended in exactly one of them.
THEOREM AwaitsWatched == Spec => [](EveryAwaitWatched /\ OneAwaiter)
<1>1. IInv => EveryAwaitWatched /\ OneAwaiter
  <2> SUFFICES ASSUME IInv PROVE EveryAwaitWatched /\ OneAwaiter
    BY Zenon
  <2>1. OneAwaiter
    BY Zenon DEF IInv, TaskInv
  <2>2. ASSUME NEW c \in Conns, conn[c] = "open"
        PROVE  \E t \in Queued : ref[t] = "live" /\ owner[t] = c /\ Awaits(c, t)
    <3>1. PICK t \in Posts : Awaits(c, t)
      BY <2>1, <2>2 DEF OneAwaiter, Awaits, IInv, TypeOK, ConnType
    <3>2. QED
      BY <3>1, Zenon DEF IInv, TaskInv, AwaitIsQueued
  <2>3. QED
    BY <2>1, <2>2, Zenon DEF EveryAwaitWatched
<1>2. QED
  BY SpecIInv, <1>1, PTL

\* No event is delivered to a destroyed connection, and no connection is destroyed
\* with an exception its destructor would rethrow.
THEOREM DestroyedCleanly == Spec => [](EventsHaveTarget /\ CleanDestroy)
<1>1. IInv => EventsHaveTarget /\ CleanDestroy
  BY Zenon DEF IInv, TaskInv, OneAwaiter, ExceptIsSending, CleanDestroy
<1>2. QED
  BY SpecIInv, <1>1, PTL

\* run() always meets the task it took as the end of its pass.
THEOREM PassEnds == Spec => []EndIsQueued
  BY QueueCorrect, PTL

\* A connection is never suspended in async_read and async_send at once, and a
\* destroyed one in neither.
THEOREM WaitsOnce == Spec => []OneAwaiter
  BY AwaitsWatched, PTL

\* ~RawConnection never finds an exception to rethrow.
THEOREM NoRethrow == Spec => []CleanDestroy
  BY DestroyedCleanly, PTL

-----------------------------------------------------------------------------
(***************************************************************************)
(* No event of edge-triggered epoll is lost, for any number of connections *)
(* and PostTasks.                                                          *)
(*                                                                         *)
(* NoLostEdge is not inductive: it says nothing of a connection that is    *)
(* about to wait.  The invariant Edges adds what a batch of events says of *)
(* the socket (a batch without EPOLLOUT means that epoll_wait saw no room, *)
(* so the kernel will report room), and that input is always announced,    *)
(* whatever the connection waits for.                                      *)
(***************************************************************************)

\* There is something to read: data, the end of the stream or a reset.
Input(c) == rst[c] = TRUE \/ inbox[c] > 0 \/ fin[c] = TRUE

\* An event is on its way for the input; the batch tells the truth about it.
InputEdge(c) ==
    /\ Input(c) => c \in rdl \/ EvIn \in batch[c]
    /\ EvIn \in batch[c] => Input(c)

\* Room is announced, or will be when there is some.
Announced(c) == IF room[c] = 0 THEN nospace[c] = TRUE \/ c \in rdl ELSE c \in rdl

\* A callback that is not told of room need not try to send.
BatchEdge(c) == batch[c] # {} /\ EvOut \notin batch[c] => Announced(c)

\* Who waits in async_send has an event on its way or gets one with the first room.
RoomEdge(c) ==
    sendAw[c] # Null /\ EvOut \notin batch[c] =>
        Announced(c) /\ (rst[c] = TRUE => c \in rdl)

\* No edge of an open connection is lost, in either direction.
Edge(c) == conn[c] = "open" => InputEdge(c) /\ BatchEdge(c) /\ RoomEdge(c)

\* No edge is lost as long as the thread lives.
Edges == ~Halted => \A c \in Conns : Edge(c)

\* Nothing an edge depends on changes for c.
SameSocket(c) ==
    /\ conn'[c] = conn[c] /\ sendAw'[c] = sendAw[c] /\ batch'[c] = batch[c]
    /\ c \in rdl => c \in rdl'
    /\ inbox'[c] = inbox[c] /\ fin'[c] = fin[c] /\ rst'[c] = rst[c]
    /\ room'[c] = room[c] /\ nospace'[c] = nospace[c]

\* What does not change keeps its edges.
LEMMA SameEdge ==
    ASSUME NEW c \in Conns, Edge(c), SameSocket(c)
    PROVE  Edge(c)'
BY Zenon DEF Edge, InputEdge, BatchEdge, RoomEdge, Announced, Input, SameSocket

\* A step that concerns one connection.
LEMMA OneSocket ==
    ASSUME Edges, ~Halted, NEW c \in Conns, \A d \in Conns : d # c => SameSocket(d), Edge(c)'
    PROVE  Edges'
<1>1. ASSUME NEW d \in Conns PROVE Edge(d)'
  <2>1. CASE d = c
    BY <2>1, Zenon
  <2>2. CASE d # c
    BY <2>2, SameEdge, Zenon DEF Edges
  <2>3. QED
    BY <2>1, <2>2, Zenon
<1>2. QED
  BY <1>1, Zenon DEF Edges

\* A step that concerns none.
LEMMA NoSocket ==
    ASSUME Edges, ~Halted, \A d \in Conns : SameSocket(d)
    PROVE  Edges'
BY SameEdge, Zenon DEF Edges

\* A connection that is not open is told of nothing.
LEMMA ClosedEdge ==
    ASSUME NEW c \in Conns, conn'[c] # "open"
    PROVE  Edge(c)'
BY Zenon DEF Edge

-----------------------------------------------------------------------------
(* The kernel and the peers.                                               *)

\* Data, the end of the stream and a reset put the socket on the ready list.
LEMMA PeerEdges ==
    ASSUME IInv, Edges, NEW c \in Conns, PeerSends(c) \/ PeerCloses(c)
    PROVE  Edges'
<1>1. TypeOK /\ ~Halted /\ conn[c] = "open"
  BY Zenon DEF IInv, PeerSends, PeerCloses, Socket
<1>2. /\ rdl' = rdl \cup {c}
      /\ UNCHANGED <<conn, sendAw, batch, room, nospace>>
  BY Zenon DEF PeerSends, PeerCloses, loopVars, connVars
<1>3. \A d \in Conns : d # c => SameSocket(d)
  <2>1. \A d \in Conns : d # c => inbox'[d] = inbox[d] /\ fin'[d] = fin[d] /\ rst'[d] = rst[d]
    BY <1>1, Zenon DEF PeerSends, PeerCloses, TypeOK, SockType
  <2>2. QED
    BY <1>2, <2>1, Zenon DEF SameSocket
<1>4. Edge(c)
  BY <1>1, Zenon DEF Edges
<1>5. EvIn \in batch[c] => Input(c)'
  <2>1. EvIn \in batch[c] => Input(c)
    BY <1>1, <1>4, Zenon DEF Edge, InputEdge
  <2>2. Input(c) => Input(c)'
    BY <1>1 DEF PeerSends, PeerCloses, Input, TypeOK, SockType
  <2>3. QED
    BY <2>1, <2>2, Zenon
<1>6. Edge(c)'
  BY <1>2, <1>5, Zenon DEF Edge, InputEdge, BatchEdge, RoomEdge, Announced
<1>7. QED
  BY <1>1, <1>3, <1>6, OneSocket, Zenon

\* The first room after none puts the socket on the ready list.
LEMMA ReceiveEdges ==
    ASSUME IInv, Edges, NEW c \in Conns, PeerReceives(c)
    PROVE  Edges'
<1>1. TypeOK /\ ~Halted /\ conn[c] = "open" /\ ~rst[c]
  BY Zenon DEF IInv, PeerReceives, Socket
<1>2. /\ rdl' = IF nospace[c] THEN rdl \cup {c} ELSE rdl
      /\ UNCHANGED <<conn, sendAw, batch, inbox, fin, rst>>
      /\ room' = [room EXCEPT ![c] = @ + 1] /\ nospace' = [nospace EXCEPT ![c] = FALSE]
  BY Zenon DEF PeerReceives, loopVars, connVars
<1>3. \A d \in Conns : d # c => SameSocket(d)
  BY <1>1, <1>2, Zenon DEF SameSocket, TypeOK, SockType
<1>4. Edge(c)
  BY <1>1, Zenon DEF Edges
<1>5. Announced(c) => Announced(c)'
  BY <1>1, <1>2, Zenon DEF Announced, TypeOK, SockType
<1>6. c \in rdl => c \in rdl'
  BY <1>2, Zenon
<1>7. Edge(c)'
  BY <1>1, <1>2, <1>4, <1>5, <1>6, Zenon DEF Edge, InputEdge, BatchEdge, RoomEdge, Input
<1>8. QED
  BY <1>1, <1>3, <1>7, OneSocket, Zenon

\* The steps that touch no socket.
LEMMA QuietEdges ==
    ASSUME IInv, Edges,
           PeerConnects \/ OtherThreadAccepts \/ (\E t \in Posts : TimePasses(t))
           \/ StartPass \/ DeleteTask \/ Repost
    PROVE  Edges'
<1>1. ~Halted
  BY Zenon DEF PeerConnects, OtherThreadAccepts, TimePasses, StartPass, DeleteTask, Repost, Halted
<1>2. UNCHANGED <<conn, sendAw, batch, rdl, inbox, fin, rst, room, nospace>>
  BY Zenon DEF PeerConnects, OtherThreadAccepts, TimePasses, StartPass, DeleteTask, Repost,
         loopVars, connVars, sockVars
<1>3. \A d \in Conns : SameSocket(d)
  BY <1>2, Zenon DEF SameSocket
<1>4. QED
  BY <1>1, <1>3, NoSocket, Zenon

-----------------------------------------------------------------------------
(* The thread.                                                             *)

\* A step that stops the thread leaves nobody waiting for an event.
LEMMA StopEdges ==
    ASSUME NEW how \in {"stopped", "crashed"}, Stops(how)
    PROVE  Edges'
BY Zenon DEF Edges, Halted, Stops

\* A closed socket leaves the ready list; the others keep their place.
LEMMA CloseEdges ==
    ASSUME IInv, Edges, ~Halted, NEW c \in Conns, Closes(c),
           \A d \in Conns : d # c => batch'[d] = batch[d]
    PROVE  Edges'
<1>1. TypeOK
  BY Zenon DEF IInv
<1>2. \A d \in Conns : d # c => SameSocket(d)
  BY <1>1 DEF SameSocket, Closes, NotReady, TypeOK, SockType, ConnType
<1>3. Edge(c)'
  <2>1. conn'[c] = "closed"
    BY <1>1, Zenon DEF Closes, TypeOK, ConnType
  <2>2. QED
    BY <2>1, ClosedEdge, Zenon
<1>4. QED
  BY <1>2, <1>3, OneSocket, Zenon

\* A timeout closes the connection between two polls.
LEMMA TimeOutEdges ==
    ASSUME IInv, Edges, TimeOut
    PROVE  Edges'
<1> DEFINE c == owner[Head(taskq)]
<1>1. /\ phase = "pass" /\ taskq # <<>> /\ ref[Head(taskq)] = "live"
      /\ Closes(c) /\ UNCHANGED batch
  BY Zenon DEF TimeOut
<1>2. c \in Conns
  <2>1. Head(taskq) \in Posts
    BY <1>1 DEF IInv, TypeOK, LoopType
  <2>2. QED
    BY <1>1, <2>1, Zenon DEF IInv, TaskInv, LiveIsAwaited
<1> HIDE DEF c
<1>3. ~Halted
  BY <1>1, Zenon DEF Halted
<1>4. QED
  BY <1>1, <1>2, <1>3, CloseEdges, Zenon

\* epoll_wait reports what the socket holds, and arms the report of room where
\* there is none.
LEMMA PollEdges ==
    ASSUME IInv, Edges, Poll
    PROVE  Edges'
<1>1. /\ TypeOK /\ phase = "poll" /\ ~Halted
      /\ \A c \in Conns : batch[c] = {}
  BY Zenon DEF IInv, ReadyIsOpen, Poll, Halted
<1>2. UNCHANGED <<conn, sendAw, inbox, fin, rst, room>>
  BY Zenon DEF Poll, connVars
<1>3. PICK S \in SUBSET {c \in rdl : Mask(c) # {}} :
        /\ batch' = [c \in Conns |-> IF c \in S THEN Mask(c) ELSE {}]
        /\ rdl' = {c \in rdl : Mask(c) # {}} \ S
        /\ nospace' = [c \in Conns |-> nospace[c] \/ (c \in rdl /\ room[c] = 0)]
  BY Zenon DEF Poll
<1>4. ASSUME NEW c \in Conns, conn[c] = "open" PROVE Edge(c)'
  <2>1. Edge(c) /\ batch[c] = {}
    BY <1>1, Zenon DEF Edges
  <2>2. /\ EvIn \in Mask(c) <=> Input(c)
        /\ EvOut \in Mask(c) <=> rst[c] = TRUE \/ room[c] > 0
        /\ EvIn # EvOut /\ Mask(c) \subseteq {EvIn, EvOut}
    BY <1>1, Zenon DEF Mask, Input, EvIn, EvOut, TypeOK, SockType
  <2>3. Input(c)' <=> Input(c)
    BY <1>2, Zenon DEF Input
  <2>4. nospace'[c] = TRUE <=> nospace[c] = TRUE \/ (c \in rdl /\ room[c] = 0)
    BY <1>1, <1>3, Zenon DEF TypeOK, SockType
  <2>5. /\ batch'[c] = IF c \in S THEN Mask(c) ELSE {}
        /\ c \in rdl' <=> c \in rdl /\ Mask(c) # {} /\ c \notin S
        /\ c \in S => c \in rdl
    BY <1>3, Zenon
  <2>6. room[c] \in 0..MaxRoom /\ room'[c] = room[c] /\ rst'[c] = rst[c]
    BY <1>1, <1>2, Zenon DEF TypeOK, SockType
  <2>7. InputEdge(c)'
    BY <1>4, <2>1, <2>2, <2>3, <2>5, Zenon DEF Edge, InputEdge
  <2>8. BatchEdge(c)'
    BY <2>2, <2>4, <2>5, <2>6, SMTT(30) DEF BatchEdge, Announced
  <2>9. RoomEdge(c)'
    <3> SUFFICES ASSUME sendAw[c] # Null, EvOut \notin batch'[c]
                 PROVE  Announced(c)' /\ (rst'[c] = TRUE => c \in rdl')
      BY <1>2, Zenon DEF RoomEdge
    <3>1. Announced(c) /\ (rst[c] = TRUE => c \in rdl)
      BY <1>4, <2>1, Zenon DEF Edge, RoomEdge
    <3>2. QED
      BY <2>2, <2>4, <2>5, <2>6, <3>1, SMTT(30) DEF Announced
  <2>10. QED
    BY <2>7, <2>8, <2>9, Zenon DEF Edge
<1>5. QED
  BY <1>2, <1>4, Zenon DEF Edges, Edge

\* A connection is registered with what it holds already announced.
LEMMA AcceptEdges ==
    ASSUME IInv, Edges, NEW c \in Conns, Accept(c)
    PROVE  Edges'
<1>1. /\ TypeOK /\ ~Halted /\ batch[c] = {}
  BY Zenon DEF IInv, EventsHaveTarget, Accept, Halted
<1>2. /\ rdl' = rdl \cup {c} /\ batch' = batch
      /\ UNCHANGED <<inbox, fin, rst, room, nospace>>
      /\ SuspendsIn(c, "read", Fresh({}))
  BY Zenon DEF Accept, Returns, sockVars
<1>3. \A d \in Conns : d # c => SameSocket(d)
  BY <1>1, <1>2, SMTT(30) DEF SameSocket, SuspendsIn, TypeOK, ConnType
<1>4. sendAw'[c] = Null
  BY <1>1, <1>2, ZenonT(60) DEF SuspendsIn, TypeOK, ConnType
<1>5. Edge(c)'
  BY <1>1, <1>2, <1>4, Zenon DEF Edge, InputEdge, BatchEdge, RoomEdge
<1>6. QED
  BY <1>1, <1>3, <1>5, OneSocket, Zenon

-----------------------------------------------------------------------------
(* The callbacks of a connection.                                          *)

\* The callback has used up the events of c.
Handled(c) == batch' = [batch EXCEPT ![c] = {}]

\* After a read the callback returns to run(), or the process is gone.
LEMMA ReadReturns ==
    ASSUME NEW c \in Conns, NEW point, AfterRead(c, point)
    PROVE  Handled(c) \/ Stops("crashed")
BY Zenon DEF AfterRead, Returns, Handled

\* A callback that keeps the connection: what it must leave at c.
LEMMA HandledEdges ==
    ASSUME IInv, Edges, ~Halted, NEW c \in Conns, Handled(c), Edge(c)',
           UNCHANGED <<rdl, fin, rst>>,
           \A d \in Conns : d # c =>
               /\ conn'[d] = conn[d] /\ sendAw'[d] = sendAw[d]
               /\ inbox'[d] = inbox[d] /\ room'[d] = room[d] /\ nospace'[d] = nospace[d]
    PROVE  Edges'
<1>1. batch \in [Conns -> SUBSET {EvIn, EvOut}]
  BY Zenon DEF IInv, TypeOK, LoopType
<1>2. \A d \in Conns : d # c => SameSocket(d)
  BY <1>1, Zenon DEF SameSocket, Handled
<1>3. QED
  BY <1>2, OneSocket, Zenon

\* handle() reads on after it drained the socket: there is nothing to announce.
LEMMA DrainedEdge ==
    ASSUME IInv, NEW c \in Conns, Handled(c), RecvData(c), inbox' = Drained(c),
           UNCHANGED <<fin, rst>>
    PROVE  batch'[c] = {} /\ ~Input(c)' /\ rst[c] = FALSE
<1>1. TypeOK
  BY Zenon DEF IInv
<1>2. rst[c] = FALSE /\ fin[c] = FALSE
  BY <1>1, Zenon DEF RecvData, RecvZero, RecvThrows, TypeOK, SockType
<1>3. inbox'[c] = 0
  BY <1>1, Zenon DEF Drained, TypeOK, SockType
<1>4. batch'[c] = {}
  BY <1>1, Zenon DEF Handled, TypeOK, LoopType
<1>5. QED
  BY <1>2, <1>3, <1>4 DEF Input

\* The coroutine is back in async_read after it drained the socket.
LEMMA ReadAgainEdges ==
    ASSUME IInv, Edges, ~Halted, NEW c \in Conns, NEW t, SuspendsIn(c, "read", t),
           Handled(c), RecvData(c), inbox' = Drained(c),
           UNCHANGED <<rdl, fin, rst, nospace>>,
           \A d \in Conns : d # c => room'[d] = room[d]
    PROVE  Edges'
<1>1. TypeOK
  BY Zenon DEF IInv
<1>2. batch'[c] = {} /\ ~Input(c)'
  BY DrainedEdge, Zenon
<1>3. sendAw'[c] = Null
  BY <1>1, Zenon DEF SuspendsIn, TypeOK, ConnType
<1>4. Edge(c)'
  BY <1>2, <1>3, Zenon DEF Edge, InputEdge, BatchEdge, RoomEdge
<1>5. \A d \in Conns : d # c =>
        conn'[d] = conn[d] /\ sendAw'[d] = sendAw[d] /\ inbox'[d] = inbox[d]
  BY <1>1 DEF SuspendsIn, Drained, TypeOK, ConnType, SockType
<1>6. QED
  BY <1>4, <1>5, HandledEdges, Zenon

\* The callback ends the connection.
LEMMA EndEdges ==
    ASSUME IInv, Edges, ~Halted, NEW c \in Conns, Closes(c),
           Handled(c) \/ Stops("crashed")
    PROVE  Edges'
<1>1. CASE Handled(c)
  <2>1. \A d \in Conns : d # c => batch'[d] = batch[d]
    BY <1>1, Zenon DEF Handled, IInv, TypeOK, LoopType
  <2>2. QED
    BY <2>1, CloseEdges, Zenon
<1>2. CASE Stops("crashed")
  BY <1>2, StopEdges, Zenon
<1>3. QED
  BY <1>1, <1>2, Zenon

\* The callbacks of EPOLLIN but for a response that has to wait.
LEMMA ReadEdges ==
    ASSUME IInv, Edges, NEW c \in Conns, NEW len \in 0..MaxReply, NEW again \in BOOLEAN,
           ReadEnds(c) \/ NeedRead(c) \/ ReadTraps(c)
           \/ ReplySent(c, len, again) \/ ReplyFails(c, len)
    PROVE  Edges'
<1>0. TypeOK /\ ~Halted
  BY Zenon DEF IInv, ReadEnds, NeedRead, ReadTraps, ReplySent, ReplyFails, Replying, Reading, Halted
<1>1. CASE ReadEnds(c)
  BY <1>0, <1>1, ReadReturns, EndEdges, Zenon DEF ReadEnds
<1>2. CASE NeedRead(c)
  <2>1. /\ RecvData(c) /\ SuspendsIn(c, "read", Fresh({})) /\ inbox' = Drained(c)
        /\ AfterRead(c, "read") /\ UNCHANGED <<rdl, fin, rst, room, nospace>>
    BY <1>2, Zenon DEF NeedRead
  <2>2. CASE Handled(c)
    BY <1>0, <2>1, <2>2, ReadAgainEdges, Zenon
  <2>3. CASE Stops("crashed")
    BY <2>3, StopEdges, Zenon
  <2>4. QED
    BY <2>1, <2>2, <2>3, ReadReturns, Zenon
<1>3. CASE ReadTraps(c)
  BY <1>3, StopEdges, Zenon DEF ReadTraps
<1>4. CASE ReplySent(c, len, again) /\ again = TRUE
  <2>1. /\ RecvData(c) /\ SuspendsIn(c, "read", Fresh({Fresh({})})) /\ inbox' = Drained(c)
        /\ AfterRead(c, "read") /\ UNCHANGED <<rdl, fin, rst, nospace>>
        /\ room' = [room EXCEPT ![c] = @ - len]
    BY <1>4, Zenon DEF ReplySent, Replying
  <2>2. \A d \in Conns : d # c => room'[d] = room[d]
    BY <1>0, <2>1, Zenon DEF TypeOK, SockType
  <2>3. CASE Handled(c)
    BY <1>0, <2>1, <2>2, <2>3, ReadAgainEdges, Zenon
  <2>4. CASE Stops("crashed")
    BY <2>4, StopEdges
  <2>5. QED
    BY <2>1, <2>3, <2>4, ReadReturns, Zenon
<1>5. CASE ReplySent(c, len, again) /\ again = FALSE
  BY <1>0, <1>5, ReadReturns, EndEdges, Zenon DEF ReplySent
<1>6. CASE ReplyFails(c, len)
  BY <1>0, <1>6, ReadReturns, EndEdges, Zenon DEF ReplyFails
<1>7. QED
  BY <1>1, <1>2, <1>3, <1>4, <1>5, <1>6, Zenon

\* A response that has to wait: either the send found no room, or it was not tried
\* because epoll_wait had seen none.
LEMMA ReplyWaitsEdges ==
    ASSUME IInv, Edges, NEW c \in Conns, NEW len \in 0..MaxReply, NEW again \in BOOLEAN,
           ReplyWaits(c, len, again)
    PROVE  Edges'
<1> DEFINE now == IF CanSend(c) THEN room[c] ELSE 0
<1>1. /\ TypeOK /\ ~Halted /\ EvIn \in batch[c] /\ RecvData(c)
      /\ SuspendsIn(c, "send", Fresh({})) /\ inbox' = Drained(c)
      /\ AfterRead(c, "send") /\ UNCHANGED <<rdl, fin, rst>>
      /\ room' = [room EXCEPT ![c] = @ - now]
      /\ nospace' = [nospace EXCEPT ![c] = @ \/ CanSend(c)]
  BY Zenon DEF IInv, ReplyWaits, Replying, Reading, Halted
<1>2. CASE Handled(c)
  <2>1. batch'[c] = {} /\ ~Input(c)' /\ rst[c] = FALSE
    BY <1>1, <1>2, DrainedEdge, Zenon
  <2>2. /\ room[c] \in 0..MaxRoom /\ room'[c] = room[c] - now
        /\ nospace'[c] = TRUE <=> nospace[c] = TRUE \/ CanSend(c)
    BY <1>1, Zenon DEF TypeOK, SockType
  <2>3. Announced(c)'
    <3>1. CASE CanSend(c)
      BY <2>2, <3>1, SMTT(30) DEF Announced
    <3>2. CASE ~CanSend(c)
      <4>1. conn[c] = "open" /\ EvOut \notin batch[c]
        BY <1>1, <3>2, Zenon DEF CanSend, IInv, EventsHaveTarget
      <4>2. Announced(c)
        BY <1>1, <4>1, Zenon DEF Edges, Edge, BatchEdge
      <4>3. QED
        BY <1>1, <2>2, <3>2, <4>2, SMTT(30) DEF Announced
    <3>3. QED
      BY <3>1, <3>2, Zenon
  <2>4. Edge(c)'
    BY <1>1, <2>1, <2>3, Zenon DEF Edge, InputEdge, BatchEdge, RoomEdge
  <2>5. \A d \in Conns : d # c =>
          /\ conn'[d] = conn[d] /\ sendAw'[d] = sendAw[d]
          /\ inbox'[d] = inbox[d] /\ room'[d] = room[d] /\ nospace'[d] = nospace[d]
    BY <1>1, Zenon DEF SuspendsIn, Drained, TypeOK, ConnType, SockType
  <2>6. QED
    BY <1>1, <1>2, <2>4, <2>5, HandledEdges, Zenon
<1>3. CASE Stops("crashed")
  BY <1>3, StopEdges, Zenon
<1>4. QED
  BY <1>1, <1>2, <1>3, ReadReturns, Zenon

\* The callbacks of EPOLLOUT alone.
LEMMA WriteEdges ==
    ASSUME IInv, Edges, NEW c \in Conns, NoteWritable(c) \/ SendWaits(c) \/ SendDone(c)
    PROVE  Edges'
<1>1. TypeOK /\ ~Halted /\ batch[c] = {EvOut} /\ Handled(c)
  BY Zenon DEF IInv, NoteWritable, SendWaits, SendDone, Sending, Returns, Handled, Halted
<1>2. batch'[c] = {} /\ EvIn \notin batch[c] /\ conn[c] = "open"
  BY <1>1, Zenon DEF Handled, TypeOK, LoopType, IInv, EventsHaveTarget, EvIn, EvOut
<1>3. Input(c) => c \in rdl
  BY <1>1, <1>2, Zenon DEF Edges, Edge, InputEdge
<1>4. CASE NoteWritable(c)
  <2>1. UNCHANGED <<conn, sendAw, rdl, inbox, fin, rst, room, nospace>> /\ sendAw[c] = Null
    BY <1>4, Zenon DEF NoteWritable, sockVars
  <2>2. Edge(c)'
    BY <1>2, <1>3, <2>1, Zenon DEF Edge, InputEdge, BatchEdge, RoomEdge, Input
  <2>3. QED
    BY <1>1, <2>1, <2>2, HandledEdges, Zenon
<1>5. CASE SendWaits(c)
  <2>1. /\ UNCHANGED <<conn, sendAw, rdl, inbox, fin, rst>>
        /\ \/ rst[c] = TRUE /\ UNCHANGED <<room, nospace>>
           \/ /\ rst[c] = FALSE
              /\ room' = [room EXCEPT ![c] = 0] /\ nospace' = [nospace EXCEPT ![c] = TRUE]
    BY <1>1, <1>5, Zenon DEF SendWaits, TypeOK, SockType
  <2>2. Announced(c)' /\ (rst'[c] = TRUE => c \in rdl')
    BY <1>1, <1>3, <2>1, Zenon DEF Announced, Input, TypeOK, SockType
  <2>3. Edge(c)'
    BY <1>2, <1>3, <2>1, <2>2, Zenon DEF Edge, InputEdge, BatchEdge, RoomEdge, Input
  <2>4. \A d \in Conns : d # c => room'[d] = room[d] /\ nospace'[d] = nospace[d]
    BY <1>1, <2>1, Zenon DEF TypeOK, SockType
  <2>5. QED
    BY <1>1, <2>1, <2>3, <2>4, HandledEdges, Zenon
<1>6. CASE SendDone(c) /\ keep[c] /\ except[c] = "none"
  <2>1. /\ SuspendsIn(c, "read", Fresh({})) /\ UNCHANGED <<rdl, inbox, fin, rst, nospace>>
        /\ room' = [room EXCEPT ![c] = @ - left[c]]
    BY <1>6, Zenon DEF SendDone
  <2>2. sendAw'[c] = Null
    BY <1>1, <2>1, Zenon DEF SuspendsIn, TypeOK, ConnType
  <2>3. Edge(c)'
    BY <1>2, <1>3, <2>1, <2>2, Zenon DEF Edge, InputEdge, BatchEdge, RoomEdge, Input
  <2>4. \A d \in Conns : d # c =>
          conn'[d] = conn[d] /\ sendAw'[d] = sendAw[d] /\ room'[d] = room[d]
    BY <1>1, <2>1, Zenon DEF SuspendsIn, TypeOK, ConnType, SockType
  <2>5. QED
    BY <1>1, <2>1, <2>3, <2>4, HandledEdges, Zenon
<1>7. CASE SendDone(c) /\ ~(keep[c] /\ except[c] = "none")
  <2>1. Closes(c)
    BY <1>7, Zenon DEF SendDone
  <2>2. QED
    BY <1>1, <2>1, EndEdges, Zenon
<1>8. QED
  BY <1>4, <1>5, <1>6, <1>7, Zenon

-----------------------------------------------------------------------------

\* Before the first poll there is no connection.
LEMMA InitEdges == Init => Edges
BY Zenon DEF Init, Edges, Edge

\* No step loses an edge.
LEMMA NextEdges == IInv /\ Edges /\ [Next]_vars => Edges'
<1> SUFFICES ASSUME IInv, Edges, [Next]_vars PROVE Edges'
  BY Zenon
<1>1. CASE Kernel
  BY <1>1, PeerEdges, ReceiveEdges, QuietEdges, Zenon DEF Kernel
<1>2. CASE StartPass \/ DeleteTask \/ Repost
  BY <1>2, QuietEdges, Zenon
<1>3. CASE TimeOut
  BY <1>3, TimeOutEdges, Zenon
<1>4. CASE Poll
  BY <1>4, PollEdges, Zenon
<1>5. CASE AcceptFails
  BY <1>5, StopEdges, Zenon DEF AcceptFails
<1>6. ASSUME NEW c \in Conns, Accept(c) PROVE Edges'
  BY <1>6, AcceptEdges, Zenon
<1>7. ASSUME NEW c \in Conns, Callback(c) PROVE Edges'
  <2>1. 0 \in 0..MaxReply
    BY LoopAssumption
  <2>2. CASE ReadEnds(c) \/ NeedRead(c) \/ ReadTraps(c)
    BY <2>1, <2>2, ReadEdges, Zenon
  <2>3. ASSUME NEW len \in 0..MaxReply, NEW again \in BOOLEAN,
               ReplySent(c, len, again) \/ ReplyWaits(c, len, again)
        PROVE  Edges'
    BY <2>3, ReadEdges, ReplyWaitsEdges, Zenon
  <2>4. ASSUME NEW len \in 0..MaxReply, ReplyFails(c, len) PROVE Edges'
    BY <2>4, ReadEdges, Zenon
  <2>5. CASE NoteWritable(c) \/ SendWaits(c) \/ SendDone(c)
    BY <2>5, WriteEdges, Zenon
  <2>6. QED
    BY <1>7, <2>2, <2>3, <2>4, <2>5, ZenonT(60) DEF Callback
<1>8. CASE UNCHANGED vars
  <2>1. UNCHANGED <<phase, conn, sendAw, batch, rdl, inbox, fin, rst, room, nospace>>
    BY <1>8, Zenon DEF vars, loopVars, connVars, sockVars
  <2>2. CASE Halted
    BY <2>1, <2>2, Zenon DEF Edges, Halted
  <2>3. CASE ~Halted
    BY <2>1, <2>3, NoSocket, Zenon DEF SameSocket
  <2>4. QED
    BY <2>2, <2>3, Zenon
<1>9. QED
  BY <1>1, <1>2, <1>3, <1>4, <1>5, <1>6, <1>7, <1>8 DEF Next, Loop, Over

\* Edges is an invariant of the server thread.
LEMMA SpecEdges == Spec => [](IInv /\ Edges)
  BY InitIInv, NextIInv, InitEdges, NextEdges, PTL DEF Spec

\* No edge-triggered event is lost: a coroutine suspended in async_read while data
\* is there, or in async_send while room is there, has an event on its way.
THEOREM NoEdgeIsLost == Spec => []NoLostEdge
<1>1. IInv /\ Edges => NoLostEdge
  <2> SUFFICES ASSUME IInv, Edges, ~Halted, NEW c \in Conns, conn[c] = "open"
               PROVE  /\ readAw[c] # Null /\ EvIn \in Mask(c) => c \in rdl \/ EvIn \in batch[c]
                      /\ sendAw[c] # Null /\ EvOut \in Mask(c) => c \in rdl \/ EvOut \in batch[c]
    BY Zenon DEF NoLostEdge
  <2>1. TypeOK /\ InputEdge(c) /\ RoomEdge(c)
    BY Zenon DEF IInv, Edges, Edge
  <2>2. /\ EvIn \in Mask(c) => Input(c)
        /\ EvOut \in Mask(c) => rst[c] = TRUE \/ room[c] # 0
    BY <2>1 DEF Mask, Input, EvIn, EvOut, TypeOK, SockType
  <2>3. QED
    BY <2>1, <2>2, Zenon DEF InputEdge, RoomEdge, Announced
<1>2. QED
  BY SpecEdges, <1>1, PTL

\* async_read returns 0 only for a peer that has closed: an EPOLLIN that finds
\* neither data nor the end of the stream does not exist.
THEOREM ZeroIsTheEnd == Spec => []ZeroMeansClosed
<1>1. IInv /\ Edges => ZeroMeansClosed
  <2> SUFFICES ASSUME IInv, Edges, NEW c \in Conns, Reading(c), RecvZero(c)
               PROVE  fin[c]
    BY Zenon DEF ZeroMeansClosed
  <2>1. TypeOK /\ ~Halted /\ conn[c] = "open" /\ EvIn \in batch[c]
    BY Zenon DEF IInv, EventsHaveTarget, Reading, Halted
  <2>2. Input(c)
    BY <2>1, Zenon DEF Edges, Edge, InputEdge
  <2>3. QED
    BY <2>1, <2>2 DEF Input, RecvZero, RecvThrows, TypeOK, SockType
<1>2. QED
  BY SpecEdges, <1>1, PTL

=============================================================================
