-------------------------- MODULE WsManagerProofs ---------------------------
(***************************************************************************)
(* The thread pool loses no wakeup, whatever its tasks are; WS_manager     *)
(* uses it as it may be used, and keeps its two tables of ids and          *)
(* descriptors in step.                                                    *)
(***************************************************************************)
EXTENDS WsManager, Integers, TLAPS

\* A worker that is about to wait holds _lock, so nothing was pushed since it
\* looked; and no worker ends while the pool runs.
PoolInv ==
    /\ PoolTypeOK
    /\ Locked => tasks = <<>>
    /\ run => \A w \in Workers : at[w] # "exited"
    /\ \A c \in Callers : call[c] = "push" => arg[c] \in Tasks
    /\ \A w \in Workers : at[w] = "run" => task[w] \in Tasks
    /\ NoLostWakeup

\* The first state of the pool.
LEMMA PoolInitInv == PoolInit => PoolInv
<1> SUFFICES ASSUME PoolInit PROVE PoolInv
  BY Zenon
<1>1. PoolTypeOK
  BY DEF PoolInit, PoolTypeOK
<1>2. QED
  BY <1>1, Zenon DEF PoolInit, PoolInv, Locked, NoLostWakeup

\* A step of a caller inside commit().
LEMMA CallerInv ==
    ASSUME PoolInv, NEW c \in Callers,
           (\E t \in Tasks : Commit(c, t)) \/ Push(c) \/ NotifyOne(c)
    PROVE  PoolInv'
<1>1. PoolTypeOK
  BY Zenon DEF PoolInv
<1>2. CASE \E t \in Tasks : Commit(c, t)
  <2>1. PICK t \in Tasks : Commit(c, t)
    BY <1>2, Zenon
  <2>2. PoolTypeOK'
    BY <1>1, <2>1, Zenon DEF Commit, PoolTypeOK
  <2>3. \A d \in Callers : call'[d] = "push" => arg'[d] \in Tasks
    BY <1>1, <2>1, Zenon DEF Commit, PoolTypeOK, PoolInv
  <2>4. QED
    BY <1>1, <2>1, <2>2, <2>3 DEF Commit, PoolTypeOK, PoolInv, Locked, NoLostWakeup
<1>3. CASE Push(c)
  <2>1. arg[c] \in Tasks
    BY <1>3, Zenon DEF Push, PoolInv
  <2>2. tasks' \in Seq(Tasks)
    BY <1>1, <1>3, <2>1 DEF Push, PoolTypeOK
  <2>3. PoolTypeOK'
    BY <1>1, <1>3, <2>2, Zenon DEF Push, PoolTypeOK
  <2>4. ~Locked'
    BY <1>3, Zenon DEF Push, Locked
  <2>5. call'[c] = "notify"
    BY <1>1, <1>3, Zenon DEF Push, PoolTypeOK
  <2>6. \A d \in Callers : call'[d] = "push" => arg'[d] \in Tasks
    BY <1>1, <1>3, Zenon DEF Push, PoolTypeOK, PoolInv
  <2>7. run' => \A w \in Workers : at'[w] # "exited"
    BY <1>3, Zenon DEF Push, PoolInv
  <2>8. \A w \in Workers : at'[w] = "run" => task'[w] \in Tasks
    BY <1>3, Zenon DEF Push, PoolInv
  <2>9. QED
    BY <2>3, <2>4, <2>5, <2>6, <2>7, <2>8, Zenon DEF PoolInv, NoLostWakeup
<1>4. CASE NotifyOne(c)
  <2>1. \/ at' = at /\ \A w \in Workers : at[w] # "wait"
        \/ \E w \in Workers : at[w] = "wait" /\ at' = [at EXCEPT ![w] = "lock"]
    BY <1>4, Zenon DEF NotifyOne, WokenOne
  <2>2. PoolTypeOK'
    <3>1. at' \in [Workers -> {"loop", "lock", "park", "wait", "run", "exited"}]
      BY <1>1, <2>1, Zenon DEF PoolTypeOK
    <3>2. QED
      BY <1>1, <1>4, <3>1, Zenon DEF NotifyOne, PoolTypeOK
  <2>3. \A w \in Workers : at'[w] = at[w] \/ at'[w] = "lock"
    BY <1>1, <2>1, Zenon DEF PoolTypeOK
  <2>4. Locked' => tasks' = <<>>
    BY <1>4, <2>3, Zenon DEF NotifyOne, PoolInv, Locked
  <2>5. run' => \A w \in Workers : at'[w] # "exited"
    BY <1>4, <2>3, Zenon DEF NotifyOne, PoolInv
  <2>6. \A d \in Callers : call'[d] = "push" => arg'[d] \in Tasks
    BY <1>1, <1>4, Zenon DEF NotifyOne, PoolTypeOK, PoolInv
  <2>7. run' /\ tasks' # <<>> => \E w \in Workers : at'[w] \in {"loop", "lock", "run"}
    <3>1. CASE \A w \in Workers : at[w] # "wait" /\ at' = at
      <4>1. PICK w \in Workers : TRUE
        BY PoolAssumption, Zenon
      <4>2. at'[w] \in {"loop", "lock", "park", "wait", "run", "exited"}
        BY <2>2, Zenon DEF PoolTypeOK
      <4>3. QED
        BY <2>4, <2>5, <3>1, <4>2, Zenon DEF Locked
    <3>2. CASE \E w \in Workers : at[w] = "wait" /\ at' = [at EXCEPT ![w] = "lock"]
      BY <1>1, <3>2, Zenon DEF PoolTypeOK
    <3>3. QED
      BY <2>1, <3>1, <3>2, Zenon
  <2>8. \A w \in Workers : at'[w] = "run" => task'[w] \in Tasks
    BY <1>4, <2>3, Zenon DEF NotifyOne, PoolInv
  <2>9. QED
    BY <2>2, <2>4, <2>5, <2>6, <2>7, <2>8, Zenon DEF PoolInv, NoLostWakeup
<1>5. QED
  BY <1>2, <1>3, <1>4, Zenon

\* A step of a worker: where it goes, and what becomes of the queue.
LEMMA WorkerInv ==
    ASSUME PoolInv, NEW w \in Workers, Worker(w) \/ Finish(w) \/ WakeUp(w)
    PROVE  PoolInv'
<1>1. PoolTypeOK
  BY Zenon DEF PoolInv
<1>2. run' = run /\ call' = call /\ arg' = arg /\ dtor' = dtor
  BY Zenon DEF Worker, Finish, WakeUp, Again, FindNothing, Park, Take, Leave
<1>3. tasks' = tasks \/ (tasks # <<>> /\ tasks' = Tail(tasks) /\ ~Locked)
  BY Zenon DEF Worker, Finish, WakeUp, Again, FindNothing, Park, Take, Leave
<1>4. tasks' \in Seq(Tasks)
  BY <1>1, <1>3, SMTT(30) DEF PoolTypeOK
<1>5. task' \in [Workers -> Tasks \cup {Null}]
  <2>1. CASE Take(w)
    <3>1. Head(tasks) \in Tasks
      BY <1>1, <2>1 DEF Take, PoolTypeOK
    <3>2. QED
      BY <1>1, <2>1, <3>1, Zenon DEF Take, PoolTypeOK
  <2>2. CASE task' = task \/ task' = [task EXCEPT ![w] = Null]
    BY <1>1, <2>2, Zenon DEF PoolTypeOK
  <2>3. QED
    BY <2>1, <2>2, Zenon DEF Worker, Finish, WakeUp, Again, FindNothing, Park, Leave
<1>6. PICK s \in {"loop", "lock", "park", "wait", "run", "exited"} :
         /\ at' = [at EXCEPT ![w] = s]
         /\ s = "park" => ~Locked /\ tasks' = <<>>
         /\ s = "wait" => at[w] = "park" /\ tasks' = tasks
         /\ s = "exited" => ~run
  BY Zenon DEF Worker, Finish, WakeUp, Again, FindNothing, Park, Take, Leave
<1>7. at' \in [Workers -> {"loop", "lock", "park", "wait", "run", "exited"}]
  BY <1>1, <1>6, Zenon DEF PoolTypeOK
<1>8. at'[w] = s /\ \A v \in Workers : v # w => at'[v] = at[v]
  BY <1>1, <1>6, Zenon DEF PoolTypeOK
<1>9. PoolTypeOK'
  BY <1>1, <1>2, <1>4, <1>5, <1>7, Zenon DEF PoolTypeOK
<1>10. Locked' => tasks' = <<>>
  <2>1. CASE s = "park"
    BY <1>6, <2>1, Zenon
  <2>2. CASE s # "park"
    <3>1. Locked' => Locked
      BY <1>8, <2>2, Zenon DEF Locked
    <3>2. QED
      BY <1>3, <3>1, Zenon DEF PoolInv
  <2>3. QED
    BY <2>1, <2>2, Zenon
<1>11. run' => \A v \in Workers : at'[v] # "exited"
  BY <1>2, <1>6, <1>8, Zenon DEF PoolInv
<1>12. NoLostWakeup'
  <2>1. CASE s \in {"loop", "lock", "run"}
    BY <1>8, <2>1, Zenon DEF NoLostWakeup
  <2>2. CASE s = "park" \/ s = "wait"
    BY <1>6, <2>2, Zenon DEF NoLostWakeup, PoolInv, Locked
  <2>3. CASE s = "exited"
    BY <1>2, <1>6, <2>3, Zenon DEF NoLostWakeup
  <2>4. QED
    BY <2>1, <2>2, <2>3, Zenon
<1>13. \A c \in Callers : call'[c] = "push" => arg'[c] \in Tasks
  BY <1>2, Zenon DEF PoolInv
<1>14. \A v \in Workers : at'[v] = "run" => task'[v] \in Tasks
  <2>1. s = "run" => task'[w] \in Tasks
    <3>1. CASE Take(w)
      BY <1>1, <3>1 DEF Take, PoolTypeOK
    <3>2. CASE ~Take(w)
      BY <1>1, <1>8, <3>2, Zenon DEF Worker, Finish, WakeUp, Again, FindNothing, Park, Leave, PoolTypeOK
    <3>3. QED
      BY <3>1, <3>2, Zenon
  <2>2. \A v \in Workers : v # w => task'[v] = task[v]
    BY <1>1, Zenon DEF Worker, Finish, WakeUp, Again, FindNothing, Park, Take, Leave, PoolTypeOK
  <2>3. QED
    BY <1>8, <2>1, <2>2, Zenon DEF PoolInv
<1>15. QED
  BY <1>9, <1>10, <1>11, <1>12, <1>13, <1>14, Zenon DEF PoolInv

\* The destructor.
LEMMA DtorInv ==
    ASSUME PoolInv, Stop \/ NotifyAll \/ Join
    PROVE  PoolInv'
<1>1. PoolTypeOK
  BY Zenon DEF PoolInv
<1>2. CASE Stop
  BY <1>1, <1>2, Zenon DEF Stop, PoolInv, PoolTypeOK, Locked, NoLostWakeup
<1>3. CASE NotifyAll
  <2>1. PoolTypeOK'
    BY <1>1, <1>3, Zenon DEF NotifyAll, PoolTypeOK
  <2>2. \A w \in Workers : at'[w] = IF at[w] = "wait" THEN "lock" ELSE at[w]
    BY <1>3, Zenon DEF NotifyAll
  <2>3. Locked' => tasks' = <<>>
    BY <1>3, <2>2, Zenon DEF NotifyAll, PoolInv, Locked
  <2>4. NoLostWakeup'
    BY <1>3, <2>2, Zenon DEF NotifyAll, PoolInv, NoLostWakeup
  <2>5. \A w \in Workers : at'[w] = "run" => task'[w] \in Tasks
    BY <1>3, <2>2, Zenon DEF NotifyAll, PoolInv
  <2>6. QED
    BY <1>3, <2>1, <2>2, <2>3, <2>4, <2>5, Zenon DEF NotifyAll, PoolInv
<1>4. CASE Join
  BY <1>1, <1>4, Zenon DEF Join, PoolInv, PoolTypeOK, Locked, NoLostWakeup
<1>5. QED
  BY <1>2, <1>3, <1>4, Zenon

\* Every step of the pool.
LEMMA PoolNextInv == PoolInv /\ [PoolNext]_poolVars => PoolInv'
<1> SUFFICES ASSUME PoolInv, [PoolNext]_poolVars PROVE PoolInv'
  BY Zenon
<1>1. CASE UNCHANGED poolVars
  BY <1>1, Zenon DEF poolVars, PoolInv, PoolTypeOK, Locked, NoLostWakeup
<1>2. CASE PoolNext
  BY <1>2, CallerInv, WorkerInv, DtorInv, Zenon DEF PoolNext
<1>3. QED
  BY <1>1, <1>2, Zenon

\* A pool used by any callers in any order: a task that commit() has queued while
\* the workers were looking for one is never left without a worker that will find
\* it, because commit() pushes under _lock.
THEOREM PoolLosesNoWakeup == PoolSpec => []NoLostWakeup
<1>1. PoolInv => NoLostWakeup
  BY Zenon DEF PoolInv
<1>2. QED
  BY <1>1, PoolInitInv, PoolNextInv, PTL DEF PoolSpec

-----------------------------------------------------------------------------
\* The manager above the pool.
Inv == TypeOK /\ PoolInv /\ RegistrySound

\* A step of the manager is a step of the pool or leaves it alone: commit() is
\* called with a message for a descriptor that was looked up.
LEMMA StepOfPool == TypeOK /\ [Next]_vars => [PoolNext]_poolVars
<1> SUFFICES ASSUME TypeOK, [Next]_vars PROVE [PoolNext]_poolVars
  BY Zenon
<1>1. CASE UNCHANGED vars
  BY <1>1, Zenon DEF vars
<1>2. ASSUME NEW c \in Callers, NEW m \in Msgs, NEW b \in BOOLEAN,
             NEW i \in Ids, send_msg_by_id(c, i, m, b)
      PROVE  PoolNext
  <2>1. u_map[i] \in Fds
    BY <1>2, Zenon DEF send_msg_by_id, TypeOK
  <2>2. [fd |-> u_map[i], msg |-> m, close |-> b] \in Tasks
    BY <2>1, WsAssumption, Zenon
  <2>3. QED
    BY <1>2, <2>2, Zenon DEF send_msg_by_id, PoolNext
<1>3. ASSUME NEW c \in Callers, NEW m \in Msgs, NEW b \in BOOLEAN,
             NEW f \in Fds, send_ws_string(c, f, m, b)
      PROVE  PoolNext
  <2>1. [fd |-> f, msg |-> m, close |-> b] \in Tasks
    BY WsAssumption, Zenon
  <2>2. QED
    BY <1>3, <2>1, Zenon DEF send_ws_string, PoolNext
<1>4. ASSUME NEW w \in Workers, Body(w) PROVE [PoolNext]_poolVars
  BY <1>4, Zenon DEF Body, Lock, Writen, Done, PoolNext
<1>5. CASE \/ \E k \in Conns, f \in Fds : Accept(k, f)
           \/ \E f \in Fds : CloseConn(f)
           \/ \E i \in Ids, f \in Fds : regist(i, f) \/ unregist(i, f)
           \/ \E c \in Callers, i \in Ids : close_by_key(c, i)
  BY <1>5, Zenon DEF Accept, CloseConn, regist, unregist, close_by_key
<1>6. CASE \E c \in Callers : Caller(c)
  BY <1>6, Zenon DEF Caller, Close, PoolNext
<1>7. CASE (\E w \in Workers : Worker(w) \/ WakeUp(w)) \/ Stop \/ NotifyAll \/ Join
  BY <1>7, Zenon DEF PoolNext
<1>8. QED
  BY <1>1, <1>2, <1>3, <1>4, <1>5, <1>6, <1>7, Zenon DEF Next

\* The variables of the manager keep their types.
LEMMA TypeStep == Inv /\ [Next]_vars => TypeOK'
<1> SUFFICES ASSUME Inv, [Next]_vars PROVE TypeOK'
  BY Zenon
<1>1. TypeOK /\ PoolInv
  BY Zenon DEF Inv
<1>2. PoolTypeOK'
  BY <1>1, StepOfPool, PoolNextInv, Zenon DEF PoolInv
<1>3. CASE UNCHANGED vars
  BY <1>1, <1>2, <1>3, Zenon DEF vars, wsVars, TypeOK
<1>4. ASSUME NEW k \in Conns, NEW f \in Fds, Accept(k, f) PROVE TypeOK'
  BY <1>1, <1>2, <1>4, Zenon DEF Accept, TypeOK
<1>5. ASSUME NEW f \in Fds, CloseConn(f) PROVE TypeOK'
  BY <1>1, <1>2, <1>5, Zenon DEF CloseConn, TypeOK
<1>6. ASSUME NEW i \in Ids, NEW f \in Fds, regist(i, f) \/ unregist(i, f) PROVE TypeOK'
  BY <1>1, <1>2, <1>6, ZenonT(60) DEF regist, unregist, TypeOK
<1>7. ASSUME NEW c \in Callers, NEW m \in Msgs, NEW b \in BOOLEAN,
             \/ \E i \in Ids : send_msg_by_id(c, i, m, b)
             \/ \E f \in Fds : send_ws_string(c, f, m, b)
      PROVE  TypeOK'
  BY <1>1, <1>2, <1>7, Zenon DEF send_msg_by_id, send_ws_string, TypeOK
<1>8. ASSUME NEW c \in Callers, NEW i \in Ids, close_by_key(c, i) PROVE TypeOK'
  BY <1>1, <1>2, <1>8, Zenon DEF close_by_key, TypeOK
<1>9. ASSUME NEW c \in Callers, Caller(c) PROVE TypeOK'
  <2>1. CASE Close(c)
    <3>1. closing[c] \in Fds /\ shut' \subseteq Conns
      BY <1>1, <2>1, Zenon DEF Close, Shutdown, TypeOK
    <3>2. closing' \in [Callers -> Fds \cup {Null}]
      BY <1>1, <2>1, Zenon DEF Close, TypeOK
    <3>3. QED
      BY <1>1, <1>2, <2>1, <3>1, <3>2, Zenon DEF Close, TypeOK
  <2>2. CASE UNCHANGED wsVars
    BY <1>1, <1>2, <2>2, Zenon DEF wsVars, TypeOK
  <2>3. QED
    BY <1>9, <2>1, <2>2, Zenon DEF Caller
<1>10. ASSUME NEW w \in Workers, Body(w) PROVE TypeOK'
  <2>1. at[w] = "run"
    BY <1>10, Zenon DEF Body, Lock, Writen, Done, Finish
  <2>2. task[w] \in Tasks
    BY <1>1, <2>1, Zenon DEF PoolInv
  <2>3. task[w].fd \in Fds /\ task[w].msg \in Msgs
    BY <2>2, WsAssumption, Zenon
  <2>4. 0 \in 0..Pieces /\ Pieces \in Nat
    BY WsAssumption
  <2>5. nLeft' \in [Workers -> 0..Pieces]
    <3>1. CASE Lock(w)
      BY <1>1, <2>4, <3>1 DEF Lock, TypeOK
    <3>2. CASE Writen(w)
      <4>1. nLeft[w] - 1 \in 0..Pieces
        BY <1>1, <2>4, <3>2 DEF Writen, TypeOK
      <4>2. QED
        BY <1>1, <3>2, <4>1, Zenon DEF Writen, TypeOK
    <3>3. CASE Done(w)
      BY <1>1, <2>4, <3>3, Zenon DEF Done, TypeOK
    <3>4. QED
      BY <1>10, <3>1, <3>2, <3>3, Zenon DEF Body
  <2>6. fd_mutex' \in [0..(Stripes - 1) -> Workers \cup {Null}]
    <3> DEFINE p == Stripe(task[w].fd)
    <3>1. \/ fd_mutex' = fd_mutex
          \/ fd_mutex' = [fd_mutex EXCEPT ![p] = w]
          \/ fd_mutex' = [fd_mutex EXCEPT ![p] = Null]
      BY <1>10, Zenon DEF Body, Lock, Writen, Done
    <3> HIDE DEF p
    <3>2. QED
      BY <1>1, <3>1, Zenon DEF TypeOK
  <2>7. stream' \in [Conns -> Seq(Msgs)]
    <3> DEFINE k == peer[task[w].fd]
               g == [stream EXCEPT ![k] = Append(@, task[w].msg)]
    <3>1. k \in Conns => g \in [Conns -> Seq(Msgs)]
      BY <1>1, <2>3 DEF TypeOK
    <3>2. Writable(task[w].fd) => k \in Conns
      BY <1>1, <2>3, Zenon DEF Writable, TypeOK
    <3>3. stream' = stream \/ (stream' = g /\ Writable(task[w].fd))
      BY <1>10, Zenon DEF Body, Lock, Writen, Done
    <3> HIDE DEF g, k
    <3>4. QED
      BY <1>1, <3>1, <3>2, <3>3, Zenon DEF TypeOK
  <2>8. shut' \subseteq Conns
    <3>1. shut' = shut \/ shut' = shut \cup ({peer[task[w].fd]} \ {Null})
      BY <1>10, Zenon DEF Body, Lock, Writen, Done, Shutdown
    <3>2. peer[task[w].fd] \in Conns \cup {Null} /\ shut \subseteq Conns
      BY <1>1, <2>3, Zenon DEF TypeOK
    <3>3. QED
      BY <3>1, <3>2, Zenon
  <2>9. UNCHANGED <<u_map, fd_set, peer, closing, unsent>>
    BY <1>10, Zenon DEF Body, Lock, Writen, Done
  <2>10. QED
    BY <1>1, <1>2, <2>5, <2>6, <2>7, <2>8, <2>9, Zenon DEF TypeOK
<1>11. CASE UNCHANGED wsVars
  BY <1>1, <1>2, <1>11, Zenon DEF wsVars, TypeOK
<1>12. QED
  BY <1>3, <1>4, <1>5, <1>6, <1>7, <1>8, <1>9, <1>10, <1>11, Zenon DEF Next

\* u_map and fd_set change together.
LEMMA RegistryStep == Inv /\ [Next]_vars => RegistrySound'
<1> SUFFICES ASSUME Inv, [Next]_vars PROVE RegistrySound'
  BY Zenon
<1>1. TypeOK /\ RegistrySound
  BY Zenon DEF Inv
<1>2. ASSUME NEW i \in Ids, NEW f \in Fds, regist(i, f) PROVE RegistrySound'
  <2>1. u_map[i] = Null /\ f \notin fd_set /\ f # Null
    BY <1>2, WsAssumption, Zenon DEF regist, MayRegist
  <2>2. u_map'[i] = f /\ \A j \in Ids : j # i => u_map'[j] = u_map[j]
    BY <1>1, <1>2, Zenon DEF regist, TypeOK
  <2>3. fd_set' = fd_set \cup {f}
    BY <1>2, Zenon DEF regist
  <2>4. \A j \in Ids : u_map[j] # f
    BY <1>1, <2>1, Zenon DEF RegistrySound
  <2>5. fd_set' = {u_map'[j] : j \in Ids} \ {Null}
    BY <1>1, <2>1, <2>2, <2>3 DEF RegistrySound
  <2>6. QED
    BY <1>1, <2>2, <2>4, <2>5, Zenon DEF RegistrySound
<1>3. ASSUME NEW i \in Ids, NEW f \in Fds, unregist(i, f) PROVE RegistrySound'
  <2>1. u_map[i] = f /\ f # Null /\ fd_set' = fd_set \ {f}
    BY <1>3, WsAssumption, Zenon DEF unregist
  <2>2. u_map'[i] = Null /\ \A j \in Ids : j # i => u_map'[j] = u_map[j]
    BY <1>1, <1>3, Zenon DEF unregist, TypeOK
  <2>3. \A j \in Ids : j # i => u_map[j] # f
    BY <1>1, <2>1, Zenon DEF RegistrySound
  <2>4. fd_set' = {u_map'[j] : j \in Ids} \ {Null}
    BY <1>1, <2>1, <2>2, <2>3 DEF RegistrySound
  <2>5. QED
    BY <1>1, <2>2, <2>4, Zenon DEF RegistrySound
<1>4. CASE UNCHANGED <<u_map, fd_set>>
  BY <1>1, <1>4, Zenon DEF RegistrySound
<1>5. CASE ~UNCHANGED <<u_map, fd_set>>
  <2>1. \E i \in Ids, f \in Fds : regist(i, f) \/ unregist(i, f)
    BY <1>5, Zenon DEF Next, vars, wsVars, Accept, CloseConn, send_msg_by_id, send_ws_string,
                close_by_key, Caller, Close, Body, Lock, Writen, Done
  <2>2. QED
    BY <1>2, <1>3, <2>1, Zenon
<1>6. QED
  BY <1>4, <1>5, Zenon

\* The first state of the manager.
LEMMA InitInv == Init => Inv
<1> SUFFICES ASSUME Init PROVE Inv
  BY Zenon
<1>1. PoolInv
  BY PoolInitInv, Zenon DEF Init
<1>2. TypeOK
  <2>1. 0 \in 0..Pieces
    BY WsAssumption
  <2>2. stream \in [Conns -> Seq(Msgs)]
    BY DEF Init
  <2>3. QED
    BY <1>1, <2>1, <2>2, Zenon DEF Init, TypeOK, PoolInv
<1>3. RegistrySound
  BY Zenon DEF Init, RegistrySound
<1>4. QED
  BY <1>1, <1>2, <1>3, Zenon DEF Inv

\* All of it is kept by every step.
LEMMA SpecInv == Spec => []Inv
<1>1. Inv /\ [Next]_vars => Inv'
  <2>1. Inv /\ [Next]_vars => PoolInv'
    BY StepOfPool, PoolNextInv, Zenon DEF Inv
  <2>2. QED
    BY <2>1, TypeStep, RegistryStep, Zenon DEF Inv
<1>2. QED
  BY <1>1, InitInv, PTL DEF Spec

\* The variables of WS_manager and of its pool keep their types and bounds.
THEOREM TypeCorrect == Spec => []TypeOK
<1>1. Inv => TypeOK
  BY Zenon DEF Inv
<1>2. QED
  BY <1>1, SpecInv, PTL

\* regist() and unregist() keep u_map and fd_set in step: one descriptor for an id
\* and one id for a descriptor, whatever the threads do in between.
THEOREM RegistryCorrect == Spec => []RegistrySound
<1>1. Inv => RegistrySound
  BY Zenon DEF Inv
<1>2. QED
  BY <1>1, SpecInv, PTL

\* WS_manager implements the pool as its interface promises it: what is true of
\* every use of the pool is true of this one.
THEOREM ManagerUsesPool == Spec => PoolSpec
<1>1. Init => PoolInit
  BY Zenon DEF Init
<1>2. Inv /\ [Next]_vars => [PoolNext]_poolVars
  BY StepOfPool, Zenon DEF Inv
<1>3. QED
  BY <1>1, <1>2, SpecInv, PTL DEF Spec, PoolSpec

\* No message that was committed is left in the queue with every worker asleep.
THEOREM NoWakeupLost == Spec => []NoLostWakeup
  BY ManagerUsesPool, PoolLosesNoWakeup, PTL

-----------------------------------------------------------------------------
(***************************************************************************)
(* Why messages are not mixed.  A message is in one place at a time: not   *)
(* yet sent, with a caller inside commit(), in the queue, or with the      *)
(* worker that writes it.  While that worker has pieces left it holds the  *)
(* mutex of the descriptor, and no two descriptors lead to one connection. *)
(***************************************************************************)

\* The places of a message m: a caller, a position of the queue, a worker.
Pushes(c, m) == call[c] = "push" /\ arg[c].msg = m
\* Message m is the one of the i-th task of the queue, or of the one worker w runs.
Waits(i, m) == tasks[i].msg = m
Runs(w, m) == at[w] = "run" /\ task[w].msg = m

\* The message is in at most one of them, and in none while nobody has sent it.
OneHolder(m) ==
    /\ \A c, d \in Callers : Pushes(c, m) /\ Pushes(d, m) => c = d
    /\ \A i, j \in 1..Len(tasks) : Waits(i, m) /\ Waits(j, m) => i = j
    /\ \A v, w \in Workers : Runs(v, m) /\ Runs(w, m) => v = w
    /\ \A c \in Callers, i \in 1..Len(tasks) : ~(Pushes(c, m) /\ Waits(i, m))
    /\ \A c \in Callers, w \in Workers : ~(Pushes(c, m) /\ Runs(w, m))
    /\ \A i \in 1..Len(tasks), w \in Workers : ~(Waits(i, m) /\ Runs(w, m))
    /\ m \in unsent =>
          /\ \A c \in Callers : ~Pushes(c, m)
          /\ \A i \in 1..Len(tasks) : ~Waits(i, m)
          /\ \A w \in Workers : ~Runs(w, m)

\* A message of which a piece was written is with a worker that has more, or done.
Begun(m) ==
    /\ m \notin unsent
    /\ \A c \in Callers : ~Pushes(c, m)
    /\ \A i \in 1..Len(tasks) : ~Waits(i, m)
    /\ \A w \in Workers : Runs(w, m) => nLeft[w] > 0

\* Messages are where they may be.
Places ==
    /\ \A m \in Msgs : OneHolder(m)
    /\ \A k \in Conns : \A n \in 1..Len(stream[k]) : Begun(stream[k][n])

\* A worker that writes holds the mutex of its descriptor.
WriterLocks ==
    \A w \in Workers : nLeft[w] > 0 =>
        at[w] = "run" /\ fd_mutex[Stripe(task[w].fd)] = w

\* What it has written is the end of what the connection got.
Last(s, m) == \A n \in 1..Len(s) : s[n] = m => s[Len(s)] = m

\* A worker in the middle of a frame writes at the end of its peer's stream.
WriterIsLast ==
    \A w \in Workers : nLeft[w] > 0 /\ peer[task[w].fd] # Null =>
        Last(stream[peer[task[w].fd]], task[w].msg)

\* A connection is behind one descriptor, and got nothing before it was.
PeersApart ==
    /\ \A f, g \in Fds : peer[f] = peer[g] /\ peer[f] # Null => f = g
    /\ \A k \in Conns : k \notin Opened => stream[k] = <<>>

\* The invariant that makes FramesWhole inductive.
WriteInv == Places /\ WriterLocks /\ WriterIsLast /\ PeersApart /\ FramesWhole

\* Every descriptor has a mutex.
LEMMA StripeInRange ==
    ASSUME NEW f \in Fds
    PROVE  Stripe(f) \in 0..(Stripes - 1)
<1>1. f \in Nat /\ Stripes \in Nat /\ Stripes > 0
  BY WsAssumption
<1>2. f % Stripes \in 0..(Stripes - 1)
  BY <1>1
<1>3. QED
  BY <1>2, Zenon DEF Stripe

\* The task of a worker that runs has a descriptor and a message.
LEMMA RunsTask ==
    ASSUME Inv, NEW w \in Workers, at[w] = "run"
    PROVE  /\ task[w].fd \in Fds /\ task[w].msg \in Msgs
           /\ Stripe(task[w].fd) \in 0..(Stripes - 1)
<1>1. task[w] \in Tasks
  BY Zenon DEF Inv, PoolInv
<1>2. task[w].fd \in Fds /\ task[w].msg \in Msgs
  BY <1>1, WsAssumption, Zenon
<1>3. QED
  BY <1>2, StripeInRange, Zenon

\* No message of s is mixed with another one.
Whole(s) == \A i, j \in DOMAIN s : s[i] = s[j] => \A n \in i..j : s[n] = s[i]

\* One more piece at the end of a stream keeps its messages whole.
LEMMA AppendWhole ==
    ASSUME NEW s \in Seq(Msgs), NEW m \in Msgs, Last(s, m), Whole(s)
    PROVE  Last(Append(s, m), m) /\ Whole(Append(s, m))
<1> DEFINE t == Append(s, m)
           L == Len(s)
<1>1. /\ L \in Nat /\ DOMAIN s = 1..L /\ DOMAIN t = 1..(L + 1) /\ Len(t) = L + 1
      /\ t[L + 1] = m /\ \A n \in 1..L : t[n] = s[n]
  OBVIOUS
<1>2. \A n \in 1..L : s[n] = m => s[L] = m
  BY Zenon DEF Last
<1>3. \A i, j \in 1..L : s[i] = s[j] => \A n \in i..j : s[n] = s[i]
  BY <1>1, Zenon DEF Whole
<1> HIDE DEF t, L
<1>4. ASSUME NEW i \in 1..(L + 1), NEW j \in 1..(L + 1), t[i] = t[j], NEW n \in i..j
      PROVE  t[n] = t[i]
  <2>1. CASE j \in 1..L
    <3>1. i \in 1..L /\ n \in 1..L
      BY <1>1, <1>4, <2>1
    <3>2. s[i] = s[j]
      BY <1>1, <1>4, <2>1, <3>1, Zenon
    <3>3. s[n] = s[i]
      BY <1>3, <1>4, <2>1, <3>1, <3>2, Zenon
    <3>4. QED
      BY <1>1, <3>1, <3>3, Zenon
  <2>2. CASE j = L + 1 /\ n \in 1..L
    <3>1. i \in 1..L /\ L \in 1..L /\ n \in i..L
      BY <1>1, <1>4, <2>2
    <3>2. s[i] = m
      BY <1>1, <1>4, <2>2, <3>1, Zenon
    <3>3. s[i] = s[L]
      BY <1>2, <3>1, <3>2, Zenon
    <3>4. s[n] = s[i]
      BY <1>3, <3>1, <3>3, Zenon
    <3>5. QED
      BY <1>1, <2>2, <3>1, <3>4, Zenon
  <2>3. CASE j = L + 1 /\ n = L + 1
    BY <1>4, <2>3, Zenon
  <2>4. QED
    BY <1>1, <1>4, <2>1, <2>2, <2>3
<1>5. Last(t, m)
  BY <1>1, Zenon DEF Last
<1>6. Whole(t)
  BY <1>1, <1>4, Zenon DEF Whole
<1>7. QED
  BY <1>5, <1>6, Zenon DEF t

\* What a connection got is a message that was begun.
LEMMA GotIsBegun ==
    ASSUME TypeOK, Places, NEW k \in Conns, NEW n \in 1..Len(stream[k])
    PROVE  Begun(stream[k][n]) /\ stream[k][n] \in Msgs
<1>1. stream[k] \in Seq(Msgs)
  BY Zenon DEF TypeOK
<1>2. stream[k][n] \in Msgs
  BY <1>1
<1>3. QED
  BY <1>2, Zenon DEF Places

\* No message comes into a new place, and a worker that has begun keeps at it.
LEMMA SamePlaces ==
    ASSUME TypeOK, Places, tasks' = tasks, stream' = stream, unsent' \subseteq unsent,
           \A c \in Callers, m \in Msgs : Pushes(c, m)' => Pushes(c, m),
           \A w \in Workers, m \in Msgs :
               Runs(w, m)' => Runs(w, m) /\ (nLeft[w] > 0 => nLeft'[w] > 0)
    PROVE  Places'
<1>1. ASSUME NEW m \in Msgs PROVE OneHolder(m)'
  <2>1. OneHolder(m)
    BY Zenon DEF Places
  <2>2. QED
    BY <2>1, Zenon DEF OneHolder, Waits
<1>2. ASSUME NEW k \in Conns, NEW n \in 1..Len(stream[k]) PROVE Begun(stream[k][n])'
  <2>1. Begun(stream[k][n]) /\ stream[k][n] \in Msgs
    BY GotIsBegun, Zenon
  <2>2. QED
    BY <2>1, Zenon DEF Begun, Waits
<1>3. QED
  BY <1>1, <1>2, Zenon DEF Places

\* The pool leaves the writers alone.
LEMMA SameWriters ==
    ASSUME WriterLocks, WriterIsLast, PeersApart, FramesWhole, UNCHANGED wsVars,
           \A w \in Workers : at[w] = "run" => at'[w] = "run" /\ task'[w] = task[w]
    PROVE  WriterLocks' /\ WriterIsLast' /\ PeersApart' /\ FramesWhole'
<1>1. UNCHANGED <<fd_mutex, nLeft, peer, shut, stream>>
  BY Zenon DEF wsVars
<1>2. \A w \in Workers : nLeft[w] > 0 => at'[w] = "run" /\ task'[w] = task[w]
  BY Zenon DEF WriterLocks
<1>3. WriterLocks'
  BY <1>1, <1>2, Zenon DEF WriterLocks
<1>4. WriterIsLast'
  BY <1>1, <1>2, Zenon DEF WriterIsLast
<1>5. PeersApart' /\ FramesWhole'
  BY <1>1 DEF PeersApart, Opened, FramesWhole
<1>6. QED
  BY <1>3, <1>4, <1>5, Zenon

\* The steps of the pool that move no message.
LEMMA PoolKeepsPlaces ==
    ASSUME TypeOK, WriteInv, UNCHANGED wsVars,
           \/ \E c \in Callers : NotifyOne(c)
           \/ \E w \in Workers :
                 Again(w) \/ FindNothing(w) \/ Park(w) \/ Leave(w) \/ WakeUp(w)
           \/ Stop \/ NotifyAll \/ Join
    PROVE  WriteInv'
<1>1. PoolTypeOK
  BY Zenon DEF TypeOK
<1>2. UNCHANGED <<nLeft, stream, unsent>>
  BY Zenon DEF wsVars
<1>3. tasks' = tasks /\ task' = task
  BY Zenon DEF NotifyOne, Again, FindNothing, Park, Leave, WakeUp, Stop, NotifyAll, Join
<1>4. \A d \in Callers : call'[d] = "push" => call[d] = "push" /\ arg'[d] = arg[d]
  BY <1>1, Zenon DEF NotifyOne, Again, FindNothing, Park, Leave, WakeUp, Stop, NotifyAll, Join, PoolTypeOK
<1>5. \A v \in Workers : at'[v] = "run" <=> at[v] = "run"
  <2>1. CASE \E c \in Callers : NotifyOne(c)
    BY <1>1, <2>1, SMTT(30) DEF NotifyOne, WokenOne, PoolTypeOK
  <2>2. CASE ~\E c \in Callers : NotifyOne(c)
    BY <1>1, <2>2, Zenon DEF Again, FindNothing, Park, Leave, WakeUp, Stop, NotifyAll, Join, PoolTypeOK
  <2>3. QED
    BY <2>1, <2>2, Zenon
<1>6. Places'
  <2>1. \A d \in Callers, m \in Msgs : Pushes(d, m)' => Pushes(d, m)
    BY <1>4, Zenon DEF Pushes
  <2>2. \A v \in Workers, m \in Msgs : Runs(v, m)' => Runs(v, m) /\ (nLeft[v] > 0 => nLeft'[v] > 0)
    BY <1>2, <1>3, <1>5, Zenon DEF Runs
  <2>3. QED
    BY <1>2, <1>3, <2>1, <2>2, SamePlaces, Zenon DEF WriteInv
<1>7. QED
  BY <1>3, <1>5, <1>6, SameWriters, Zenon DEF WriteInv

\* Push: the message goes from the caller to the end of the queue.
LEMMA PushKeepsPlaces ==
    ASSUME Inv, WriteInv, UNCHANGED wsVars, NEW c \in Callers, Push(c)
    PROVE  WriteInv'
<1> DEFINE L == Len(tasks)
<1>1. PoolTypeOK /\ UNCHANGED <<nLeft, stream, unsent, at, task, arg>>
  BY Zenon DEF Inv, TypeOK, wsVars, Push
<1>2. /\ L \in Nat /\ Len(tasks') = L + 1 /\ tasks'[L + 1] = arg[c]
      /\ \A i \in 1..L : tasks'[i] = tasks[i]
  <2>1. tasks \in Seq(Tasks) /\ arg[c] \in Tasks /\ tasks' = Append(tasks, arg[c])
    BY <1>1, Zenon DEF PoolTypeOK, Push, Inv, PoolInv
  <2>2. QED
    BY <2>1
<1>3. /\ call[c] = "push" /\ call'[c] = "notify"
      /\ \A d \in Callers : d # c => call'[d] = call[d]
  BY <1>1, Zenon DEF PoolTypeOK, Push
<1> HIDE DEF L
<1>4. \A m \in Msgs, d \in Callers : Pushes(d, m)' <=> Pushes(d, m) /\ d # c
  BY <1>1, <1>3, Zenon DEF Pushes
<1>5. \A m \in Msgs, v \in Workers : Runs(v, m)' <=> Runs(v, m)
  BY <1>1, Zenon DEF Runs
<1>6. \A m \in Msgs, i \in 1..(L + 1) :
        Waits(i, m)' <=> (i \in 1..L /\ Waits(i, m)) \/ (i = L + 1 /\ Pushes(c, m))
  BY <1>2, <1>3 DEF Waits, Pushes
<1>7. ASSUME NEW m \in Msgs PROVE OneHolder(m)'
  <2>1. OneHolder(m)
    BY Zenon DEF WriteInv, Places
  <2>2. QED
    BY <1>1, <1>2, <1>4, <1>5, <1>6, <2>1, SMTT(30) DEF OneHolder, L
<1>8. ASSUME NEW k \in Conns, NEW n \in 1..Len(stream[k]) PROVE Begun(stream[k][n])'
  <2>1. Begun(stream[k][n]) /\ stream[k][n] \in Msgs
    BY GotIsBegun, Zenon DEF Inv, WriteInv
  <2>2. QED
    BY <1>1, <1>2, <1>4, <1>5, <1>6, <2>1, Zenon DEF Begun, L
<1>9. Places'
  BY <1>1, <1>7, <1>8, Zenon DEF Places
<1>10. QED
  BY <1>1, <1>9, SameWriters, Zenon DEF WriteInv

\* Take: the message goes from the head of the queue to the worker.
LEMMA TakeKeepsPlaces ==
    ASSUME Inv, WriteInv, UNCHANGED wsVars, NEW w \in Workers, Take(w)
    PROVE  WriteInv'
<1> DEFINE L == Len(tasks)
<1>1. PoolTypeOK /\ UNCHANGED <<nLeft, stream, unsent, call, arg>>
  BY Zenon DEF Inv, TypeOK, wsVars, Take
<1>2. /\ L \in Nat /\ L > 0 /\ Len(tasks') = L - 1
      /\ \A i \in 1..(L - 1) : tasks'[i] = tasks[i + 1]
      /\ Head(tasks) = tasks[1]
  <2>1. tasks \in Seq(Tasks) /\ tasks # <<>> /\ tasks' = Tail(tasks)
    BY <1>1, Zenon DEF PoolTypeOK, Take
  <2>2. QED
    BY <2>1
<1>3. /\ at[w] = "lock" /\ at'[w] = "run" /\ task'[w] = tasks[1]
      /\ \A v \in Workers : v # w => at'[v] = at[v] /\ task'[v] = task[v]
  BY <1>1, <1>2, Zenon DEF PoolTypeOK, Take
<1> HIDE DEF L
<1>4. \A m \in Msgs, d \in Callers : Pushes(d, m)' <=> Pushes(d, m)
  BY <1>1, Zenon DEF Pushes
<1>5. \A m \in Msgs, v \in Workers :
        Runs(v, m)' <=> (v # w /\ Runs(v, m)) \/ (v = w /\ Waits(1, m))
  BY <1>3, Zenon DEF Runs, Waits
<1>6. \A m \in Msgs, i \in 1..(L - 1) : i + 1 \in 1..L /\ i + 1 # 1 /\ (Waits(i, m)' <=> Waits(i + 1, m))
  BY <1>2 DEF Waits
<1>7. 1 \in 1..L
  BY <1>2
<1>8. ASSUME NEW m \in Msgs PROVE OneHolder(m)'
  <2>1. OneHolder(m)
    BY Zenon DEF WriteInv, Places
  <2>2. \A i, j \in 1..(L - 1) : i + 1 = j + 1 => i = j
    BY <1>2
  <2>3. /\ Len(tasks)' = L - 1 /\ unsent' = unsent
        /\ \A i \in 1..(L - 1) : Waits(i, m)' => i + 1 \in 1..L /\ i + 1 # 1 /\ Waits(i + 1, m)
    BY <1>1, <1>2, <1>6, Zenon
  <2>4. \A i, j \in 1..(L - 1) : Waits(i, m)' /\ Waits(j, m)' => i = j
    BY <2>1, <2>2, <2>3, Zenon DEF OneHolder, L
  <2>5. \A u, v \in Workers : Runs(u, m)' /\ Runs(v, m)' => u = v
    BY <1>5, <1>7, <2>1, Zenon DEF OneHolder, L
  <2>6. /\ \A c, d \in Callers : Pushes(c, m)' /\ Pushes(d, m)' => c = d
        /\ \A c \in Callers, i \in 1..(L - 1) : ~(Pushes(c, m)' /\ Waits(i, m)')
    BY <1>4, <2>1, <2>3, Zenon DEF OneHolder, L
  <2>7. \A c \in Callers, v \in Workers : ~(Pushes(c, m)' /\ Runs(v, m)')
    BY <1>4, <1>5, <1>7, <2>1, Zenon DEF OneHolder, L
  <2>8. \A i \in 1..(L - 1), v \in Workers : ~(Waits(i, m)' /\ Runs(v, m)')
    BY <1>5, <1>7, <2>1, <2>3, Zenon DEF OneHolder, L
  <2>9. m \in unsent => /\ \A c \in Callers : ~Pushes(c, m)'
                        /\ \A i \in 1..(L - 1) : ~Waits(i, m)'
                        /\ \A v \in Workers : ~Runs(v, m)'
    BY <1>4, <1>5, <1>7, <2>1, <2>3, Zenon DEF OneHolder, L
  <2>10. QED
    BY <2>3, <2>4, <2>5, <2>6, <2>7, <2>8, <2>9, Zenon DEF OneHolder
<1>9. ASSUME NEW k \in Conns, NEW n \in 1..Len(stream[k]) PROVE Begun(stream[k][n])'
  <2>1. Begun(stream[k][n]) /\ stream[k][n] \in Msgs
    BY GotIsBegun, Zenon DEF Inv, WriteInv
  <2>2. QED
    BY <1>1, <1>2, <1>4, <1>5, <1>6, <1>7, <2>1, Zenon DEF Begun, L
<1>10. Places'
  BY <1>1, <1>8, <1>9, Zenon DEF Places
<1>11. QED
  BY <1>3, <1>10, SameWriters, Zenon DEF WriteInv

\* A caller takes a message that nobody has sent into commit().
LEMMA CommitKeepsPlaces ==
    ASSUME Inv, WriteInv, NEW c \in Callers, NEW x \in unsent, NEW t, t.msg = x, Commit(c, t),
           unsent' = unsent \ {x}, UNCHANGED <<fd_mutex, nLeft, peer, shut, stream>>
    PROVE  WriteInv'
<1>1. PoolTypeOK /\ UNCHANGED <<tasks, at, task>> /\ unsent \subseteq Msgs
  BY Zenon DEF Inv, TypeOK, Commit
<1>2. /\ call[c] = "out" /\ call'[c] = "push" /\ arg'[c] = t
      /\ \A d \in Callers : d # c => call'[d] = call[d] /\ arg'[d] = arg[d]
  BY <1>1, Zenon DEF PoolTypeOK, Commit
<1>3. \A m \in Msgs, d \in Callers : Pushes(d, m)' <=> (d # c /\ Pushes(d, m)) \/ (d = c /\ m = x)
  BY <1>2, Zenon DEF Pushes
<1>4. \A m \in Msgs, i \in 1..Len(tasks) : Waits(i, m)' <=> Waits(i, m)
  BY <1>1, Zenon DEF Waits
<1>5. \A m \in Msgs, v \in Workers : Runs(v, m)' <=> Runs(v, m)
  BY <1>1, Zenon DEF Runs
<1>6. ASSUME NEW m \in Msgs PROVE OneHolder(m)'
  <2>1. OneHolder(m)
    BY Zenon DEF WriteInv, Places
  <2>2. QED
    BY <1>1, <1>3, <1>4, <1>5, <2>1, Zenon DEF OneHolder
<1>7. ASSUME NEW k \in Conns, NEW n \in 1..Len(stream[k]) PROVE Begun(stream[k][n])'
  <2>1. Begun(stream[k][n]) /\ stream[k][n] \in Msgs
    BY GotIsBegun, Zenon DEF Inv, WriteInv
  <2>2. PICK m \in Msgs : m = stream[k][n] /\ m = stream'[k][n]
    BY <2>1, Zenon
  <2>3. Begun(m) /\ m # x
    BY <2>1, <2>2, Zenon DEF Begun
  <2>4. m \notin unsent' /\ \A d \in Callers : ~Pushes(d, m)'
    BY <1>3, <2>3, Zenon DEF Begun
  <2>5. \A i \in 1..Len(tasks) : ~Waits(i, m)'
    BY <1>4, <2>3, Zenon DEF Begun
  <2>6. \A v \in Workers : Runs(v, m)' => nLeft'[v] > 0
    BY <1>5, <2>3, Zenon DEF Begun
  <2>7. QED
    BY <1>1, <2>2, <2>4, <2>5, <2>6, Zenon DEF Begun
<1>8. Places'
  BY <1>6, <1>7, Zenon DEF Places
<1>9. WriterLocks' /\ WriterIsLast' /\ PeersApart' /\ FramesWhole'
  BY <1>1, SMTT(30) DEF WriteInv, WriterLocks, WriterIsLast, PeersApart, Opened, FramesWhole
<1>10. QED
  BY <1>8, <1>9, Zenon DEF WriteInv

\* Steps that write nothing and move no message: the tables, descriptors, shutdown.
LEMMA StillPlaces ==
    ASSUME Inv, WriteInv, UNCHANGED <<poolVars, nLeft, stream, unsent>>
    PROVE  Places' /\ FramesWhole'
<1>1. UNCHANGED <<tasks, at, task, call, arg>>
  BY Zenon DEF poolVars
<1>2. Places'
  BY <1>1, SamePlaces, Zenon DEF Inv, WriteInv, Pushes, Runs
<1>3. QED
  BY <1>2 DEF WriteInv, FramesWhole

\* The registry, and a shutdown.
LEMMA TablesKeepPlaces ==
    ASSUME Inv, WriteInv, UNCHANGED <<poolVars, fd_mutex, nLeft, peer, stream, unsent>>,
           shut \subseteq shut'
    PROVE  WriteInv'
<1>1. UNCHANGED <<at, task>>
  BY Zenon DEF poolVars
<1>2. WriterLocks' /\ WriterIsLast' /\ PeersApart'
  BY <1>1 DEF WriteInv, WriterLocks, WriterIsLast, PeersApart, Opened
<1>3. QED
  BY <1>2, StillPlaces, Zenon DEF WriteInv

\* A new connection has got nothing; a closed one never comes back.
LEMMA PeersKeepPlaces ==
    ASSUME Inv, WriteInv, NEW f \in Fds, NEW k \in Conns, Accept(k, f) \/ CloseConn(f)
    PROVE  WriteInv'
<1>1. /\ TypeOK /\ UNCHANGED <<poolVars, fd_mutex, nLeft, stream, unsent>>
      /\ UNCHANGED <<at, task>>
  BY Zenon DEF Inv, Accept, CloseConn, poolVars
<1>2. WriterLocks'
  BY <1>1, Zenon DEF WriteInv, WriterLocks
<1>3. CASE Accept(k, f)
  <2>1. /\ k \notin Opened /\ peer[f] = Null /\ peer'[f] = k /\ k # Null /\ shut' = shut
        /\ \A g \in Fds : g # f => peer'[g] = peer[g]
    BY <1>1, <1>3, WsAssumption, Zenon DEF Accept, TypeOK
  <2>2. stream[k] = <<>>
    BY <2>1, Zenon DEF WriteInv, PeersApart
  <2>3. \A g \in Fds : peer[g] # k
    BY <2>1, Zenon DEF Opened
  <2>4. \A j \in Conns : j \notin Opened' => j \notin Opened
    BY <2>1, WsAssumption, Zenon DEF Opened
  <2>5. PeersApart'
    BY <1>1, <2>1, <2>3, <2>4, ZenonT(60) DEF WriteInv, PeersApart
  <2>6. WriterIsLast'
    <3> SUFFICES ASSUME NEW w \in Workers, nLeft[w] > 0, peer'[task[w].fd] # Null
                 PROVE  Last(stream[peer'[task[w].fd]], task[w].msg)
      BY <1>1, Zenon DEF WriterIsLast
    <3>1. task[w].fd \in Fds
      BY RunsTask, Zenon DEF WriteInv, WriterLocks
    <3>2. CASE task[w].fd = f
      BY <2>1, <2>2, <3>2 DEF Last
    <3>3. CASE task[w].fd # f
      BY <2>1, <3>1, <3>3, Zenon DEF WriteInv, WriterIsLast
    <3>4. QED
      BY <3>2, <3>3, Zenon
  <2>7. QED
    BY <1>1, <1>2, <2>5, <2>6, StillPlaces, Zenon DEF WriteInv
<1>4. CASE CloseConn(f)
  <2>1. /\ peer[f] # Null /\ peer'[f] = Null /\ shut' = shut \cup {peer[f]}
        /\ \A g \in Fds : g # f => peer'[g] = peer[g]
    BY <1>1, <1>4, Zenon DEF CloseConn, TypeOK
  <2>2. \A j \in Conns : j \notin Opened' => j \notin Opened
    BY <2>1, Zenon DEF Opened
  <2>3. PeersApart'
    BY <1>1, <2>1, <2>2, ZenonT(60) DEF WriteInv, PeersApart
  <2>4. WriterIsLast'
    <3> SUFFICES ASSUME NEW w \in Workers, nLeft[w] > 0, peer'[task[w].fd] # Null
                 PROVE  Last(stream[peer'[task[w].fd]], task[w].msg)
      BY <1>1, Zenon DEF WriterIsLast
    <3>1. task[w].fd \in Fds
      BY RunsTask, Zenon DEF WriteInv, WriterLocks
    <3>2. QED
      BY <2>1, <3>1, Zenon DEF WriteInv, WriterIsLast
  <2>5. QED
    BY <1>1, <1>2, <2>3, <2>4, StillPlaces, Zenon DEF WriteInv
<1>5. QED
  BY <1>3, <1>4, Zenon

\* A worker that gets the mutex has written nothing of its message yet.
LEMMA LockKeepsPlaces ==
    ASSUME Inv, WriteInv, NEW w \in Workers, Lock(w)
    PROVE  WriteInv'
<1>1. /\ TypeOK /\ UNCHANGED <<tasks, at, task, call, arg>>
      /\ UNCHANGED <<peer, shut, stream, unsent>>
      /\ at[w] = "run" /\ nLeft[w] = 0 /\ fd_mutex[Stripe(task[w].fd)] = Null
  BY Zenon DEF Inv, Lock, Unlocked, poolVars
<1>2. /\ task[w].fd \in Fds /\ task[w].msg \in Msgs
      /\ Stripe(task[w].fd) \in 0..(Stripes - 1)
  BY <1>1, RunsTask, Zenon
<1>3. /\ nLeft'[w] > 0 /\ \A v \in Workers : v # w => nLeft'[v] = nLeft[v]
      /\ fd_mutex'[Stripe(task[w].fd)] = w
      /\ \A r \in 0..(Stripes - 1) : r # Stripe(task[w].fd) => fd_mutex'[r] = fd_mutex[r]
  <2> DEFINE p == Stripe(task[w].fd)
  <2>1. /\ nLeft \in [Workers -> 0..Pieces]
        /\ fd_mutex \in [0..(Stripes - 1) -> Workers \cup {Null}]
    BY <1>1, Zenon DEF TypeOK
  <2>2. fd_mutex' = [fd_mutex EXCEPT ![p] = w] /\ p \in 0..(Stripes - 1)
    BY <1>2, Zenon DEF Lock
  <2>3. PICK n \in 1..Pieces : nLeft' = [nLeft EXCEPT ![w] = n]
    BY Zenon DEF Lock
  <2> HIDE DEF p
  <2>4. fd_mutex'[p] = w /\ \A r \in 0..(Stripes - 1) : r # p => fd_mutex'[r] = fd_mutex[r]
    BY <2>1, <2>2, Zenon
  <2>5. nLeft'[w] > 0 /\ \A v \in Workers : v # w => nLeft'[v] = nLeft[v]
    BY <2>1, <2>3
  <2>6. QED
    BY <2>4, <2>5, Zenon DEF p
<1>4. Places'
  <2>1. \A v \in Workers : nLeft[v] > 0 => nLeft'[v] > 0
    BY <1>3, Zenon
  <2>2. QED
    BY <1>1, <2>1, SamePlaces, Zenon DEF WriteInv, Pushes, Runs
<1>5. WriterLocks'
  <2> SUFFICES ASSUME NEW v \in Workers, nLeft'[v] > 0
               PROVE  at[v] = "run" /\ fd_mutex'[Stripe(task[v].fd)] = v
    BY <1>1, Zenon DEF WriterLocks
  <2>1. CASE v = w
    BY <1>1, <1>3, <2>1, Zenon
  <2>2. CASE v # w
    <3>1. at[v] = "run" /\ fd_mutex[Stripe(task[v].fd)] = v /\ v # Null
      BY <1>3, <2>2, WsAssumption, Zenon DEF WriteInv, WriterLocks
    <3>2. Stripe(task[v].fd) \in 0..(Stripes - 1)
      BY <3>1, RunsTask, Zenon
    <3>3. QED
      BY <1>1, <1>3, <3>1, <3>2, Zenon
  <2>3. QED
    BY <2>1, <2>2, Zenon
<1>6. WriterIsLast'
  <2> SUFFICES ASSUME NEW v \in Workers, nLeft'[v] > 0, peer[task[v].fd] # Null
               PROVE  Last(stream[peer[task[v].fd]], task[v].msg)
    BY <1>1, Zenon DEF WriterIsLast
  <2>1. CASE v = w
    <3>1. peer[task[w].fd] \in Conns
      BY <1>1, <1>2, <2>1, Zenon DEF TypeOK
    <3>2. \A n \in 1..Len(stream[peer[task[w].fd]]) : stream[peer[task[w].fd]][n] # task[w].msg
      BY <1>1, <3>1 DEF WriteInv, Places, Begun, Runs
    <3>3. QED
      BY <2>1, <3>2, Zenon DEF Last
  <2>2. CASE v # w
    BY <1>3, <2>2, Zenon DEF WriteInv, WriterIsLast
  <2>3. QED
    BY <2>1, <2>2, Zenon
<1>7. PeersApart' /\ FramesWhole'
  BY <1>1 DEF WriteInv, PeersApart, Opened, FramesWhole
<1>8. QED
  BY <1>4, <1>5, <1>6, <1>7, Zenon DEF WriteInv

\* What the worker w adds to a connection, if it adds something.
Adds(w) ==
    \/ stream' = stream
    \/ /\ peer[task[w].fd] \in Conns
       /\ stream' = [stream EXCEPT ![peer[task[w].fd]] = Append(@, task[w].msg)]

\* A piece more of the message the worker holds: it is in no other place.
LEMMA AddKeepsPlaces ==
    ASSUME Inv, WriteInv, NEW w \in Workers, nLeft[w] > 0, Adds(w),
           UNCHANGED <<tasks, call, arg, unsent>>,
           \A v \in Workers : at'[v] = "run" =>
               at[v] = "run" /\ task'[v] = task[v] /\ (nLeft[v] > 0 => nLeft'[v] > 0)
    PROVE  Places'
<1>1. TypeOK /\ Places /\ at[w] = "run"
  BY Zenon DEF Inv, WriteInv, WriterLocks
<1>2. PICK x \in Msgs : x = task[w].msg /\ Runs(w, x)
  BY <1>1, RunsTask, Zenon DEF Runs
<1>3. \A v \in Workers, m \in Msgs :
        Runs(v, m)' => Runs(v, m) /\ (nLeft[v] > 0 => nLeft'[v] > 0)
  BY Zenon DEF Runs
<1>4. \A c \in Callers, m \in Msgs : Pushes(c, m)' <=> Pushes(c, m)
  BY Zenon DEF Pushes
<1>5. \A i \in 1..Len(tasks), m \in Msgs : Waits(i, m)' <=> Waits(i, m)
  BY Zenon DEF Waits
<1>6. tasks' = tasks /\ unsent' = unsent
  BY Zenon
<1>7. ASSUME NEW m \in Msgs PROVE OneHolder(m)'
  <2>1. OneHolder(m)
    BY <1>1, Zenon DEF Places
  <2>2. QED
    BY <1>3, <1>4, <1>5, <1>6, <2>1, Zenon DEF OneHolder
<1>8. ASSUME NEW m \in Msgs, Begun(m) PROVE Begun(m)'
  BY <1>3, <1>4, <1>5, <1>6, <1>8, Zenon DEF Begun
<1>9. Begun(x)'
  <2>1. OneHolder(x)
    BY <1>1, <1>2, Zenon DEF Places
  <2>2. \A v \in Workers : Runs(v, x)' => nLeft'[v] > 0
    <3>1. \A v \in Workers : Runs(v, x)' => v = w
      BY <1>2, <1>3, <2>1, Zenon DEF OneHolder
    <3>2. QED
      BY <1>2, <1>3, <3>1, Zenon
  <2>3. QED
    BY <1>2, <1>4, <1>5, <1>6, <2>1, <2>2, Zenon DEF OneHolder, Begun
<1>10. ASSUME NEW j \in Conns, NEW n \in 1..Len(stream'[j]) PROVE Begun(stream[j][n])'
  <2>1. CASE stream'[j] = stream[j]
    <3>1. Begun(stream[j][n]) /\ stream[j][n] \in Msgs
      BY <1>1, <2>1, GotIsBegun, Zenon
    <3>2. PICK m \in Msgs : m = stream[j][n] /\ m = stream'[j][n] /\ Begun(m)
      BY <2>1, <3>1, Zenon
    <3>3. Begun(m)'
      BY <1>8, <3>2, Zenon
    <3>4. QED
      BY <3>2, <3>3, Zenon
  <2>2. CASE stream'[j] # stream[j]
    <3>1. stream'[j] = Append(stream[j], x) /\ stream[j] \in Seq(Msgs)
      BY <1>1, <1>2, <2>2, Zenon DEF Adds, TypeOK
    <3>2. CASE n \in 1..Len(stream[j])
      <4>1. Begun(stream[j][n]) /\ stream[j][n] \in Msgs
        BY <1>1, <3>2, GotIsBegun, Zenon
      <4>2. stream'[j][n] = stream[j][n]
        BY <1>2, <3>1, <3>2, SMTT(30)
      <4>3. PICK m \in Msgs : m = stream[j][n] /\ m = stream'[j][n] /\ Begun(m)
        BY <4>1, <4>2, Zenon
      <4>4. Begun(m)'
        BY <1>8, <4>3, Zenon
      <4>5. QED
        BY <4>3, <4>4, Zenon
    <3>3. CASE n \notin 1..Len(stream[j])
      <4>1. stream'[j][n] = x
        BY <1>2, <3>1, <3>3
      <4>2. QED
        BY <1>9, <4>1, Zenon
    <3>4. QED
      BY <3>2, <3>3, Zenon
  <2>3. QED
    BY <2>1, <2>2, Zenon
<1>11. QED
  BY <1>7, <1>10, Zenon DEF Places

\* The pieces stay together: the worker holds the mutex of the only descriptor of
\* the connection, so nobody has written since its last piece.
LEMMA AddKeepsWhole ==
    ASSUME Inv, WriteInv, NEW w \in Workers, nLeft[w] > 0, Adds(w)
    PROVE  /\ FramesWhole'
           /\ \A j \in Conns : j \notin Opened => stream'[j] = <<>>
           /\ peer[task[w].fd] # Null => Last(stream'[peer[task[w].fd]], task[w].msg)
           /\ \A v \in Workers : v # w /\ nLeft[v] > 0 /\ peer[task[v].fd] # Null =>
                 stream'[peer[task[v].fd]] = stream[peer[task[v].fd]]
<1> DEFINE x == task[w].msg
           k == peer[task[w].fd]
<1>1. /\ TypeOK /\ at[w] = "run" /\ x \in Msgs /\ task[w].fd \in Fds
      /\ fd_mutex[Stripe(task[w].fd)] = w
  BY RunsTask, Zenon DEF Inv, WriteInv, WriterLocks
<1>2. k # Null => k \in Conns /\ k \in Opened /\ stream[k] \in Seq(Msgs) /\ Last(stream[k], x)
  BY <1>1, Zenon DEF TypeOK, Opened, WriteInv, WriterIsLast
<1>3. FramesWhole /\ \A j \in Conns : j \notin Opened => stream[j] = <<>>
  BY Zenon DEF WriteInv, PeersApart
<1>4. \A v \in Workers : v # w /\ nLeft[v] > 0 /\ peer[task[v].fd] # Null =>
          peer[task[v].fd] # k /\ peer[task[v].fd] \in Conns
  <2> SUFFICES ASSUME NEW v \in Workers, v # w, nLeft[v] > 0, peer[task[v].fd] # Null
               PROVE  peer[task[v].fd] # k /\ peer[task[v].fd] \in Conns
    BY Zenon
  <2>1. at[v] = "run" /\ fd_mutex[Stripe(task[v].fd)] = v
    BY Zenon DEF WriteInv, WriterLocks
  <2>2. task[v].fd \in Fds
    BY <2>1, RunsTask, Zenon
  <2>3. task[v].fd # task[w].fd
    BY <1>1, <2>1, Zenon
  <2>4. QED
    BY <1>1, <2>2, <2>3, Zenon DEF WriteInv, PeersApart, TypeOK
<1>5. CASE stream' = stream
  BY <1>2, <1>3, <1>5, SMTT(30) DEF FramesWhole
<1>6. CASE k \in Conns /\ stream' = [stream EXCEPT ![k] = Append(@, x)]
  <2>1. k # Null
    BY <1>6, WsAssumption, Zenon
  <2>2. PICK l \in Conns, s \in Seq(Msgs), y \in Msgs :
          l = k /\ s = stream[l] /\ y = x /\ Last(s, y) /\ l \in Opened
    BY <1>1, <1>2, <1>6, <2>1, Zenon
  <2>3. stream'[l] = Append(s, y) /\ \A j \in Conns : j # l => stream'[j] = stream[j]
    <3>1. stream \in [Conns -> Seq(Msgs)]
      BY <1>1, ZenonT(60) DEF TypeOK
    <3>2. stream' = [stream EXCEPT ![l] = Append(stream[l], y)]
      BY <1>6, <2>2, SMTT(30)
    <3>3. QED
      BY <2>2, <3>1, <3>2, Zenon
  <2>4. Whole(s)
    BY <1>3, <2>2, SMTT(30) DEF FramesWhole, Whole
  <2>5. Last(Append(s, y), y) /\ Whole(Append(s, y))
    BY <2>2, <2>4, AppendWhole, Zenon
  <2>6. FramesWhole'
    <3>1. \A j \in Conns : Whole(stream'[j])
      <4> SUFFICES ASSUME NEW j \in Conns PROVE Whole(stream'[j])
        BY Zenon
      <4>1. CASE j = l
        BY <2>3, <2>5, <4>1, Zenon
      <4>2. CASE j # l
        <5>1. Whole(stream[j])
          BY <1>3, Zenon DEF FramesWhole, Whole
        <5>2. QED
          BY <2>3, <4>2, <5>1, Zenon
      <4>3. QED
        BY <4>1, <4>2, Zenon
    <3>2. QED
      BY <3>1, Zenon DEF FramesWhole, Whole
  <2>7. \A j \in Conns : j \notin Opened => stream'[j] = <<>>
    BY <1>3, <2>2, <2>3, Zenon
  <2>8. Last(stream'[k], x)
    BY <2>2, <2>3, <2>5, Zenon
  <2>9. \A v \in Workers : v # w /\ nLeft[v] > 0 /\ peer[task[v].fd] # Null =>
            stream'[peer[task[v].fd]] = stream[peer[task[v].fd]]
    BY <1>4, <2>2, <2>3, Zenon
  <2>10. QED
    BY <2>6, <2>7, <2>8, <2>9, Zenon
<1>7. QED
  BY <1>5, <1>6, Zenon DEF Adds

\* A piece that is not the last.
LEMMA WritenKeepsPlaces ==
    ASSUME Inv, WriteInv, NEW w \in Workers, Writen(w)
    PROVE  WriteInv'
<1>1. /\ TypeOK /\ UNCHANGED <<tasks, at, task, call, arg>> /\ nLeft[w] > 0
      /\ UNCHANGED <<fd_mutex, peer, shut, unsent>>
  <2>1. TypeOK
    BY Zenon DEF Inv
  <2>2. /\ UNCHANGED <<tasks, at, task, call, arg>> /\ nLeft[w] > 1
        /\ UNCHANGED <<fd_mutex, peer, shut, unsent>>
    BY Zenon DEF Writen, poolVars
  <2>3. nLeft[w] \in Int
    BY <2>1 DEF TypeOK
  <2>4. QED
    BY <2>1, <2>2, <2>3
<1>2. nLeft'[w] > 0 /\ \A v \in Workers : v # w => nLeft'[v] = nLeft[v]
  <2>1. nLeft \in [Workers -> 0..Pieces]
    BY <1>1, Zenon DEF TypeOK
  <2>2. nLeft[w] > 1 /\ nLeft' = [nLeft EXCEPT ![w] = nLeft[w] - 1]
    BY Zenon DEF Writen
  <2>3. QED
    BY <2>1, <2>2
<1>3. Adds(w)
  <2>1. task[w].fd \in Fds
    BY RunsTask, Zenon DEF Writen
  <2>2. peer[task[w].fd] \in Conns
    BY <1>1, <2>1, Zenon DEF Writen, Writable, TypeOK
  <2>3. QED
    BY <2>2, Zenon DEF Writen, Adds
<1>4. Places'
  BY <1>1, <1>2, <1>3, AddKeepsPlaces, Zenon
<1>5. WriterLocks'
  BY <1>1, <1>2, Zenon DEF WriteInv, WriterLocks
<1>6. /\ FramesWhole'
      /\ \A j \in Conns : j \notin Opened => stream'[j] = <<>>
      /\ peer[task[w].fd] # Null => Last(stream'[peer[task[w].fd]], task[w].msg)
      /\ \A v \in Workers : v # w /\ nLeft[v] > 0 /\ peer[task[v].fd] # Null =>
            stream'[peer[task[v].fd]] = stream[peer[task[v].fd]]
  BY <1>1, <1>3, AddKeepsWhole, Zenon
<1>7. WriterIsLast'
  BY <1>1, <1>2, <1>6, Zenon DEF WriteInv, WriterIsLast
<1>8. PeersApart'
  BY <1>1, <1>6, ZenonT(60) DEF WriteInv, PeersApart, Opened
<1>9. QED
  BY <1>4, <1>5, <1>6, <1>7, <1>8, Zenon DEF WriteInv

\* The last piece, or a send that fails: the worker lets go of mutex and message.
LEMMA DoneKeepsPlaces ==
    ASSUME Inv, WriteInv, NEW w \in Workers, Done(w)
    PROVE  WriteInv'
<1>1. /\ TypeOK /\ UNCHANGED <<tasks, call, arg>> /\ nLeft[w] > 0 /\ at[w] = "run"
      /\ UNCHANGED <<peer, unsent>> /\ shut \subseteq shut'
  BY Zenon DEF Inv, Done, Finish, Shutdown
<1>2. /\ task[w].fd \in Fds /\ Stripe(task[w].fd) \in 0..(Stripes - 1)
      /\ fd_mutex[Stripe(task[w].fd)] = w
  BY <1>1, RunsTask, Zenon DEF WriteInv, WriterLocks
<1>3. /\ nLeft'[w] = 0 /\ at'[w] = "loop"
      /\ \A v \in Workers : v # w => nLeft'[v] = nLeft[v] /\ at'[v] = at[v] /\ task'[v] = task[v]
  BY <1>1, Zenon DEF Done, Finish, TypeOK, PoolTypeOK
<1>4. \A r \in 0..(Stripes - 1) : r # Stripe(task[w].fd) => fd_mutex'[r] = fd_mutex[r]
  BY <1>1, Zenon DEF Done, TypeOK
<1>5. Adds(w)
  <2>1. CASE UNCHANGED stream
    BY <2>1, Zenon DEF Adds
  <2>2. CASE /\ Writable(task[w].fd)
             /\ stream' = [stream EXCEPT ![peer[task[w].fd]] = Append(@, task[w].msg)]
    BY <1>1, <1>2, <2>2, Zenon DEF Adds, Writable, TypeOK
  <2>3. QED
    BY <2>1, <2>2, Zenon DEF Done
<1>6. Places'
  BY <1>1, <1>3, <1>5, AddKeepsPlaces, Zenon
<1>7. WriterLocks'
  <2> SUFFICES ASSUME NEW v \in Workers, nLeft'[v] > 0
               PROVE  at'[v] = "run" /\ fd_mutex'[Stripe(task'[v].fd)] = v
    BY Zenon DEF WriterLocks
  <2>1. v # w
    BY <1>3
  <2>2. at[v] = "run" /\ fd_mutex[Stripe(task[v].fd)] = v
    BY <1>3, <2>1, Zenon DEF WriteInv, WriterLocks
  <2>3. Stripe(task[v].fd) \in 0..(Stripes - 1)
    BY <2>2, RunsTask, Zenon
  <2>4. QED
    BY <1>2, <1>3, <1>4, <2>1, <2>2, <2>3, Zenon
<1>8. /\ FramesWhole'
      /\ \A j \in Conns : j \notin Opened => stream'[j] = <<>>
      /\ \A v \in Workers : v # w /\ nLeft[v] > 0 /\ peer[task[v].fd] # Null =>
            stream'[peer[task[v].fd]] = stream[peer[task[v].fd]]
  BY <1>1, <1>5, AddKeepsWhole, Zenon
<1>9. WriterIsLast'
  BY <1>1, <1>3, <1>8 DEF WriteInv, WriterIsLast
<1>10. PeersApart'
  BY <1>1, <1>8, ZenonT(60) DEF WriteInv, PeersApart, Opened
<1>11. QED
  BY <1>6, <1>7, <1>8, <1>9, <1>10, Zenon DEF WriteInv

\* Nothing has been sent.
LEMMA InitWrite == Init => WriteInv
<1> SUFFICES ASSUME Init PROVE WriteInv
  BY Zenon
<1>1. /\ tasks = <<>> /\ \A w \in Workers : at[w] = "loop" /\ nLeft[w] = 0
      /\ \A c \in Callers : call[c] = "out"
      /\ \A f \in Fds : peer[f] = Null
      /\ \A k \in Conns : stream[k] = <<>>
  BY Zenon DEF Init, PoolInit
<1>2. Places
  BY <1>1 DEF Places, OneHolder, Pushes, Runs
<1>3. WriterLocks /\ WriterIsLast /\ PeersApart
  BY <1>1 DEF WriterLocks, WriterIsLast, PeersApart
<1>4. FramesWhole
  BY <1>1 DEF FramesWhole
<1>5. QED
  BY <1>2, <1>3, <1>4, Zenon DEF WriteInv

\* No step mixes messages.
LEMMA NextWrite == Inv /\ WriteInv /\ [Next]_vars => WriteInv'
<1> SUFFICES ASSUME Inv, WriteInv, [Next]_vars PROVE WriteInv'
  BY Zenon
<1>0. TypeOK
  BY Zenon DEF Inv
<1>1. CASE UNCHANGED vars
  BY <1>1, TablesKeepPlaces, Zenon DEF vars, wsVars
<1>2. ASSUME NEW k \in Conns, NEW f \in Fds, Accept(k, f) PROVE WriteInv'
  BY <1>2, PeersKeepPlaces, Zenon
<1>3. ASSUME NEW f \in Fds, CloseConn(f) PROVE WriteInv'
  <2>1. peer[f] \in Conns
    BY <1>0, <1>3, Zenon DEF CloseConn, TypeOK
  <2>2. QED
    BY <1>3, <2>1, PeersKeepPlaces, Zenon
<1>4. ASSUME NEW i \in Ids, NEW f \in Fds, regist(i, f) \/ unregist(i, f) PROVE WriteInv'
  BY <1>4, TablesKeepPlaces, Zenon DEF regist, unregist
<1>5. ASSUME NEW c \in Callers, NEW m \in Msgs, NEW b \in BOOLEAN,
             \/ \E i \in Ids : send_msg_by_id(c, i, m, b)
             \/ \E f \in Fds : send_ws_string(c, f, m, b)
      PROVE  WriteInv'
  <2>1. PICK g : /\ Commit(c, [fd |-> g, msg |-> m, close |-> b])
                 /\ m \in unsent /\ unsent' = unsent \ {m}
                 /\ UNCHANGED <<fd_mutex, nLeft, peer, shut, stream>>
    BY <1>5, Zenon DEF send_msg_by_id, send_ws_string
  <2>2. PICK t : t.msg = m /\ Commit(c, t)
    BY <2>1, Zenon
  <2>3. QED
    BY <2>1, <2>2, CommitKeepsPlaces, Zenon
<1>6. ASSUME NEW c \in Callers, NEW i \in Ids, close_by_key(c, i) PROVE WriteInv'
  BY <1>6, TablesKeepPlaces, Zenon DEF close_by_key
<1>7. ASSUME NEW c \in Callers, Caller(c) PROVE WriteInv'
  <2>1. CASE Close(c)
    BY <2>1, TablesKeepPlaces, Zenon DEF Close, Shutdown
  <2>2. CASE UNCHANGED wsVars /\ Push(c)
    BY <2>2, PushKeepsPlaces, Zenon
  <2>3. CASE UNCHANGED wsVars /\ NotifyOne(c)
    BY <1>0, <2>3, PoolKeepsPlaces, Zenon
  <2>4. QED
    BY <1>7, <2>1, <2>2, <2>3, Zenon DEF Caller
<1>8. ASSUME NEW w \in Workers, Body(w) PROVE WriteInv'
  BY <1>8, LockKeepsPlaces, WritenKeepsPlaces, DoneKeepsPlaces, Zenon DEF Body
<1>9. ASSUME NEW w \in Workers, UNCHANGED wsVars, Worker(w) \/ WakeUp(w) PROVE WriteInv'
  <2>1. CASE Take(w)
    BY <1>9, <2>1, TakeKeepsPlaces, Zenon
  <2>2. CASE Again(w) \/ FindNothing(w) \/ Park(w) \/ Leave(w) \/ WakeUp(w)
    BY <1>0, <1>9, <2>2, PoolKeepsPlaces, Zenon
  <2>3. QED
    BY <1>9, <2>1, <2>2, Zenon DEF Worker
<1>10. CASE UNCHANGED wsVars /\ (Stop \/ NotifyAll \/ Join)
  BY <1>0, <1>10, PoolKeepsPlaces, Zenon
<1>11. QED
  BY <1>1, <1>2, <1>3, <1>4, <1>5, <1>6, <1>7, <1>8, <1>9, <1>10, Zenon DEF Next

\* The messages that workers push to one socket are never mixed, for any number of
\* workers, sockets and messages, although descriptors are closed and used again.
THEOREM MessagesWhole == Spec => []FramesWhole
<1>1. Inv /\ WriteInv /\ [Next]_vars => WriteInv'
  BY NextWrite, Zenon
<1>2. WriteInv => FramesWhole
  BY Zenon DEF WriteInv
<1>3. QED
  BY <1>1, <1>2, InitWrite, SpecInv, PTL DEF Spec

=============================================================================
