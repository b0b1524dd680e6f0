----------------------------- MODULE WsManager ------------------------------
(***************************************************************************)
(* WS_manager: ids registered for sockets, and messages that the workers   *)
(* of its thread pool write to a socket in pieces.  A task of the pool is  *)
(* one message: [fd, msg, close].  Descriptors are reused by the system.   *)
(***************************************************************************)
EXTENDS ThreadPool, FiniteSets

CONSTANTS
    Ids,        \* keys of u_map
    Fds,        \* descriptors
    Msgs,       \* messages; each is sent once
    Conns,      \* connections, each opened once
    Stripes,    \* how many mutexes fd_mutex has (4)
    Pieces      \* how many ::send a message takes at most

ASSUME WsAssumption ==
    /\ Fds \subseteq Nat /\ Stripes \in Nat \ {0} /\ Pieces \in Nat \ {0}
    /\ Tasks = [fd : Fds, msg : Msgs, close : BOOLEAN]
    /\ Null \notin Fds \cup Conns \cup Workers

VARIABLES
    u_map,      \* the descriptor of an id, or Null
    fd_set,     \* the registered descriptors
    fd_mutex,   \* which worker holds a mutex of fd_mutex
    nLeft,      \* how much of its message a worker has still to send
    peer,       \* the connection behind a descriptor
    shut,       \* the connections that were shut down
    stream,     \* what was written to a connection
    closing,    \* the descriptor a caller is about to shut down
    unsent      \* the messages nobody has sent yet

wsVars == <<u_map, fd_set, fd_mutex, nLeft, peer, shut, stream, closing, unsent>>
vars == <<poolVars, wsVars>>

TypeOK ==
    /\ PoolTypeOK
    /\ u_map \in [Ids -> Fds \cup {Null}]
    /\ fd_set \subseteq Fds
    /\ fd_mutex \in [0..(Stripes - 1) -> Workers \cup {Null}]
    /\ nLeft \in [Workers -> 0..Pieces]
    /\ peer \in [Fds -> Conns \cup {Null}]
    /\ shut \subseteq Conns
    /\ stream \in [Conns -> Seq(Msgs)]
    /\ closing \in [Callers -> Fds \cup {Null}]
    /\ unsent \subseteq Msgs

Init ==
    /\ PoolInit
    /\ u_map = [i \in Ids |-> Null]
    /\ fd_set = {}
    /\ fd_mutex = [s \in 0..(Stripes - 1) |-> Null]
    /\ nLeft = [w \in Workers |-> 0]
    /\ peer = [f \in Fds |-> Null]
    /\ shut = {}
    /\ stream = [k \in Conns |-> <<>>]
    /\ closing = [c \in Callers |-> Null]
    /\ unsent = Msgs

-----------------------------------------------------------------------------
\* The system: a descriptor that is free stands for the next connection, and is
\* closed when handle() ends.
Opened == {peer[f] : f \in Fds} \cup shut

Accept(k, f) ==
    /\ k \notin Opened /\ peer[f] = Null
    /\ peer' = [peer EXCEPT ![f] = k]
    /\ UNCHANGED <<poolVars, u_map, fd_set, fd_mutex, nLeft, shut, stream, closing, unsent>>

CloseConn(f) ==
    /\ peer[f] # Null
    /\ peer' = [peer EXCEPT ![f] = Null]
    /\ shut' = shut \cup {peer[f]}
    /\ UNCHANGED <<poolVars, u_map, fd_set, fd_mutex, nLeft, stream, closing, unsent>>

-----------------------------------------------------------------------------
\* Mutant: only the id is looked up.
IdFree(i, f) == u_map[i] = Null

MayRegist(i, f) == u_map[i] = Null /\ f \notin fd_set

\* The handler of an upgrade registers its socket.
regist(i, f) ==
    /\ peer[f] # Null /\ MayRegist(i, f)
    /\ u_map' = [u_map EXCEPT ![i] = f]
    /\ fd_set' = fd_set \cup {f}
    /\ UNCHANGED <<poolVars, fd_mutex, nLeft, peer, shut, stream, closing, unsent>>

\* Called when the websocket closes.  The code erases whatever pair it is given; the
\* callers are taken to give back the pair they registered.
unregist(i, f) ==
    /\ u_map[i] = f
    /\ u_map' = [u_map EXCEPT ![i] = Null]
    /\ fd_set' = fd_set \ {f}
    /\ UNCHANGED <<poolVars, fd_mutex, nLeft, peer, shut, stream, closing, unsent>>

\* get_fd, and then commit() with the descriptor it gave.
send_msg_by_id(c, i, m, close) ==
    /\ closing[c] = Null /\ m \in unsent /\ u_map[i] # Null
    /\ Commit(c, [fd |-> u_map[i], msg |-> m, close |-> close])
    /\ unsent' = unsent \ {m}
    /\ UNCHANGED <<u_map, fd_set, fd_mutex, nLeft, peer, shut, stream, closing>>

\* A handler that knows its descriptor sends without the id.
send_ws_string(c, f, m, close) ==
    /\ closing[c] = Null /\ m \in unsent /\ peer[f] # Null
    /\ Commit(c, [fd |-> f, msg |-> m, close |-> close])
    /\ unsent' = unsent \ {m}
    /\ UNCHANGED <<u_map, fd_set, fd_mutex, nLeft, peer, shut, stream, closing>>

close_by_key(c, i) ==
    /\ call[c] = "out" /\ closing[c] = Null /\ u_map[i] # Null
    /\ closing' = [closing EXCEPT ![c] = u_map[i]]
    /\ UNCHANGED <<poolVars, u_map, fd_set, fd_mutex, nLeft, peer, shut, stream, unsent>>

\* Mutant: shutdown() of a descriptor that nothing is behind is noted.
ShutdownAny(f) == shut' = shut \cup {peer[f]}

\* shutdown() of a descriptor that nothing is behind fails.
Shutdown(f) == shut' = shut \cup ({peer[f]} \ {Null})

Close(c) ==
    /\ closing[c] # Null
    /\ Shutdown(closing[c])
    /\ closing' = [closing EXCEPT ![c] = Null]
    /\ UNCHANGED <<poolVars, u_map, fd_set, fd_mutex, nLeft, peer, stream, unsent>>

-----------------------------------------------------------------------------
\* The task: lock, Writen, Close, unlock.

Stripe(f) == f % Stripes

\* Mutant: the task does not lock.
AnyTime(f) == TRUE

Unlocked(f) == fd_mutex[Stripe(f)] = Null

Lock(w) ==
    /\ at[w] = "run" /\ nLeft[w] = 0 /\ Unlocked(task[w].fd)
    /\ fd_mutex' = [fd_mutex EXCEPT ![Stripe(task[w].fd)] = w]
    /\ \E n \in 1..Pieces : nLeft' = [nLeft EXCEPT ![w] = n]
    /\ UNCHANGED <<poolVars, u_map, fd_set, peer, shut, stream, closing, unsent>>

Writable(f) == peer[f] # Null /\ peer[f] \notin shut

\* One ::send of Writen, not the last.
Writen(w) ==
    /\ at[w] = "run" /\ nLeft[w] > 1 /\ Writable(task[w].fd)
    /\ stream' = [stream EXCEPT ![peer[task[w].fd]] = Append(@, task[w].msg)]
    /\ nLeft' = [nLeft EXCEPT ![w] = @ - 1]
    /\ UNCHANGED <<poolVars, u_map, fd_set, fd_mutex, peer, shut, closing, unsent>>

\* The last ::send, or one that fails: the socket is gone, or takes no more.
Done(w) ==
    /\ nLeft[w] > 0
    /\ \/ nLeft[w] = 1 /\ Writable(task[w].fd)
          /\ stream' = [stream EXCEPT ![peer[task[w].fd]] = Append(@, task[w].msg)]
       \/ UNCHANGED stream
    /\ IF task[w].close THEN Shutdown(task[w].fd) ELSE UNCHANGED shut
    /\ fd_mutex' = [fd_mutex EXCEPT ![Stripe(task[w].fd)] = Null]
    /\ nLeft' = [nLeft EXCEPT ![w] = 0]
    /\ Finish(w)
    /\ UNCHANGED <<u_map, fd_set, peer, closing, unsent>>

Caller(c) ==
    \/ Close(c)
    \/ UNCHANGED wsVars /\ (Push(c) \/ NotifyOne(c))

Body(w) == Lock(w) \/ Writen(w) \/ Done(w)

Next ==
    \/ \E k \in Conns, f \in Fds : Accept(k, f)
    \/ \E f \in Fds : CloseConn(f)
    \/ \E i \in Ids, f \in Fds : regist(i, f) \/ unregist(i, f)
    \/ \E c \in Callers, m \in Msgs, b \in BOOLEAN :
          \/ \E i \in Ids : send_msg_by_id(c, i, m, b)
          \/ \E f \in Fds : send_ws_string(c, f, m, b)
    \/ \E c \in Callers, i \in Ids : close_by_key(c, i)
    \/ \E c \in Callers : Caller(c)
    \/ \E w \in Workers : Body(w)
    \/ UNCHANGED wsVars /\ (\E w \in Workers : Worker(w) \/ WakeUp(w))
    \/ UNCHANGED wsVars /\ (Stop \/ NotifyAll \/ Join)

Spec == Init /\ [][Next]_vars

\* The threads run on: callers inside commit(), workers, and the tasks.
Fairness ==
    /\ \A c \in Callers : SF_vars(Push(c) /\ UNCHANGED wsVars)
                       /\ WF_vars(NotifyOne(c) /\ UNCHANGED wsVars)
    /\ \A w \in Workers : SF_vars(Worker(w) /\ UNCHANGED wsVars)
                       /\ SF_vars(Lock(w)) /\ WF_vars(Writen(w) \/ Done(w))

FairSpec == Spec /\ Fairness

-----------------------------------------------------------------------------
\* The pieces of a message are not mixed with those of another one: workers that
\* write to one socket at a time take turns by fd_mutex.
FramesWhole ==
    \A k \in Conns : \A i, j \in DOMAIN stream[k] :
        stream[k][i] = stream[k][j] => \A n \in i..j : stream[k][n] = stream[k][i]

\* An id stands for one descriptor and a descriptor for one id, and fd_set, which
\* refuses a second id, holds exactly the descriptors of u_map.
RegistrySound ==
    /\ fd_set = {u_map[i] : i \in Ids} \ {Null}
    /\ \A i, j \in Ids : u_map[i] = u_map[j] /\ u_map[i] # Null => i = j

\* A message that was committed is written, or its socket fails, unless the pool
\* is stopped: no worker waits for a mutex or a wakeup forever.
EveryTaskRuns ==
    \A m \in Msgs : m \notin unsent ~>
        \/ ~run
        \/ /\ \A i \in DOMAIN tasks : tasks[i].msg # m
           /\ \A w \in Workers : task[w] # Null => task[w].msg # m
           /\ \A c \in Callers : arg[c] # Null => arg[c].msg # m
=============================================================================
