----------------------------- MODULE ServerLife -----------------------------
(***************************************************************************)
(* The life of a server: http_server and Server of http_server.hpp, with   *)
(* the listening socket of Acceptor and the epoll handles of IoContext,    *)
(* core.hpp.                                                               *)
(*                                                                         *)
(* The constructor opens the listening socket, copies its number into the  *)
(* Acceptor of every Server, run() starts a thread for each and waits for  *)
(* them, and the destructors close what was opened.  Every system call may *)
(* fail, and each failure unwinds what was built so far.  Descriptors are  *)
(* numbers: the kernel gives the lowest that is free, closing one that is  *)
(* not open does nothing, and the application opens files of its own and   *)
(* tries again after a failed start.                                       *)
(***************************************************************************)
EXTENDS Integers, Sequences, FiniteSets

CONSTANTS
    Num,       \* m_num, the threads
    MaxTries,  \* bound on the servers the application makes, one after the other
    MaxFiles   \* bound on the files it opens

(***************************************************************************)
(* sv: the process.                                                        *)
(*   at     where its main thread stands                                   *)
(*   fds    the open descriptors, with what they are                       *)
(*   sock   m_socket of http_server::m_acceptor, copied into every Server  *)
(*   eps    m_epoll_handle of each Server made                             *)
(*   thr    m_thread of each Server                                        *)
(*   due    the destructors still to run                                   *)
(*   tries, files   what the application has used of its bounds            *)
(***************************************************************************)
VARIABLE sv

svVars == <<sv>>

NULL_SOCKET == 0

\* m_servers is empty and no descriptor is held.
Acceptor(fds, tries, files) ==
    [at |-> "open_socket", fds |-> fds, sock |-> NULL_SOCKET, eps |-> <<>>,
     thr |-> [i \in 1..Num |-> "none"], due |-> <<>>, tries |-> tries, files |-> files]

\* The application starts with its input, descriptor 0, or as a daemon without it.
SVInit == \E open \in {{0}, {}} : sv = Acceptor([n \in open |-> "file"], 1, 0)

\* The descriptor the kernel gives next.
Lowest(fds) == CHOOSE n \in 0..Cardinality(DOMAIN fds) :
                   n \notin DOMAIN fds /\ 0..n-1 \subseteq DOMAIN fds

Opened(fds, what) ==
    [n \in DOMAIN fds \cup {Lowest(fds)} |-> IF n \in DOMAIN fds THEN fds[n] ELSE what]

Closed(fds, n) == [k \in DOMAIN fds \ {n} |-> fds[k]]

-----------------------------------------------------------------------------
(***************************************************************************)
(* The destructors, as a list of what they close, whom they wait for and   *)
(* the Servers they destroy.                                               *)
(* Mutant: a destructor that tests for NULL_SOCKET, as reset() does.       *)
(***************************************************************************)
skips_null(sock) == IF sock # NULL_SOCKET THEN <<<<"close", sock>>>> ELSE <<>>

\* ~Acceptor: m_socket is never -1 once a constructor has run.
close_acceptor(sock) == IF sock # -1 THEN <<<<"close", sock>>>> ELSE <<>>

\* ~Server, its members in reverse: m_acceptor, m_thread, m_ctx.
close_server(i) ==
    close_acceptor(sv.sock) \o <<<<"thread", i>>, <<"close", sv.eps[i]>>>>

\* ~http_server: m_acceptor, then the Servers of m_servers.
Destructors == close_acceptor(sv.sock) \o [i \in 1..Len(sv.eps) |-> <<"server", i>>]

\* One of them; std::thread terminates the process when it was not joined.
Destroys ==
    /\ sv.at = "destroy"
    /\ IF sv.due = <<>> THEN sv' = [sv EXCEPT !.at = "gone"]
       ELSE LET d == Head(sv.due) IN
            IF d[1] = "close" THEN
                sv' = [sv EXCEPT !.fds = Closed(@, d[2]), !.due = Tail(@)]
            ELSE IF d[1] = "server" THEN
                sv' = [sv EXCEPT !.due = close_server(d[2]) \o Tail(@)]
            ELSE IF sv.thr[d[2]] \in {"running", "ended"} THEN
                sv' = [sv EXCEPT !.at = "terminated"]
            ELSE sv' = [sv EXCEPT !.due = Tail(@)]

-----------------------------------------------------------------------------
(***************************************************************************)
(* The constructor.                                                        *)
(***************************************************************************)

open_socket ==
    /\ sv.at = "open_socket"
    /\ sv' \in {[sv EXCEPT !.at = "linger", !.sock = Lowest(sv.fds), !.fds = Opened(@, "listen")],
                [sv EXCEPT !.at = "catch"]}

\* A call that succeeds, or throws into the catch of init.
Tried(from, to) ==
    /\ sv.at = from
    /\ sv' \in {[sv EXCEPT !.at = to], [sv EXCEPT !.at = "catch"]}

\* init: the two options of the socket.
init == Tried("linger", "reuse") \/ Tried("reuse", "bind")

bind_socket == Tried("bind", "listen")

listen == Tried("listen", "servers")

\* reset(), before any context is set: a close that fails ends the process.
reset ==
    IF sv.sock = NULL_SOCKET THEN {sv}
    ELSE {[sv EXCEPT !.at = "exited"],
          [sv EXCEPT !.fds = Closed(@, sv.sock), !.sock = NULL_SOCKET]}

\* catch(...) of init: reset() and throw, after which ~Acceptor runs, because
\* the constructor this one delegates to has completed.
Catches ==
    /\ sv.at = "catch"
    /\ \E after \in reset :
          sv' = IF after.at = "exited" THEN after
                ELSE [after EXCEPT !.at = "destroy", !.due = close_acceptor(after.sock)]

\* IoContext opens an epoll handle.
IoContext == [sv EXCEPT !.eps = Append(@, Lowest(sv.fds)), !.fds = Opened(@, "epoll")]

\* m_servers.emplace_back: IoContext may throw; reset_io_context copies the socket.
Server ==
    /\ sv.at = "servers" /\ Len(sv.eps) < Num
    /\ sv' \in {IoContext, [sv EXCEPT !.at = "destroy", !.due = Destructors]}

-----------------------------------------------------------------------------
(***************************************************************************)
(* run().                                                                  *)
(***************************************************************************)

\* Serve() for each Server in turn; std::thread may fail to start.
Serve ==
    /\ sv.at \in {"servers", "serve"} /\ Len(sv.eps) = Num
    /\ LET waiting == {i \in 1..Num : sv.thr[i] = "none"}
           i == CHOOSE j \in waiting : \A k \in waiting : j <= k
       IN sv' \in {[sv EXCEPT !.thr[i] = "running", !.at = IF i = Num THEN "join" ELSE "serve"],
                   [sv EXCEPT !.at = "destroy", !.due = Destructors]}

\* An exception ends a thread; the others do not look at stop_thread.
ThreadEnds(i) ==
    /\ sv.at \notin {"exited", "terminated"}
    /\ sv.thr[i] = "running"
    /\ sv' = [sv EXCEPT !.thr[i] = "ended"]

\* join() on each in turn, then run() returns and the server is destroyed.
Join(i) ==
    /\ sv.at = "join"
    /\ sv.thr[i] = "ended" /\ \A k \in 1..i-1 : sv.thr[k] = "joined"
    /\ sv' = [sv EXCEPT !.thr[i] = "joined",
                        !.at = IF i = Num THEN "destroy" ELSE "join",
                        !.due = IF i = Num THEN Destructors ELSE @]

-----------------------------------------------------------------------------
(***************************************************************************)
(* The application.                                                        *)
(***************************************************************************)

OpensFile ==
    /\ sv.at \notin {"exited", "terminated"} /\ sv.files < MaxFiles
    /\ sv' = [sv EXCEPT !.fds = Opened(@, "file"), !.files = @ + 1]

TriesAgain ==
    /\ sv.at = "gone" /\ sv.tries < MaxTries
    /\ sv' = Acceptor(sv.fds, sv.tries + 1, sv.files)

SVNext ==
    \/ open_socket \/ init \/ bind_socket \/ listen \/ Catches \/ Server
    \/ Serve \/ \E i \in 1..Num : ThreadEnds(i) \/ Join(i)
    \/ Destroys \/ OpensFile \/ TriesAgain

SVSpec == SVInit /\ [][SVNext]_svVars

-----------------------------------------------------------------------------
(***************************************************************************)
(* While a thread serves, the number in its Acceptor is the listening      *)
(* socket and the handle of its IoContext is an epoll handle: no close of  *)
(* an earlier server or of a failed start has reached them.  And once a    *)
(* server is gone none of its descriptors is left open, whichever call     *)
(* failed and whichever number the kernel gave, 0 included.                *)
(***************************************************************************)
ListenerKept ==
    /\ sv.at \in {"serve", "join"} => /\ sv.sock \in DOMAIN sv.fds /\ sv.fds[sv.sock] = "listen"
                                      /\ \A i \in 1..Num : sv.eps[i] \in DOMAIN sv.fds
                                                           /\ sv.fds[sv.eps[i]] = "epoll"
    /\ sv.at = "gone" => \A n \in DOMAIN sv.fds : sv.fds[n] = "file"

=============================================================================
