------------------------------ MODULE HttpClient ------------------------------
(***************************************************************************)
(* The HTTP client.  Despite the names of its methods it does everything   *)
(* in the calling thread: a request connects, writes, reads the head and   *)
(* the body, and reports through the promise of a blocking call or through *)
(* the callback of an "asynchronous" one.  What the network does in a call *)
(* is a record net; a call maps the client hc to the client after it.      *)
(***************************************************************************)
EXTENDS Integers, Sequences

CONSTANTS
    Hosts,        \* the hosts of the requests
    NoHost,       \* none of them
    MaxRequests   \* bounds the calls of one client

VARIABLE hc

hcVars == <<hc>>

\* The outcomes of a call that differ: after a failed connect nothing is read, and bytes behind
\* the head come with a head.
Network == {net \in [connect : BOOLEAN, write : BOOLEAN, rest : BOOLEAN,
                     head : {"silent", "closed", "bad", "empty", "body", "body silent"}] :
                /\ ~net.connect => net.head = "closed"
                /\ net.rest => net.head \in {"bad", "empty", "body"}}

Requests == [host : Hosts, is : {"good", "invalid uri", "body without POST"}]

Files == {"none", "data", "empty", "error"}   \* the file of an upload or a download

\* has_connected: has_connected_; promise: the call promise_ belongs to; weak: the call weak_
\* was set for; cb: the call cb_ belongs to; closed: future_ is ready; mem: memFileSize; rest:
\* m_recv_str_buf holds bytes; answers: how often a call was answered, the calls numbered
\* from 1 (0 is none); stuck: the thread waits for good, or has run out of memory.
HCInit ==
    hc = [has_connected |-> FALSE, in_progress |-> FALSE, sync |-> FALSE, promise |-> 0, weak |-> 0,
          cb |-> 0, on_chunk |-> FALSE, last_domain |-> NoHost, closed |-> FALSE, mem |-> -1,
          rest |-> FALSE, answers |-> <<>>, stuck |-> FALSE]

-----------------------------------------------------------------------------
Answered(c, r) == IF r = 0 THEN c ELSE [c EXCEPT !.answers[r] = @ + 1]

\* A plausible bug: the callback is kept once it was called.
callback_kept(c) ==
    IF c.weak # 0 /\ c.weak = c.promise
    THEN [Answered(c, c.weak) EXCEPT !.weak = 0]
    ELSE [Answered(c, c.cb) EXCEPT !.in_progress = FALSE]

\* The promise of a blocking call while there is one; else the callback, then on_chunk_ if one
\* was ever set.
callback(c) ==
    IF c.weak # 0 /\ c.weak = c.promise
    THEN [Answered(c, c.weak) EXCEPT !.weak = 0]
    ELSE [Answered(c, c.cb) EXCEPT !.cb = 0, !.in_progress = FALSE]

close(c) == [c EXCEPT !.has_connected = FALSE]

\* The new promise breaks the old one, which makes future_ ready.
set_error_value(c, cb) ==
    [Answered(Answered(c, c.promise), cb) EXCEPT !.closed = TRUE]

\* A failed write is reported and the call goes on.
Write(c, net) == IF net.write THEN c ELSE callback(c)

\* -1 stands for a file, but only 0 is taken for one: -1 is the size of the data to generate.
send_multipart_msg(c, file, net) ==
    CASE c.mem = -1 -> [c EXCEPT !.stuck = TRUE]
      [] c.mem = 1 -> Write(c, net)
      [] c.mem = 0 /\ file = "error" -> callback(c)
      [] c.mem = 0 /\ file = "empty" -> c
      [] OTHER -> Write(c, net)

do_write(c, file, net) == IF file = "none" THEN Write(c, net) ELSE send_multipart_msg(c, file, net)

\* A body cut short is reported as an empty one; the connection is kept.
do_read_body(c, net) == IF net.head = "body silent" THEN [c EXCEPT !.stuck = TRUE] ELSE callback(c)

\* What an earlier response left in m_recv_str_buf stands in front of the head.
do_read(c, net) ==
    LET read == [c EXCEPT !.rest = net.rest]
    IN  CASE net.head = "silent" -> [c EXCEPT !.stuck = TRUE]
          [] net.head = "closed" -> close(c)
          [] net.head # "closed" /\ (c.rest \/ net.head \in {"bad", "empty"}) -> close(callback(read))
          [] OTHER -> do_read_body(read, net)

async_connect(c, file, net) ==
    LET written == do_write([c EXCEPT !.has_connected = TRUE], file, net)
    IN  CASE ~net.connect -> callback(c)
          [] net.connect /\ written.stuck -> written
          [] OTHER -> do_read(written, net)

\* cb is the call whose callback is passed, 0 for none.  A connection that was kept is only
\* written to.
async_request_impl(c, q, file, cb, net) ==
    LET async == c.promise = 0
        need_switch == async /\ c.sync
        switched == [c EXCEPT !.sync = @ /\ ~async]
        begun == [switched EXCEPT !.in_progress = TRUE]
        need_reset == need_switch \/ c.last_domain \notin {NoHost, q.host}
        reset == IF need_reset THEN [close(begun) EXCEPT !.closed = FALSE] ELSE begun
        ready == [reset EXCEPT !.last_domain = q.host, !.cb = cb, !.weak = IF async THEN @ ELSE c.promise]
    IN  CASE c.in_progress -> set_error_value(switched, cb)
          [] ~c.in_progress /\ q.is = "body without POST" -> set_error_value(begun, cb)
          [] ~c.in_progress /\ q.is # "body without POST" /\ need_reset /\ ~c.closed ->
                  [close(begun) EXCEPT !.stuck = TRUE]
          [] OTHER -> IF q.is = "invalid uri" THEN set_error_value(reset, cb)
                      ELSE IF ready.has_connected THEN do_write(ready, file, net) ELSE async_connect(ready, file, net)

-----------------------------------------------------------------------------
Calling == ~hc.stuck /\ Len(hc.answers) < MaxRequests

Numbered == [hc EXCEPT !.answers = Append(@, 0)]

This == Len(hc.answers) + 1

\* get and post: whatever came of it, the client is free again when the call returns.
request(q, net) ==
    /\ Calling
    /\ LET c == async_request_impl([Numbered EXCEPT !.promise = This, !.sync = TRUE], q, "none", 0, net)
       IN  hc' = IF c.stuck THEN c ELSE [c EXCEPT !.in_progress = FALSE, !.promise = 0]

\* async_get and async_post.
async_request(q, net) ==
    /\ Calling
    /\ hc' = async_request_impl(Numbered, q, "none", This, net)

\* The directory or the file of the download cannot be made: reported at once.
download(q, net) ==
    /\ Calling
    /\ q.is # "body without POST"
    /\ \/ hc' = callback([Numbered EXCEPT !.cb = This])
       \/ hc' = async_request_impl(Numbered, q, "none", This, net)

\* The download that is handed over in pieces, without a callback.
download_chunks(q, net) ==
    /\ Calling
    /\ q.is # "body without POST"
    /\ hc' = async_request_impl([Numbered EXCEPT !.on_chunk = TRUE], q, "none", 0, net)

upload_string(q, net) ==
    /\ Calling
    /\ q.is # "body without POST"
    /\ \E size \in {0, 1}, file \in Files \ {"none"} :
          hc' = async_request_impl([Numbered EXCEPT !.mem = size], q, file, This, net)

upload(q, net) ==
    /\ Calling
    /\ q.is # "body without POST"
    /\ \E file \in Files \ {"none"} : hc' = async_request_impl(Numbered, q, file, This, net)

HCNext ==
    \E q \in Requests, net \in Network :
        \/ request(q, net)
        \/ async_request(q, net)
        \/ download(q, net)
        \/ download_chunks(q, net)
        \/ upload_string(q, net)
        \/ upload(q, net)

HCSpec == HCInit /\ [][HCNext]_hcVars

-----------------------------------------------------------------------------
(* A call is answered at most once, through its promise or its callback ("This callback must  *)
(* be called once, and only once", modern_callback.h:22), although a failed write is reported *)
(* and the call then goes on to read, and although calls of both kinds follow one another.    *)
AnsweredOnce == \A r \in DOMAIN hc.answers : hc.answers[r] <= 1
=============================================================================
