----------------------------- MODULE Connection -----------------------------
(***************************************************************************)
(* One HTTP connection above the event loop: the loop of Server::handle,   *)
(* connection::process and what it does with the buffer of the request.    *)
(* The peer's bytes arrive in pieces of any size; sizes are counted in     *)
(* units, and what the bytes say is given by the request the peer sends.   *)
(***************************************************************************)
EXTENDS Integers, Sequences

CONSTANTS
    Requests,   \* what a peer may send
    BufInit,    \* the size of buf_ at first (1024)
    MaxSize,    \* __config__::maxRequestSize (3 MB)
    MaxHeader,  \* max_header_len_ (1 MB)
    Word,       \* the number of values of size_t
    MaxFrames   \* bound: websocket reads of one connection

\* line: the bytes up to the end of the url; head: the bytes of the header;
\* body: the Content-Length; route: a handler is registered for method and url.
Kinds == {"none", "file", "upgrade", "string", "urlencoded", "octet", "chunked", "multipart"}
Shape == [line : Nat, head : Nat, body : Nat, kind : Kinds, route : BOOLEAN, valid : BOOLEAN]

ASSUME ConnectionAssumption ==
    /\ BufInit \in Nat \ {0} /\ MaxSize \in Nat /\ MaxHeader \in Nat /\ Word \in Nat /\ MaxFrames \in Nat
    /\ BufInit <= MaxSize /\ 4 * MaxSize < Word
    /\ \A r \in Requests :
          /\ r \in Shape
          /\ r.line \in 1..(r.head - 1)
          /\ r.head + r.body < Word - MaxSize
          /\ r.kind \in {"none", "file", "upgrade"} => r.body = 0

VARIABLES
    sent,       \* the request the peer sends
    arrived,    \* how much of it async_read has delivered
    req,        \* the request: cur_size_, the size of buf_, header_len_,
                \*     body_len_, left_body_len_
    work,       \* continue_work_
    rep,        \* what rep_str_ holds
    calls,      \* how often the handler of the route has run
    frames,     \* how many reads found websocket data
    out,        \* what has been written to the socket
    pc          \* where handle() is

vars == <<sent, arrived, req, work, rep, calls, frames, out, pc>>

Replies == {"nothing", "bad", "toolong", "notfound", "forbidden", "error", "ok", "filehead",
            "handshake", "message", "close"}

TypeOK ==
    /\ sent \in Requests
    /\ arrived \in 0..(sent.head + sent.body)
    /\ req \in [cur : 0..MaxSize, cap : BufInit..MaxSize, header_len : Int,
                body_len : 0..(Word - 1), left_body_len : 0..(Word - 1)]
    /\ req.cur < req.cap
    /\ work \in {"none", "route", "do_read_multipart", "handle_ws_data"}
    /\ rep \in Replies
    /\ calls \in Nat
    /\ frames \in 0..MaxFrames
    /\ out \in Seq(Replies)
    /\ pc \in {"reading", "writing", "writing then reading", "done"}

Init ==
    /\ sent \in Requests
    /\ arrived = 0
    /\ req = [cur |-> 0, cap |-> BufInit, header_len |-> 0, body_len |-> 0, left_body_len |-> 0]
    /\ work = "none"
    /\ rep = "nothing"
    /\ calls = 0
    /\ frames = 0
    /\ out = <<>>
    /\ pc = "reading"

-----------------------------------------------------------------------------
\* What process() can end with.

Answers(r, s) ==
    /\ req' = r /\ rep' = s /\ pc' = "writing"
    /\ UNCHANGED <<work, calls, frames, out>>

NeedsRead(r, w) ==
    /\ req' = r /\ work' = w
    /\ UNCHANGED <<rep, calls, frames, out, pc>>

\* The handler of the route answers, or throws and is answered for.
call_back(r) ==
    /\ calls' = calls + 1
    /\ req' = r /\ rep' \in {"ok", "error"} /\ pc' = "writing"
    /\ UNCHANGED <<work, frames, out>>

-----------------------------------------------------------------------------
\* class request

\* The sum or difference of two size_t as a size_t.
SizeT(n) == IF n < 0 THEN n + Word ELSE IF n >= Word THEN n - Word ELSE n

total_len(r) == SizeT(r.header_len + r.body_len)

\* header_len_ is an int: -2, "not complete", is huge as a size_t.
at_capacity(r) == total_len(r) > MaxSize

left_size == req.cap - req.cur

\* Mutant: the header is not counted.
received_body_len(r) == r.body_len <= r.cur

has_recieved_all(r) == total_len(r) <= r.cur

has_recieved_all_part(r) == r.body_len = SizeT(r.cur - r.header_len)

\* Mutant: resize() is called without the question.
Resized(size, total) == IF total < MaxSize THEN total ELSE MaxSize

\* resize() never makes buf_ smaller: both callers ask whether it grows.
Grown(size, total) == IF total < MaxSize THEN IF total > size THEN total ELSE size
                                         ELSE MaxSize

reduce_left_body_size(r, n) == SizeT(r.left_body_len - n)

\* phr_parse_request of the first cur bytes.
phr_parse_request(cur) ==
    IF cur >= sent.head THEN {IF sent.valid THEN sent.head ELSE -1}
                        ELSE {-2} \cup (IF sent.valid THEN {} ELSE {-1})

\* parse_header notes the lengths of a complete header; without Content-Length
\* left_body_len_ is not touched.  It refuses more than MaxHeader bytes in buf_,
\* whether they are header or body.
parse_header(r, h) ==
    IF h < 0 \/ r.cur > MaxHeader THEN [r EXCEPT !.header_len = h]
    ELSE IF sent.kind = "chunked" \/ sent.body = 0
    THEN [r EXCEPT !.header_len = h, !.body_len = 0]
    ELSE [r EXCEPT !.header_len = h, !.body_len = sent.body, !.left_body_len = sent.body]

-----------------------------------------------------------------------------
\* The bodies

\* A body that says it is gzip may not be, and check_headers_ may refuse the request.
handle_body(r) == Answers(r, "bad") \/ call_back(r)

handle_string_body(r) ==
    \/ at_capacity(r) /\ Answers(r, "toolong")
    \/ ~at_capacity(r) /\ has_recieved_all(r) /\ handle_body(r)
    \/ /\ ~at_capacity(r) /\ ~has_recieved_all(r)
       /\ NeedsRead([r EXCEPT !.cap = Grown(@, total_len(r)),
                              !.left_body_len = reduce_left_body_size(r, r.cur - r.header_len)],
                    "none")

\* The form may not be one, and check_headers_ may refuse the request.
handle_url_urlencoded_body(r) == Answers(r, "bad") \/ call_back(r)

\* A form that is not complete is answered with the reply as it is.
handle_form_urlencoded(r) ==
    \/ at_capacity(r) /\ Answers(r, "toolong")
    \/ ~at_capacity(r) /\ has_recieved_all(r) /\ handle_url_urlencoded_body(r)
    \/ /\ ~at_capacity(r) /\ ~has_recieved_all(r)
       /\ Answers([r EXCEPT !.cap = Grown(@, total_len(r)),
                            !.left_body_len = reduce_left_body_size(r, 0 - r.header_len)], rep)

\* parse_chunked fails, always.
handle_chunked(r) == Answers(r, "error")

\* upload_check_ refuses (and Close() resets the request), or the parser finds an
\* error, or all is there, or the buffer is used again for the rest.
handle_multipart(r) ==
    \/ Answers([r EXCEPT !.cur = 0], "bad")
    \/ r.cur > r.header_len /\ Answers(r, "bad")
    \/ LET p == [r EXCEPT !.left_body_len = reduce_left_body_size(r, r.cur - r.header_len)]
       IN  \/ has_recieved_all_part(p) /\ call_back(p)
           \/ ~has_recieved_all_part(p) /\ NeedsRead([p EXCEPT !.cur = 0], "do_read_multipart")

\* last_transfer_ is never written: parse_multipart(0, 0) feeds nothing to the
\* parser and left_body_len_ stays above 0.
do_read_multipart(r) ==
    NeedsRead([r EXCEPT !.cap = Grown(@, r.left_body_len), !.cur = 0], "do_read_multipart")

\* The handler starts the download of a large file: the header is the reply, the
\* rest is left to continue_work_.
process_download(r) ==
    /\ calls' = calls + 1
    /\ req' = r /\ rep' = "filehead" /\ work' = "route" /\ pc' = "writing"
    /\ UNCHANGED <<frames, out>>

\* The handshake is written directly and stays in rep_str_, unless the handler puts
\* something else there.
response_handshake(r) ==
    /\ calls' = calls + 1
    /\ req' = [r EXCEPT !.cur = 0]
    /\ rep' \in {"handshake", "ok", "error"}
    /\ out' = Append(out, "handshake")
    /\ work' = "handle_ws_data"
    /\ UNCHANGED <<frames, pc>>

\* check_keep_alive: the header asks for an upgrade and does not close the connection.
is_ws_socket == sent.kind = "upgrade"

\* A request without a body may say that it is gzip.
handle_header_request(r) ==
    \/ is_ws_socket /\ (Answers(r, "forbidden") \/ response_handshake(r))
    \/ ~is_ws_socket /\ Answers(r, "bad")
    \/ sent.kind = "file" /\ (Answers(r, "notfound") \/ process_download(r))
    \/ sent.kind \notin {"upgrade", "file"} /\ call_back(r)

\* A body of Content-Length 0 is no body.
has_body(r) == r.body_len # 0 \/ sent.kind = "chunked"

handle_request(r) ==
    \/ ~has_body(r) /\ handle_header_request(r)
    \/ has_body(r) /\ sent.kind = "string" /\ handle_string_body(r)
    \/ has_body(r) /\ sent.kind = "urlencoded" /\ handle_form_urlencoded(r)
    \/ has_body(r) /\ sent.kind = "octet" /\ Answers(r, rep)
    \/ sent.kind = "chunked" /\ handle_chunked(r)
    \/ has_body(r) /\ sent.kind = "multipart" /\ handle_multipart(r)

\* Mutant: the route is not looked up before the handler is called.
any_route(r) == TRUE

\* The url is known when the request line has arrived.
peek_route(r) == r.cur >= sent.line /\ sent.route

handle_read(r) ==
    \E h \in phr_parse_request(r.cur) :
        LET p == parse_header(r, h)
        IN  IF h = -1 \/ r.cur > MaxHeader THEN Answers(p, "bad")
            ELSE \/ ~peek_route(p) /\ Answers(p, "notfound")
                 \/ h = -2 /\ peek_route(p) /\ NeedsRead(p, "none")
                 \/ h >= 0 /\ peek_route(p) /\ handle_request(p)

\* One read of a websocket ends with a frame that is not complete; with a broken
\* frame, after which Close() resets; with a close frame; or with a last frame, which
\* alone goes on.  A frame before that may have left its answer in rep_str_.
handle_ws_data(r) ==
    /\ frames < MaxFrames
    /\ frames' = frames + 1
    /\ UNCHANGED <<calls, out>>
    /\ \/ req' = r /\ rep' \in {rep, "message"} /\ UNCHANGED <<work, pc>>
       \/ /\ req' = [r EXCEPT !.cur = 0] /\ work' = "none" /\ rep' = "nothing" /\ pc' = "writing"
       \/ req' = r /\ rep' = "close" /\ pc' = "writing" /\ UNCHANGED work
       \/ /\ req' = [r EXCEPT !.cur = 0] /\ rep' \in {rep, "message"}
          /\ pc' = "writing then reading" /\ UNCHANGED work

process(r) ==
    \/ at_capacity(r) /\ Answers(r, "toolong")
    \/ ~at_capacity(r) /\ work = "none" /\ handle_read(r)
    \/ ~at_capacity(r) /\ work = "do_read_multipart" /\ do_read_multipart(r)
    \/ ~at_capacity(r) /\ work = "handle_ws_data" /\ handle_ws_data(r)

-----------------------------------------------------------------------------
\* Server::handle

Remaining == IF work = "handle_ws_data" THEN MaxSize ELSE sent.head + sent.body - arrived

\* async_read delivers n bytes, and process() is called.
Read(n) ==
    /\ pc = "reading" /\ n < left_size
    /\ arrived' = IF work = "handle_ws_data" THEN arrived ELSE arrived + n
    /\ process([req EXCEPT !.cur = @ + n])
    /\ UNCHANGED sent

\* "buffer not enough space": as many bytes as buf_ has room for are too many.
ReadTooMuch ==
    /\ pc = "reading" /\ Remaining >= left_size
    /\ pc' = "done"
    /\ UNCHANGED <<sent, arrived, req, work, rep, calls, frames, out>>

\* The peer closes or resets, or the 100 seconds are over.
ReadEnds ==
    /\ pc = "reading"
    /\ pc' = "done"
    /\ UNCHANGED <<sent, arrived, req, work, rep, calls, frames, out>>

\* Mutant: need_write does not end the loop.
Again(p) == "reading"

\* for_1_end: only need_write_then_read goes on.
AfterWrite(p) == IF p = "writing" THEN "done" ELSE "reading"

Write ==
    /\ pc \in {"writing", "writing then reading"}
    /\ out' = Append(out, rep)
    /\ pc' = AfterWrite(pc)
    /\ UNCHANGED <<sent, arrived, req, work, rep, calls, frames>>

WriteFails ==
    /\ pc \in {"writing", "writing then reading"}
    /\ pc' = "done"
    /\ UNCHANGED <<sent, arrived, req, work, rep, calls, frames, out>>

Next ==
    \/ \E n \in 1..Remaining : Read(n)
    \/ ReadTooMuch \/ ReadEnds \/ Write \/ WriteFails

Spec == Init /\ [][Next]_vars

-----------------------------------------------------------------------------
\* The handler never runs on a part of a request: when call_back() runs, every
\* byte of header and body has been read, however they were cut into reads.
HandlerSeesAll == calls > 0 => arrived >= sent.head + sent.body

\* The handler runs at most once for a connection, and only for a request that a
\* route exists for and that is within both limits of the request's size.
HandlerRunsOnce ==
    /\ calls <= 1
    /\ calls > 0 => sent.route /\ sent.head + sent.body <= MaxSize /\ sent.head + sent.body <= MaxHeader

\* What goes out is one reply, unless the connection was upgraded: then the
\* handshake comes first and nothing follows a close frame.
OneReply ==
    IF out # <<>> /\ out[1] = "handshake"
    THEN \A i \in 1..Len(out) : out[i] \in {"close", "nothing"} => i = Len(out)
    ELSE Len(out) <= 1

\* handle() asks the socket for more only while more is to come: "process returns
\* true when what was wanted has been read, and otherwise goes on reading".
ReadsOnlyWhatIsMissing ==
    pc = "reading" /\ work # "handle_ws_data" => arrived < sent.head + sent.body

\* The reply "The request is too long, limitation is 3M" is true.
TooLongIsTooLong == \A i \in 1..Len(out) : out[i] = "toolong" => sent.head + sent.body > MaxSize
=============================================================================
