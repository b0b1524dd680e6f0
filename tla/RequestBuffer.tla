---------------------------- MODULE RequestBuffer ----------------------------
(***************************************************************************)
(* What a request knows of its head it knows by pointers into buf_: the    *)
(* method, the url and the headers.  buf_ is moved when it grows, and used *)
(* again from its start for the rest of an upload and for WebSocket        *)
(* frames; copy_method_url_headers is what keeps the request readable.     *)
(***************************************************************************)
EXTENDS Integers

CONSTANTS
    MaxMoves,   \* bounds how often buf_ is moved
    MaxReads    \* bounds the reads of a connection

VARIABLE rb

rbVars == <<rb>>

\* place: which buf_ it is; over: the head in it has been overwritten; cur: current_size() # 0;
\* views: the buf_ that method_, url_ and headers_ point into; mlen: method_len_ # 0; head: the
\* head was complete when it was parsed; strs: method_str_ and url_str_ are the request's;
\* copied: copy_headers_ is not empty; at: what connection is doing; kind: the request;
\* asked: whether user code runs, and may ask the request.
RBInit ==
    \E kind \in {"string", "multipart", "websocket"} :
        rb = [place |-> 0, over |-> FALSE, cur |-> FALSE, views |-> -1, mlen |-> FALSE, head |-> FALSE,
              strs |-> FALSE, copied |-> FALSE, at |-> "head", kind |-> kind, asked |-> FALSE, reads |-> 0]

-----------------------------------------------------------------------------
\* The bytes a view shows are still those of the head.
Live(r) == r.views = r.place /\ ~r.over

\* With method_len_ = 0 the strings are used, without copies the views.
get_url_ok(r) == IF r.mlen THEN Live(r) ELSE r.strs

get_header_value_ok(r) == IF r.copied THEN TRUE ELSE Live(r)

copy_method_url_headers(r) ==
    IF ~r.mlen THEN r
    ELSE [r EXCEPT !.strs = Live(r), !.mlen = FALSE, !.copied = @ \/ (r.head /\ Live(r))]

\* A plausible bug: the head is not copied before the buffer is used again.
forgets_head(r) == [r EXCEPT !.cur = FALSE]

\* set_current_size(0): the next read goes to the start of buf_.
set_current_size_0(r) == copy_method_url_headers([r EXCEPT !.cur = FALSE])

resize(r) == [copy_method_url_headers(r) EXCEPT !.place = @ + 1]

\* expand_size and fit_size: whether buf_ is too small depends on the lengths.
Fits(r) == {r} \cup IF r.place < MaxMoves THEN {resize(r)} ELSE {}

\* copy_headers_ is cleared and the views are set anew, as far as the head is there: none, the
\* method and the url, or all.
parse_header(r, method, head) ==
    [r EXCEPT !.copied = FALSE, !.mlen = method, !.views = r.place, !.head = head]

request_reset(r) == [r EXCEPT !.cur = FALSE, !.copied = FALSE]

\* async_read to buffer().
Received(r) == [r EXCEPT !.over = @ \/ (~r.cur /\ r.views # -1), !.cur = TRUE, !.reads = @ + 1]

Reading(at) == rb.at = at /\ ~rb.asked /\ rb.reads < MaxReads

-----------------------------------------------------------------------------
\* handle_read with a head that is not complete.
ReadsPart ==
    /\ Reading("head")
    /\ \E method \in BOOLEAN : rb' = parse_header(Received(rb), method, FALSE)

\* handle_read with a complete head; user code is called when the body is there, or for the
\* parts of a form, or to open the WebSocket.
ReadsHead ==
    /\ Reading("head")
    /\ LET p == parse_header(Received(rb), TRUE, TRUE)
       IN  \/ rb' = [p EXCEPT !.asked = TRUE, !.at = IF rb.kind = "string" THEN "done" ELSE rb.kind]
           \/ rb.kind = "string" /\ rb' \in Fits(p)

\* User code returns: an upload that is not complete, or the WebSocket, reads on.
Returns ==
    /\ rb.asked
    /\ rb' = CASE rb.at = "done"   -> [rb EXCEPT !.asked = FALSE]
               [] rb.at = "broken" -> [request_reset(rb) EXCEPT !.asked = FALSE, !.at = "done"]
               [] OTHER            -> [set_current_size_0(rb) EXCEPT !.asked = FALSE]

\* do_read_multipart: fit_size, the parser and its callbacks, set_current_size(0).
ReadsMultipart ==
    /\ Reading("multipart")
    /\ \E r \in Fits(Received(rb)) : rb' = [r EXCEPT !.asked = TRUE]

\* A frame is given to the event handler of the WebSocket.
ReadsFrame ==
    /\ Reading("websocket")
    /\ rb' = [Received(rb) EXCEPT !.asked = TRUE]

\* A broken frame: the handler hears of it, then Close() resets the request.
ReadsBroken ==
    /\ Reading("websocket")
    /\ rb' = [Received(rb) EXCEPT !.asked = TRUE, !.at = "broken"]

RBNext == ReadsPart \/ ReadsHead \/ Returns \/ ReadsMultipart \/ ReadsFrame \/ ReadsBroken

RBSpec == RBInit /\ [][RBNext]_rbVars

-----------------------------------------------------------------------------
(* Whenever user code runs (a handler of the router, a callback of a form, an event of a      *)
(* WebSocket), the url, the method and the headers it asks the request for are those of the   *)
(* head that was parsed, although buf_ has been moved or written over since.                  *)
RequestReadable == rb.asked => get_url_ok(rb) /\ get_header_value_ok(rb)
=============================================================================
