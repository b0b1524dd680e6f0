------------------------------- MODULE WsFrames -------------------------------
(***************************************************************************)
(* WebSocket frames: class websocket, and connection::handle_ws_data,      *)
(* which looks for frames in all the bytes the request's buffer holds.     *)
(* A byte is a number, as the header of a frame packs its fields in bits.  *)
(***************************************************************************)
EXTENDS Integers, Sequences, Bitwise

AnyByte == 256    \* a byte read past the end of a buffer

NoMask == <<0, 0, 0, 0>>

\* What websocket and connection remember between two reads; msgs are the texts handed
\* to the application, out the frames written to the peer.
NewSocket ==
    [fin |-> 0, op |-> 0, payload_length |-> 0, mask |-> NoMask,
     buf |-> <<>>, last_ws_str |-> <<>>, msgs |-> <<>>, out |-> <<>>, closed |-> FALSE]

Byte(buf, i) == IF i <= Len(buf) THEN buf[i] ELSE AnyByte

\* Two bytes in network order.
ntohs(buf, i) == Byte(buf, i) * 256 + Byte(buf, i + 1)

\* Mutant: the two bytes of the length are left out of the header.
SameHeader(field) == [bytes |-> IF field = 127 THEN 14 ELSE 6, mask |-> 3]

\* ws_head_len, and where the mask is; the length of the mask is counted in.
HeaderOf(field) ==
    CASE field <= 125 -> [bytes |-> 6, mask |-> 3]
      [] field = 126  -> [bytes |-> 8, mask |-> 5]
      [] field = 127  -> [bytes |-> 14, mask |-> 11]

\* Of an eight byte length only the low half is kept: the sizes here are small.
parse_header(w, buf) ==
    LET field == buf[2] % 128
        h     == HeaderOf(field)
        masked == buf[2] \div 128 = 1
        len   == CASE field <= 125 -> field
                   [] field = 126  -> ntohs(buf, 3)
                   [] field = 127  -> ntohs(buf, 7) * 65536 + ntohs(buf, 9)
        p     == [w EXCEPT !.op = buf[1] % 16, !.fin = buf[1] \div 128, !.payload_length = len,
                           !.mask = IF masked THEN [k \in 1..4 |-> Byte(buf, h.mask + k - 1)] ELSE @]
    IN  IF Len(buf) < 6 THEN [w |-> w, ret |-> -2]
        ELSE [w |-> p, ret |-> IF Len(buf) < h.bytes THEN -2
                               ELSE IF masked THEN h.bytes ELSE h.bytes - 4]

\* parse_payload: the type of the frame, from the bytes after its header.
frame_type(w, buf) ==
    CASE w.payload_length > Len(buf) -> "INCOMPLETE"
      [] w.op \in {0, 1} -> IF w.fin = 1 THEN "TEXT" ELSE "INCOMPLETE_TEXT"
      [] w.op = 2  -> IF w.fin = 1 THEN "BINARY" ELSE "INCOMPLETE_BINARY"
      [] w.op = 8  -> "CLOSE"
      [] w.op = 9  -> "PING"
      [] w.op = 10 -> "PONG"
      [] OTHER -> "BINARY"

\* parse_payload: the text.  Nothing is copied when the mask is zero: the text then is
\* that many zeros.
unmask(w, buf) ==
    [i \in 1..w.payload_length |->
        IF w.mask = NoMask THEN 0 ELSE Byte(buf, i) ^^ w.mask[((i - 1) % 4) + 1]]

\* The header of a frame to the peer: final, and without a mask.
encode_header(length, code) ==
    LET Bytes(n, k) == [i \in 1..k |-> (n \div 256^(k - i)) % 256]
    IN  <<128 + code>> \o
        IF length < 126 THEN <<length>>
        ELSE IF length <= 65535 THEN <<126>> \o Bytes(length, 2)
        ELSE <<127, 0, 0, 0, 0>> \o Bytes(length, 4)

format_message(text, code) == encode_header(Len(text), code) \o text

\* The code of a close frame and what follows it; an invalid one is all zero.
parse_close_payload(text) ==
    LET code == ntohs(text, 1)
    IN  IF Len(text) < 2 \/ code < 1000 \/ code > 4999 \/ code \in 1012..3999 \/ code \in 1004..1006
        THEN [code |-> 0, message |-> <<>>]
        ELSE [code |-> code, message |-> SubSeq(text, 3, Len(text))]

\* The reply to a close frame has the code opcode::close, and as many bytes of the
\* message as the whole payload had, which is two too many.
format_close_payload(message, len) == <<0, 8>> \o [i \in 1..len |-> Byte(message, i)]

handle_ws_frame(w, type, text) ==
    CASE type \in {"TEXT", "BINARY"} ->
            [w EXCEPT !.msgs = Append(@, w.last_ws_str \o text), !.last_ws_str = <<>>]
      [] type = "CLOSE" ->
            LET cf  == parse_close_payload(text)
                len == IF Len(text) < 123 THEN Len(text) ELSE 123
            IN  [w EXCEPT !.out = Append(@, format_message(format_close_payload(cf.message, len), 8)),
                          !.closed = TRUE]
      [] type = "PING" -> [w EXCEPT !.out = Append(@, format_message(text, 10))]
      [] OTHER -> w

\* The loop of handle_ws_data: it goes on after a frame that is not final, at the first
\* byte of its payload, and forgets all bytes after a final one.
RECURSIVE FramesFrom(_, _)
FramesFrom(w, start) ==
    LET buf == w.buf
        h   == parse_header(w, SubSeq(buf, start, Len(buf)))
        body == SubSeq(buf, start + h.ret, Len(buf))
        type == frame_type(h.w, body)
        text == unmask(h.w, body)
        q   == IF type \in {"INCOMPLETE_TEXT", "INCOMPLETE_BINARY"}
               THEN [h.w EXCEPT !.last_ws_str = @ \o text] ELSE h.w
        r   == handle_ws_frame(q, type, text)
    IN  IF h.ret < 0 \/ type = "INCOMPLETE" THEN h.w
        ELSE IF r.closed THEN r
        ELSE IF r.fin = 0 THEN FramesFrom(r, start + h.ret)
        ELSE [r EXCEPT !.buf = <<>>]

\* A read adds bytes to the buffer of the request.
handle_ws_data(w, bytes) == FramesFrom([w EXCEPT !.buf = @ \o bytes], 1)
=============================================================================
