--------------------------- MODULE ChunkedDecoder ---------------------------
(***************************************************************************)
(* phr_decode_chunked: the decoder keeps its place between calls, and each *)
(* call rewrites the buffer it is given to the data found in it.           *)
(***************************************************************************)
EXTENDS Integers, Sequences

CONSTANT HexDigits   \* sizeof(size_t) * 2, the digits a chunk size may have

\* What decode_hex returns for a byte.
decode_hex(c) ==
    CASE c = "0" -> 0 [] c = "1" -> 1 [] c = "2" -> 2 [] c = "A" -> 10 [] OTHER -> -1

\* "should be zero-filled before start"; consume_trailer is the caller's choice.
NewDecoder(trailer) ==
    [bytes_left_in_chunk |-> 0, consume_trailer |-> trailer, hex_count |-> 0, state |-> "SIZE"]

\* The next place from src on whose byte is (is not) c.
Seek(buf, src, Stop(_)) ==
    LET found == {j \in src..Len(buf) : Stop(buf[j])}
    IN  IF found = {} THEN Len(buf) + 1 ELSE CHOOSE j \in found : \A k \in found : j <= k

\* The end of a call: dst holds the data, ret is -2 for more, -1 for an error, and
\* otherwise the number of bytes after the end of the message.
Exit(d, dst, ret) == [d |-> d, data |-> dst, ret |-> ret]

\* Mutant: the digits of a size are not carried over to the next call.
forgets_size(d) == [d EXCEPT !.bytes_left_in_chunk = 0]

\* The digits read so far stay in the decoder when the buffer ends inside a size.
AtEndOfSize(d) == d

RECURSIVE decode(_, _, _, _)
decode(d, buf, src, dst) ==
    LET left == d.bytes_left_in_chunk
        avail == Len(buf) - src + 1
        v     == decode_hex(buf[src])
        line  == Seek(buf, src, LAMBDA c : c = "LF")
        noCR  == Seek(buf, src, LAMBDA c : c # "CR")
    IN  CASE d.state = "SIZE" ->
                IF src > Len(buf) THEN Exit(AtEndOfSize(d), dst, -2)
                ELSE IF v = -1
                THEN IF d.hex_count = 0 THEN Exit(d, dst, -1)
                     ELSE decode([d EXCEPT !.hex_count = 0, !.state = "EXT"], buf, src, dst)
                ELSE IF d.hex_count = HexDigits THEN Exit(d, dst, -1)
                ELSE decode([d EXCEPT !.bytes_left_in_chunk = left * 16 + v, !.hex_count = @ + 1],
                            buf, src + 1, dst)
          [] d.state = "EXT" ->
                IF line > Len(buf) THEN Exit(d, dst, -2)
                ELSE IF left # 0 THEN decode([d EXCEPT !.state = "DATA"], buf, line + 1, dst)
                ELSE IF d.consume_trailer
                THEN decode([d EXCEPT !.state = "LINE_HEAD"], buf, line + 1, dst)
                ELSE Exit(d, dst, Len(buf) - line)
          [] d.state = "DATA" ->
                IF avail < left
                THEN Exit([d EXCEPT !.bytes_left_in_chunk = left - avail],
                          dst \o SubSeq(buf, src, Len(buf)), -2)
                ELSE decode([d EXCEPT !.bytes_left_in_chunk = 0, !.state = "CRLF"], buf, src + left,
                            dst \o SubSeq(buf, src, src + left - 1))
          [] d.state = "CRLF" ->
                IF noCR > Len(buf) THEN Exit(d, dst, -2)
                ELSE IF buf[noCR] # "LF" THEN Exit(d, dst, -1)
                ELSE decode([d EXCEPT !.state = "SIZE"], buf, noCR + 1, dst)
          [] d.state = "LINE_HEAD" ->
                IF noCR > Len(buf) THEN Exit(d, dst, -2)
                ELSE IF buf[noCR] = "LF" THEN Exit(d, dst, Len(buf) - noCR)
                ELSE decode([d EXCEPT !.state = "LINE_MIDDLE"], buf, noCR + 1, dst)
          [] d.state = "LINE_MIDDLE" ->
                IF line > Len(buf) THEN Exit(d, dst, -2)
                ELSE decode([d EXCEPT !.state = "LINE_HEAD"], buf, line + 1, dst)

phr_decode_chunked(d, buf) == decode(d, buf, 1, <<>>)
=============================================================================
