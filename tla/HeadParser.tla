----------------------------- MODULE HeadParser -----------------------------
(***************************************************************************)
(* The head of a message as picohttpparser reads it: the request line or   *)
(* the status line, then the header lines.  A byte is given by the class   *)
(* the parser tells apart: CR, LF, SP, HT, COLON, CTL for a control         *)
(* character, SEP for a printable character that is no part of a token,    *)
(* and a string for a character that stands for itself.                    *)
(***************************************************************************)
EXTENDS Integers, Sequences

CONSTANT MaxHeaders   \* the elements of headers_

CR    == "CR"
LF    == "LF"
SP    == "SP"
HT    == "HT"
CTL   == "CTL"
COLON == "COLON"
SEP   == "SEP"

Digits == {"0", "1", "2", "4"}

\* A parsing function returns NULL with *ret set to -2 or -1, or the place of the
\* next byte.
Partial == [ret |-> -2]
Failed  == [ret |-> -1]
At(i)   == [ret |-> 0, next |-> i]

\* The first place from i on that holds a byte of S; the end when none does.
First(buf, i, S) ==
    LET found == {j \in i..Len(buf) : buf[j] \in S}
    IN  IF found = {} THEN Len(buf) + 1 ELSE CHOOSE j \in found : \A k \in found : j <= k

\* Mutant: a CR ends the line, the LF after it is looked at only when it is there.
eager_line(buf, i) ==
    IF i > Len(buf) THEN Partial
    ELSE IF buf[i] = LF \/ i = Len(buf) THEN At(i + 1)
    ELSE IF buf[i] = CR /\ buf[i + 1] = LF THEN At(i + 2) ELSE Failed

\* A line ends with CR LF or with LF alone.
EndOfLine(buf, i) ==
    IF i > Len(buf) THEN Partial
    ELSE IF buf[i] = LF THEN At(i + 1)
    ELSE IF buf[i] # CR THEN Failed
    ELSE IF i = Len(buf) THEN Partial
    ELSE IF buf[i + 1] = LF THEN At(i + 2) ELSE Failed

\* A control character other than HT ends the token; it must be the end of a line.
get_token_to_eol(buf, i) == EndOfLine(buf, First(buf, i, {CR, LF, CTL}))

ADVANCE_TOKEN(buf, i) ==
    LET j == First(buf, i, {SP, HT, CR, LF, CTL})
    IN  IF j > Len(buf) THEN Partial ELSE IF buf[j] = SP THEN At(j) ELSE Failed

\* "at least [HTTP/1.<two chars>]": the byte after the minor version has to be there.
parse_http_version(buf, i) ==
    IF Len(buf) - i + 1 < 9 THEN Partial
    ELSE IF SubSeq(buf, i, i + 6) = <<"H", "T", "T", "P", "/", "1", ".">> /\ buf[i + 7] \in Digits
    THEN At(i + 8) ELSE Failed

NotToken == {SP, HT, CR, LF, CTL, COLON, SEP, "/"}

\* The name of a header up to its colon; the blanks that follow are skipped.
HeaderName(buf, i) ==
    LET j == First(buf, i, NotToken)
        skipped == {k \in (j + 1)..Len(buf) : \E m \in (j + 1)..k : buf[m] \notin {SP, HT}}
    IN  IF j > Len(buf) THEN Partial
        ELSE IF buf[j] # COLON \/ j = i THEN Failed
        ELSE IF skipped = {} THEN Partial
        ELSE At(CHOOSE k \in skipped : \A m \in skipped : k <= m)

\* The lines up to an empty one.  A line that starts with a blank continues the value
\* of the line before it and counts as a header without a name.
RECURSIVE parse_headers(_, _, _)
parse_headers(buf, i, n) ==
    LET continued == n # 0 /\ buf[i] \in {SP, HT}
        name  == IF continued THEN At(i) ELSE HeaderName(buf, i)
        value == get_token_to_eol(buf, name.next)
    IN  IF i > Len(buf) THEN Partial
        ELSE IF buf[i] \in {CR, LF}
        THEN LET e == EndOfLine(buf, i)
             IN  IF e.ret = 0 THEN [ret |-> 0, next |-> e.next, headers |-> n] ELSE e
        ELSE IF n = MaxHeaders THEN Failed
        ELSE IF name.ret # 0 THEN name
        ELSE IF value.ret # 0 THEN value
        ELSE parse_headers(buf, value.next, n + 1)

\* An empty line before the request is skipped.
parse_request(buf) ==
    LET empty   == IF buf[1] \in {CR, LF} THEN EndOfLine(buf, 1) ELSE At(1)
        method  == ADVANCE_TOKEN(buf, empty.next)
        path    == ADVANCE_TOKEN(buf, method.next + 1)
        version == parse_http_version(buf, path.next + 1)
        line    == EndOfLine(buf, version.next)
        rest    == parse_headers(buf, line.next, 0)
    IN  IF buf = <<>> THEN Partial
        ELSE IF empty.ret # 0 THEN empty
        ELSE IF method.ret # 0 THEN method
        ELSE IF path.ret # 0 THEN path
        ELSE IF version.ret # 0 THEN version
        ELSE IF line.ret # 0 THEN line
        ELSE IF rest.ret # 0 THEN rest
        ELSE [ret |-> rest.next - 1, headers |-> rest.headers,
              method |-> SubSeq(buf, empty.next, method.next - 1),
              path |-> SubSeq(buf, method.next + 1, path.next - 1)]

\* [:digit:][:digit:][:digit:]<other char> after the version.
parse_response(buf) ==
    LET version == parse_http_version(buf, 1)
        s       == version.next + 1
        message == get_token_to_eol(buf, s + 4)
        rest    == parse_headers(buf, message.next, 0)
    IN  IF version.ret # 0 THEN version
        ELSE IF buf[version.next] # SP THEN Failed
        ELSE IF Len(buf) - s + 1 < 4 THEN Partial
        ELSE IF (\E k \in 0..2 : buf[s + k] \notin Digits) \/ buf[s + 3] # SP THEN Failed
        ELSE IF message.ret # 0 THEN message
        ELSE IF rest.ret # 0 THEN rest
        ELSE [ret |-> rest.next - 1, headers |-> rest.headers, status |-> SubSeq(buf, s, s + 2)]

\* How many line ends in a row is_complete has counted before the byte at i.
RECURSIVE CountLines(_, _, _)
CountLines(buf, i, n) ==
    IF n = 2 THEN At(i)
    ELSE IF i > Len(buf) THEN Partial
    ELSE IF buf[i] \notin {CR, LF} THEN CountLines(buf, i + 1, 0)
    ELSE LET e == EndOfLine(buf, i) IN IF e.ret # 0 THEN e ELSE CountLines(buf, e.next, n + 1)

\* Is the empty line there?  The search resumes three bytes before the old end.
is_complete(buf, last_len) == CountLines(buf, IF last_len < 3 THEN 1 ELSE last_len - 2, 0)

\* With last_len the head is only parsed when its last line has arrived.
phr_parse_response(buf, last_len) ==
    IF last_len # 0 /\ is_complete(buf, last_len).ret # 0 THEN is_complete(buf, last_len)
    ELSE parse_response(buf)

\* netcore's copy parses from last_len on and returns the length from there.
phr_parse_request(buf, last_len) ==
    IF last_len # 0 /\ is_complete(buf, last_len).ret # 0 THEN is_complete(buf, last_len)
    ELSE parse_request(SubSeq(buf, last_len + 1, Len(buf)))
=============================================================================
