------------------------------ MODULE Multipart ------------------------------
(***************************************************************************)
(* A multipart body: multipart_parser finds the parts, multipart_reader    *)
(* puts their headers together, and the callbacks of the connection store  *)
(* the parts in the request, as uploaded files or as values of a form.     *)
(* A byte is a string.  Of a header only this is kept: its name is "D" for *)
(* Content-Disposition or "T" for Content-Type, and the value of "D" is    *)
(* the name of the field, followed by "F" and the file name if it has one. *)
(***************************************************************************)
EXTENDS Integers, Sequences, SequencesExt

CONSTANT Boundary   \* boundary, with the leading CR LF - -

UNMARKED == 0
Size     == Len(Boundary)
Letters  == {"D", "T"}

-----------------------------------------------------------------------------
\* class upload_file, and what class request keeps of a multipart body

\* opens says which of the calls of open() succeed.
NewRequest(opens) ==
    [headers |-> <<>>, form |-> <<>>, last_key |-> <<>>, files |-> <<>>, opens |-> opens,
     is_file |-> FALSE, error |-> FALSE, aborted |-> FALSE, ended |-> FALSE]

\* The headers of a part replace those of the same name of the parts before it.
set_multipart_headers(q, hs) ==
    LET names == DOMAIN q.headers \cup {hs[k][1] : k \in 1..Len(hs)}
    IN  [q EXCEPT !.headers =
            [n \in names |-> IF \E k \in 1..Len(hs) : hs[k][1] = n
                             THEN hs[SelectLastInSeq(hs, LAMBDA h : h[1] = n)][2]
                             ELSE q.headers[n]]]

\* It looks in the first header of the map; the field's value runs to the last quote.
get_multipart_field_name(q, field) ==
    LET val == q.headers[<<"D">>]
    IN  IF <<"D">> \notin DOMAIN q.headers THEN <<>>
        ELSE IF field = "name" THEN val
        ELSE IF Contains(val, "F") THEN SubSeq(val, SelectInSeq(val, LAMBDA c : c = "F") + 1, Len(val))
        ELSE <<>>

is_multipart_file(q) ==
    IF <<"D">> \in DOMAIN q.headers THEN Contains(q.headers[<<"D">>], "F")
                                    ELSE <<"T">> \in DOMAIN q.headers

\* Names are kept while the file is written under a name that ends in "_ing".
open_upload_file(q, name) ==
    IF Head(q.opens)
    THEN [q EXCEPT !.opens = Tail(@),
                   !.files = Append(@, [name |-> name, ing |-> TRUE, open |-> TRUE, data |-> <<>>, size |-> 0])]
    ELSE [q EXCEPT !.opens = Tail(@)]

\* It writes to the last file there is; a closed one counts the bytes and drops them.
write_upload_data(q, bytes) ==
    IF q.files = <<>> THEN [q EXCEPT !.aborted = TRUE]
    ELSE LET f == Last(q.files)
         IN  [q EXCEPT !.files[Len(q.files)] =
                 [f EXCEPT !.size = @ + Len(bytes), !.data = IF f.open THEN @ \o bytes ELSE @]]

\* A field that occurs again keeps its value, and update_multipart_value adds to it.
save_multipart_key_value(q, key) ==
    IF key = <<>> \/ key \in DOMAIN q.form THEN q
    ELSE [q EXCEPT !.form = [k \in DOMAIN @ \cup {key} |-> IF k = key THEN <<>> ELSE @[k]]]

update_multipart_value(q, name, bytes) ==
    LET key == IF name = <<>> THEN q.last_key ELSE name
        p   == [q EXCEPT !.last_key = key]
    IN  IF key \in DOMAIN q.form THEN [p EXCEPT !.form[key] = @ \o bytes] ELSE p

-----------------------------------------------------------------------------
\* connection::init_multipart_parser

on_part_begin(q, hs) ==
    LET p    == set_multipart_headers(q, hs)
        file == get_multipart_field_name(p, "filename")
        r    == [p EXCEPT !.is_file = is_multipart_file(p)]
    IN  IF r.is_file /\ file = <<>> THEN [r EXCEPT !.error = TRUE]
        ELSE IF r.is_file THEN open_upload_file(r, file)
        ELSE save_multipart_key_value(r, get_multipart_field_name(r, "name"))

on_part_data(q, bytes) ==
    IF q.error \/ q.aborted THEN q
    ELSE IF q.is_file THEN write_upload_data(q, bytes)
    ELSE update_multipart_value(q, get_multipart_field_name(q, "name"), bytes)

\* The last file is closed and loses its "_ing".
on_part_end(q) ==
    IF q.error \/ ~q.is_file \/ q.files = <<>> THEN q
    ELSE [q EXCEPT !.files[Len(q.files)] = [@ EXCEPT !.open = FALSE, !.ing = FALSE]]

\* The values become those of the form.
on_end(q) == IF q.error THEN q ELSE [q EXCEPT !.ended = TRUE]

-----------------------------------------------------------------------------
\* class multipart_reader and class multipart_parser

set_boundary(opens) ==
    [state |-> "START", part |-> FALSE, last |-> FALSE, index |-> 0, look |-> <<>>,
     field |-> UNMARKED, value |-> UNMARKED, data |-> UNMARKED,
     name |-> <<>>, text |-> <<>>, headers |-> <<>>, req |-> NewRequest(opens)]

setError(m) == [m EXCEPT !.state = "PARSE_ERROR"]

\* The bytes from a mark up to place i.
Span(buf, mark, i) == IF mark = UNMARKED THEN <<>> ELSE SubSeq(buf, mark, i - 1)

\* cbPartData is not called for no bytes.
PartData(m, bytes) == IF bytes = <<>> THEN m ELSE [m EXCEPT !.req = on_part_data(@, bytes)]

cbHeaderEnd(m, value) ==
    [m EXCEPT !.headers = Append(@, <<m.name, value>>), !.name = <<>>, !.text = <<>>]

cbHeadersEnd(m) == [m EXCEPT !.req = on_part_begin(@, m.headers), !.headers = <<>>]

\* Mutant: the bytes of a false boundary are dropped.
drop_lookbehind(m, n) == m

\* "if our boundary turned out to be rubbish, the captured lookbehind belongs to
\* partData"
false_lead(m, n) == PartData(m, SubSeq(m.look, 1, n))

\* Boyer-Moore: whole strides without a byte of the boundary at their end are skipped.
RECURSIVE Skip(_, _)
Skip(buf, i) ==
    IF i + Size - 1 <= Len(buf) /\ ~Contains(Boundary, buf[i + Size - 1]) THEN Skip(buf, i + Size) ELSE i

\* The next byte of a boundary, of what follows it, or of the data; the result has the
\* place of the last byte dealt with.
Found(m, c, i, index) ==
    [m |-> [m EXCEPT !.index = index,
                     !.look = SubSeq(@, 1, index - 1) \o <<c>>], i |-> i]

Lost(m, i) ==
    IF m.index = 0 THEN [m |-> m, i |-> i]
    ELSE [m |-> [false_lead(m, m.index) EXCEPT !.index = 0, !.data = i], i |-> i - 1]

processPartData(m, buf, at) ==
    LET i == IF m.index = 0 THEN Skip(buf, at) ELSE at
        c == buf[i]
        n == m.index
    IN  IF i > Len(buf) THEN [m |-> m, i |-> i]
        ELSE CASE n < Size ->
                    IF Boundary[n + 1] # c THEN Lost(m, i)
                    ELSE Found(IF n = 0 THEN [PartData(m, Span(buf, m.data, i)) EXCEPT !.data = UNMARKED]
                                        ELSE m, c, i, n + 1)
               [] n = Size ->
                    IF c = "CR" THEN Found([m EXCEPT !.part = TRUE], c, i, n + 1)
                    ELSE IF c = "-" THEN Found([m EXCEPT !.last = TRUE], c, i, n + 1)
                    ELSE Lost(m, i)
               [] n = Size + 1 ->
                    IF m.part
                    THEN IF c # "LF" THEN Lost(m, i)
                         ELSE [m |-> [m EXCEPT !.index = 0, !.part = FALSE, !.req = on_part_end(@),
                                               !.state = "HEADER_FIELD_START"], i |-> i]
                    ELSE IF m.last /\ c = "-"
                    THEN Found([m EXCEPT !.req = on_end(on_part_end(@)), !.state = "END"], c, i, n)
                    ELSE Lost(m, i)

\* One byte of feed().
Feed1(m, buf, i) ==
    LET c    == buf[i]
        Go(p) == [m |-> p, i |-> i]
        s    == CASE m.state = "START" -> [m EXCEPT !.index = 0, !.state = "START_BOUNDARY"]
                  [] m.state = "HEADER_FIELD_START" ->
                        [m EXCEPT !.index = 0, !.field = i, !.state = "HEADER_FIELD"]
                  [] m.state = "HEADER_VALUE_START" ->
                        IF c = "SP" THEN m ELSE [m EXCEPT !.value = i, !.state = "HEADER_VALUE"]
                  [] m.state = "PART_DATA_START" -> [m EXCEPT !.data = i, !.state = "PART_DATA"]
                  [] OTHER -> m
    IN  CASE s.state = "START_BOUNDARY" ->
                IF s.index < Size - 2
                THEN Go(IF c = Boundary[s.index + 3] THEN [s EXCEPT !.index = @ + 1] ELSE setError(s))
                ELSE IF s.index = Size - 2
                THEN Go(IF c = "CR" THEN [s EXCEPT !.index = @ + 1] ELSE setError(s))
                ELSE Go(IF c = "LF" THEN [s EXCEPT !.index = 0, !.state = "HEADER_FIELD_START"]
                                    ELSE setError(s))
          [] s.state = "HEADER_FIELD" ->
                IF c = "CR" THEN Go([s EXCEPT !.field = UNMARKED, !.state = "HEADERS_ALMOST_DONE"])
                ELSE IF c = ":"
                THEN Go(IF s.index = 0 THEN setError(s)
                        ELSE [s EXCEPT !.index = @ + 1, !.name = @ \o Span(buf, s.field, i),
                                       !.field = UNMARKED, !.state = "HEADER_VALUE_START"])
                ELSE Go(IF c \in Letters \cup {"-"} THEN [s EXCEPT !.index = @ + 1] ELSE setError(s))
          [] s.state = "HEADER_VALUE" ->
                Go(IF c # "CR" THEN s
                   ELSE [cbHeaderEnd(s, s.text \o Span(buf, s.value, i)) EXCEPT
                            !.value = UNMARKED, !.state = "HEADER_VALUE_ALMOST_DONE"])
          [] s.state = "HEADER_VALUE_ALMOST_DONE" ->
                Go(IF c = "LF" THEN [s EXCEPT !.state = "HEADER_FIELD_START"] ELSE setError(s))
          [] s.state = "HEADERS_ALMOST_DONE" ->
                Go(IF c = "LF" THEN [cbHeadersEnd(s) EXCEPT !.state = "PART_DATA_START"] ELSE setError(s))
          [] s.state = "PART_DATA" -> processPartData(s, buf, i)
          [] OTHER -> Go(s)

\* What is unfinished when the buffer ends is handed on, and goes on with the next one.
EndOfBuffer(m, buf) ==
    LET end == Len(buf) + 1
        Mark(k) == IF k = UNMARKED THEN UNMARKED ELSE 1
        p == PartData(m, Span(buf, m.data, end))
    IN  [p EXCEPT !.name = @ \o Span(buf, m.field, end), !.text = @ \o Span(buf, m.value, end),
                  !.field = Mark(@), !.value = Mark(@), !.data = Mark(@)]

RECURSIVE FeedFrom(_, _, _)
FeedFrom(m, buf, i) ==
    IF m.state = "PARSE_ERROR" THEN m
    ELSE IF i > Len(buf) THEN EndOfBuffer(m, buf)
    ELSE LET r == Feed1(m, buf, i) IN FeedFrom(r.m, buf, r.i + 1)

\* parse_multipart: feed, and an error of the parser is one of the request.
parse_multipart(m, buf) ==
    LET p == IF buf = <<>> THEN m ELSE FeedFrom(m, buf, 1)
    IN  IF p.state = "PARSE_ERROR" THEN [p EXCEPT !.req.error = TRUE] ELSE p
=============================================================================
