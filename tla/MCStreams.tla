------------------------------ MODULE MCStreams ------------------------------
(* Streams of every kind, small enough to be cut everywhere. *)
EXTENDS Streams

Version == <<"H", "T", "T", "P", "/", "1", ".", "1">>

Request  == <<"G", "SP", "/", "SP">> \o Version
Response == Version \o <<"SP", "2", "0", "4", "SP", "k">>

\* Header lines: none, one, one that is continued, and an empty value; line ends of both kinds.
Lines == {<<"CR", "LF", "CR", "LF">>, <<"LF", "LF">>,
          <<"LF", "a", "COLON", "b", "LF", "HT", "b", "CR", "LF", "LF">>,
          <<"CR", "LF", "a", "COLON", "CR", "LF", "c", "COLON", "b", "LF", "CR", "LF">>}

Good == {[resp |-> FALSE, bytes |-> e \o Request \o l \o r, good |-> Len(e \o Request \o l)] :
            e \in {<<>>, <<"CR", "LF">>}, l \in Lines, r \in {<<"x", "CR">>}}
        \cup {[resp |-> TRUE, bytes |-> Response \o l \o r, good |-> Len(Response \o l)] :
            l \in Lines, r \in {<<"LF", "x">>}}

\* One byte is another one, or is missing.
Edited == UNION {{[h EXCEPT !.bytes = [@ EXCEPT ![i] = c], !.good = 0] :
                    i \in DOMAIN h.bytes, c \in {"CR", "LF", "SP", "CTL"}} : h \in Good}
          \cup UNION {{[h EXCEPT !.bytes = RemoveAt(@, i), !.good = 0] : i \in DOMAIN h.bytes} : h \in Good}

TooMany == [resp |-> FALSE, good |-> 0,
            bytes |-> Request \o <<"LF", "a", "COLON", "b", "LF", "a", "COLON", "b", "LF", "a", "COLON", "b", "LF", "LF">>]

MCHeads == Good \cup Edited \cup {TooMany}

SomeChunks == {<<>>, <<<<"a">>>>, <<<<"CR", "LF">>>>, <<<<"a", "b">>, <<"0">>>>, <<<<"LF">>, <<"1", "CR">>>>}

MCChunked == [chunks : SomeChunks, ext : {<<>>, <<";", "e">>}, trailer : BOOLEAN, rest : {<<>>, <<"1", "LF">>}]

SomeData == SeqOf({"CR", "LF", "-", "x"}, 3) \cup
            {<<"CR", "LF", "-", "-", "x">>, <<"CR", "CR", "LF", "-", "-", "-", "B">>, <<"x", "x", "x", "x", "x", "x">>}

Part(v, t, d) == [value |-> v, type |-> t, data |-> d]

MCForms ==
    {[parts |-> <<Part(<<"a">>, FALSE, d)>>, opens |-> <<TRUE>>] : d \in SomeData}
    \cup {[parts |-> <<Part(<<"a", "F", "n">>, t, d)>>, opens |-> <<TRUE>>] : t \in BOOLEAN, d \in SomeData}
    \cup {[parts |-> <<Part(<<"a", "F", "n">>, TRUE, d), Part(<<"b">>, FALSE, e), Part(<<"c", "F", "m">>, TRUE, d)>>,
           opens |-> <<TRUE, o>>] : d, e \in {<<>>, <<"x", "CR">>, <<"-", "LF">>}, o \in BOOLEAN}
    \cup {[parts |-> <<Part(<<"a">>, FALSE, <<"x">>), Part(<<"b", "F">>, TRUE, <<"x">>)>>, opens |-> <<TRUE>>],
          [parts |-> <<Part(<<"a", "F", "n">>, TRUE, <<"x">>)>>, opens |-> <<FALSE>>]}

Text(n) == [i \in 1..n |-> (i * 37) % 256]

Frame(op, n) == [op |-> op, text |-> Text(n), mask |-> <<7, 0, 129, 64>>]

CloseFrame == [op |-> 8, text |-> <<3, 232>>, mask |-> <<7, 0, 129, 64>>]

MCDialogues == {<<f, g>> : f \in {Frame(1, 0), Frame(2, 5), Frame(9, 3), Frame(9, 126)},
                           g \in {Frame(1, 1), Frame(1, 125), Frame(1, 126), CloseFrame}}
               \cup {<<Frame(2, 300)>>}

MCMessages == {[i \in 1..n |-> (i * 29) % 256] : n \in {3, 60, 64, 121}}

\* The characters the conversions treat alone, and bytes of other kinds.
MCTextBytes == {0, 32, 37, 38, 43, 47, 61, 65, 126, 200, 255}

\* Bytes at which a rule of UTF-8 changes.
MCUtf8Bytes == {65, 128, 143, 144, 159, 160, 191, 193, 194, 224, 237, 240, 244, 245}

MCUriStarts == {<<>>, <<"a", ":">>, <<"a", ":", "/", "/">>, <<"a", ":", "/", "/", "h", "@">>,
                <<"a", ":", "/", "/", "h", ":", "1">>}

\* The delimiters, a letter, a digit, and characters that are legal in one part or in none.
MCUriChars == {"a", "1", ":", "/", "?", "#", "@", "[", " "}
=============================================================================
