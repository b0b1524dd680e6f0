-------------------------------- MODULE Codecs --------------------------------
(***************************************************************************)
(* The conversions of text: base64, percent encoding, the pairs of a query *)
(* or of a cookie, UTF-8 and decimal numbers.  A byte is a number.  A      *)
(* base64 digit is its number in the table; 64 is the padding.             *)
(***************************************************************************)
EXTENDS Integers, Sequences, SequencesExt

Pad == 64

-----------------------------------------------------------------------------
\* base64

\* Three bytes are four digits.
Quad(a, b, c) ==
    <<a \div 4, (a % 4) * 16 + b \div 16, (b % 16) * 4 + c \div 64, c % 64>>

\* utils.hpp: base64_encode; the URL variant leaves the padding out.
RECURSIVE base64_encode(_, _)
base64_encode(src, url_encoded) ==
    LET padding(n) == IF url_encoded THEN <<>> ELSE [i \in 1..n |-> Pad]
    IN  CASE Len(src) >= 3 ->
                Quad(src[1], src[2], src[3]) \o base64_encode(SubSeq(src, 4, Len(src)), url_encoded)
          [] Len(src) = 2 -> SubSeq(Quad(src[1], src[2], 0), 1, 3) \o padding(1)
          [] Len(src) = 1 -> SubSeq(Quad(src[1], 0, 0), 1, 2) \o padding(2)
          [] OTHER -> <<>>

\* class Base64: Encode.
RECURSIVE Encode(_)
Encode(str) ==
    CASE Len(str) > 2 -> Quad(str[1], str[2], str[3]) \o Encode(SubSeq(str, 4, Len(str)))
      [] Len(str) = 1 -> <<str[1] \div 4, (str[1] % 4) * 16, Pad, Pad>>
      [] Len(str) = 2 -> <<str[1] \div 4, (str[1] % 4) * 16 + str[2] \div 16, (str[2] % 16) * 4, Pad>>
      [] OTHER -> <<>>

\* class Base64: Decode.  d has the place in a group, the bits left over and the result;
\* a digit beyond the padding is a character that is not in the table.
Decode1(d, ch) ==
    IF ch >= Pad THEN d
    ELSE [i |-> d.i + 1,
          bin |-> CASE d.i % 4 = 0 -> ch * 4
                    [] d.i % 4 = 1 -> (ch % 16) * 16
                    [] d.i % 4 = 2 -> (ch % 4) * 64
                    [] d.i % 4 = 3 -> d.bin,
          out |-> CASE d.i % 4 = 0 -> d.out
                    [] d.i % 4 = 1 -> Append(d.out, d.bin + ch \div 16)
                    [] d.i % 4 = 2 -> Append(d.out, d.bin + ch \div 4)
                    [] d.i % 4 = 3 -> Append(d.out, d.bin + ch)]

Decode(str) == FoldLeft(Decode1, [i |-> 0, bin |-> 0, out |-> <<>>], str).out

-----------------------------------------------------------------------------
\* url_encode_decode.hpp, and quote of utils.hpp

Percent == 37
Plus == 43
Space == 32
Amp == 38
Equals == 61
Semi == 59

Alnum == (48..57) \cup (65..90) \cup (97..122)

HexChar(n) == IF n < 10 THEN 48 + n ELSE 55 + n

Escape(c) == <<Percent, HexChar(c \div 16), HexChar(c % 16)>>

url_encode(value) ==
    FlattenSeq([i \in DOMAIN value |->
        IF value[i] \in Alnum \cup {45, 46, 95, 126} THEN <<value[i]>> ELSE Escape(value[i])])

\* strtol of the two characters after a percent sign; the digits before the first that is
\* none count.
HexValue(c) == CASE c \in 48..57  -> c - 48
                 [] c \in 65..70  -> c - 55
                 [] c \in 97..102 -> c - 87
                 [] OTHER -> -1

strtol16(a, b) ==
    LET B == IF HexValue(b) < 0 THEN 0 ELSE HexValue(b)
    IN  CASE HexValue(a) >= 0 -> IF HexValue(b) < 0 THEN HexValue(a) ELSE HexValue(a) * 16 + B
          [] a \in {Space, Plus} -> B
          [] a = 45 -> (256 - B) % 256
          [] OTHER -> 0

IsEscape(value, i) == value[i] = Percent /\ i + 2 <= Len(value)

RECURSIVE DecodeFrom(_, _)
DecodeFrom(value, i) ==
    IF i > Len(value) THEN <<>>
    ELSE IF IsEscape(value, i)
    THEN <<strtol16(value[i + 1], value[i + 2])>> \o DecodeFrom(value, i + 3)
    ELSE <<IF value[i] = Plus THEN Space ELSE value[i]>> \o DecodeFrom(value, i + 1)

url_decode(value) == DecodeFrom(value, 1)

\* form_urldecode leaves a plus sign alone and takes what is left of a cut escape.
RECURSIVE FormDecodeFrom(_, _)
FormDecodeFrom(src, i) ==
    IF i > Len(src) THEN <<>>
    ELSE IF src[i] = Percent
    THEN <<IF i + 2 <= Len(src) THEN strtol16(src[i + 1], src[i + 2])
           ELSE IF i + 1 <= Len(src) THEN strtol16(src[i + 1], Space) ELSE 0>> \o FormDecodeFrom(src, i + 3)
    ELSE <<src[i]>> \o FormDecodeFrom(src, i + 1)

form_urldecode(src) == FormDecodeFrom(src, 1)

is_url_encode(str) == Contains(str, Percent) \/ Contains(str, Plus)

\* The characters 45, 46 and 95 are "-", "." and "_"; 47 is "/".
quote_impl(str, safe) ==
    FlattenSeq([i \in DOMAIN str |->
        IF str[i] \in Alnum \cup {45, 46, 95} \cup safe THEN <<str[i]>> ELSE Escape(str[i])])

quote(str) == quote_impl(str, {47})

quote_plus(str) ==
    IF ~Contains(str, Space) THEN quote(str)
    ELSE LET q == quote_impl(str, {Space})
         IN  [i \in DOMAIN q |-> IF q[i] = Space THEN Plus ELSE q[i]]

-----------------------------------------------------------------------------
\* The pairs of a query, of a form and of a cookie

\* The text between the places from and to, both excluded.
Between(str, from, to) == SubSeq(str, from + 1, to - 1)

trim(v) ==
    LET kept == {i \in DOMAIN v : v[i] # Space}
    IN  IF kept = {} THEN <<>>
        ELSE SubSeq(v, CHOOSE i \in kept : \A j \in kept : i <= j, CHOOSE i \in kept : \A j \in kept : i >= j)

\* map::emplace keeps the value a key has.
Emplace(map, key, val) ==
    [k \in DOMAIN map \cup {key} |-> IF k \in DOMAIN map THEN map[k] ELSE val]

\* One character of parse_query: pos is the place before the text not yet taken, and key
\* is kept until the next equals sign.
Query1(str, q, i) ==
    CASE str[i] = Equals -> [q EXCEPT !.key = trim(Between(str, q.pos, i)), !.pos = i]
      [] str[i] = Amp -> [q EXCEPT !.map = Emplace(@, q.key, trim(Between(str, q.pos, i))), !.pos = i]
      [] OTHER -> q

parse_query(str) ==
    LET n == Len(str)
        q == FoldLeft(LAMBDA a, i : Query1(str, a, i),
                      [pos |-> 0, key |-> <<>>, map |-> <<>>], [i \in 1..n |-> i])
    IN  IF q.pos = 0 THEN <<>> ELSE Emplace(q.map, q.key, trim(Between(str, q.pos, n + 1)))

\* get_query_value decodes what looks encoded.
get_query_value(queries, key) ==
    IF key \notin DOMAIN queries THEN <<>>
    ELSE IF is_url_encode(queries[key]) THEN url_decode(queries[key]) ELSE queries[key]

\* split at each character of delimiter: the places of the characters, then the texts.
split(s, delimiter) ==
    LET cuts == SetToSortSeq({i \in DOMAIN s : s[i] \in delimiter}, <)
        ends == <<0>> \o cuts \o <<Len(s) + 1>>
    IN  [k \in 1..Len(ends) - 1 |-> Between(s, ends[k], ends[k + 1])]

\* A later cookie of the same name replaces the value.
get_cookies_map(str) ==
    FoldLeft(LAMBDA map, item :
                LET kv == split(item, {Equals})
                IN  IF Len(kv) # 2 THEN map
                    ELSE [k \in DOMAIN map \cup {kv[1]} |-> IF k = kv[1] THEN kv[2] ELSE map[k]],
             <<>>, split(str, {Semi, Space}))

-----------------------------------------------------------------------------
\* is_valid_utf8

\* The bits of a byte are told by its range: 10xxxxxx is 128..191.  The code passes over
\* four plain characters at a time.
Cont(s, i) == s[i] \in 128..191

RECURSIVE ValidFrom(_, _)
ValidFrom(s, i) ==
    LET e == Len(s) + 1
    IN  IF i = e THEN TRUE
        ELSE IF s[i] < 128 THEN ValidFrom(s, i + 1)
        ELSE IF s[i] \in 192..223
        THEN /\ i + 1 < e /\ Cont(s, i + 1) /\ s[i] \notin {192, 193}
             /\ ValidFrom(s, i + 2)
        ELSE IF s[i] \in 224..239
        THEN /\ i + 2 < e /\ Cont(s, i + 1) /\ Cont(s, i + 2)
             /\ ~(s[i] = 224 /\ s[i + 1] \in 128..159) /\ ~(s[i] = 237 /\ s[i + 1] \in 160..191)
             /\ ValidFrom(s, i + 3)
        ELSE IF s[i] \in 240..247
        THEN /\ i + 3 < e /\ Cont(s, i + 1) /\ Cont(s, i + 2) /\ Cont(s, i + 3)
             /\ ~(s[i] = 240 /\ s[i + 1] \in 128..143) /\ ~(s[i] = 244 /\ s[i + 1] > 143) /\ s[i] <= 244
             /\ ValidFrom(s, i + 4)
        ELSE FALSE

is_valid_utf8(s) == ValidFrom(s, 1)

-----------------------------------------------------------------------------
\* itoa.hpp: a digit is its value, the sign is -1

Minus == -1

\* The quotient and the remainder of the division by 10^n, which the code finds by a
\* multiplication with the inverse.
divide(n, u) == [q |-> u \div 10^n, r |-> u % 10^n]

dd(u) == <<u \div 10, u % 10>>

\* All 2n digits of u, zeros included.
RECURSIVE tail(_, _)
tail(n, u) ==
    IF n = 1 THEN dd(u)
    ELSE LET x == divide(n, u) IN tail(n \div 2, x.q) \o tail(n \div 2, x.r)

\* The digits of u, less than 10^(2n), without leading zeros.
RECURSIVE head(_, _)
head(n, u) ==
    IF n = 1 THEN IF u < 10 THEN <<u>> ELSE dd(u)
    ELSE IF u < 10^n THEN head(n \div 2, u)
    ELSE LET x == divide(n, u) IN head(n \div 2, x.q) \o tail(n \div 2, x.r)

\* An n-byte number of at least 10^(2n).
large(n, x) ==
    LET y == divide(n, x.q)
    IN  head(n \div 2, y.q) \o tail(n \div 2, y.r) \o tail(n \div 2, x.r)

unsigned_itoa(n, u) ==
    LET x == divide(n, u)
    IN  IF u < 10^n THEN head(n \div 2, u)
        ELSE IF u < 10^(2 * n) THEN head(n \div 2, x.q) \o tail(n \div 2, x.r)
        ELSE large(n, x)

\* i is a number of n bytes; the sign is written first, and overwritten when there is none.
itoa_fwd(n, i) == IF i < 0 THEN <<Minus>> \o unsigned_itoa(n, -i) ELSE unsigned_itoa(n, i)

\* The remainders, from the last digit to the first, and then turned round.
RECURSIVE Remainders(_, _)
Remainders(uval, radix) ==
    <<uval % radix>> \o IF uval \div radix = 0 THEN <<>> ELSE Remainders(uval \div radix, radix)

xtoa(sval, radix, signedp) ==
    IF signedp /\ radix = 10 /\ sval < 0 THEN <<Minus>> \o Reverse(Remainders(-sval, radix))
    ELSE Reverse(Remainders(sval, radix))

\* to_str of an integer: 64 bits go the other way.
to_str(bytes, value) == IF bytes = 8 THEN xtoa(value, 10, TRUE) ELSE itoa_fwd(bytes, value)
=============================================================================
