--------------------------------- MODULE Uri ---------------------------------
(***************************************************************************)
(* The address of a request of the HTTP client: uri_t::parse_from takes it *)
(* apart, get_uri tries again with the text url_encode makes of it.        *)
(*                                                                         *)
(* A text is a sequence of characters; of the characters that no rule      *)
(* treats alone there is one of each class.  parse_from writes the fields  *)
(* as it goes and leaves those it has written when it gives up.            *)
(***************************************************************************)
EXTENDS Integers, SequencesExt

Letters == {"a", "h"}
Digits == {"1", "2"}

is_unreserved(c) == c \in Letters \cup Digits \cup {"-"}
is_sub_delim(c) == c \in {"=", "+"}
is_user_info_character(c) == is_unreserved(c) \/ is_sub_delim(c) \/ c \in {"%", ":"}
is_path_character(c) == is_unreserved(c) \/ is_sub_delim(c) \/ c \in {"%", "/", ":", "@"}
is_query_character(c) == is_path_character(c) \/ c = "?"
is_authority_character(c) == is_unreserved(c) \/ is_sub_delim(c) \/ c \in {"%", "@", ":", "[", "]"}
is_fragment_character(c) == is_query_character(c)
is_scheme_character(c) == c \in Letters \cup Digits \cup {"+", "-"}

NoUri == [schema |-> <<>>, uinfo |-> <<>>, host |-> <<>>, port |-> <<>>,
          path |-> <<>>, query |-> <<>>, fragment |-> <<>>]

\* *p; the text ends with a zero.
At(s, p) == IF p <= Len(s) THEN s[p] ELSE "nul"

\* Where a loop that runs up to one of the characters, or to the end, leaves p.
UpTo(s, p, stops) ==
    CHOOSE q \in p .. Len(s) + 1 :
        /\ At(s, q) \in stops \cup {"nul"}
        /\ \A r \in p .. q - 1 : s[r] \notin stops

View(s, p, q) == SubSeq(s, p, q - 1)

\* Each part of parse_from takes and gives [ok, u, p]; once it is FALSE, ok stays so.
Failed(x) == [x EXCEPT !.ok = FALSE]

\* One part, from p to one of stops: a character that is not legal ends the parse, and
\* only a part that was read to its end is stored.
Part(x, s, p, stops, Legal(_), field) ==
    LET q == UpTo(s, p, stops)
        v == View(s, p, q)
    IN  IF \E i \in DOMAIN v : ~Legal(v[i]) THEN Failed(x)
        ELSE [x EXCEPT !.u[field] = v, !.p = q]

ParseScheme(x, s) ==
    IF At(s, UpTo(s, 1, {"/", ":"})) # ":" THEN IF x.u.schema = <<>> THEN Failed(x) ELSE x
    ELSE IF s[1] \notin Letters THEN Failed(x)
    ELSE LET y == Part(x, s, 1, {":"}, is_scheme_character, "schema")
         IN  [y EXCEPT !.p = @ + 1]

\* The port looked for from the begin of the authority.
from_the_begin(a) == SelectInSeq(a, LAMBDA c : c \notin Digits)

\* The port is looked for from the end of the authority, the user from its begin.
FromTheEnd(a) == SelectLastInSeq(a, LAMBDA c : c \notin Digits)

ParseAuthority(x, s) ==
    IF ~(At(s, x.p) = "/" /\ At(s, x.p + 1) = "/") THEN x
    ELSE LET q == UpTo(s, x.p + 2, {"/", "?", "#"})
             a == View(s, x.p + 2, q)
             colon == FromTheEnd(a)
             named == IF colon # 0 /\ a[colon] = ":" THEN SubSeq(a, 1, colon - 1) ELSE a
             at == SelectInSeq(named, LAMBDA c : ~is_user_info_character(c))
             user == at # 0 /\ named[at] = "@"
         IN  IF \E i \in DOMAIN a : ~is_authority_character(a[i]) THEN Failed(x)
             ELSE IF a = <<>> THEN [x EXCEPT !.p = q]
             ELSE [x EXCEPT
                     !.p = q,
                     !.u.port = IF named = a THEN @ ELSE SubSeq(a, colon + 1, Len(a)),
                     !.u.uinfo = IF user THEN SubSeq(named, 1, at - 1) ELSE @,
                     !.u.host = IF user THEN SubSeq(named, at + 1, Len(named)) ELSE named]

ParsePath(x, s) ==
    IF ~is_path_character(At(s, x.p)) THEN x
    ELSE Part(x, s, x.p, {"?", "#"}, is_path_character, "path")

ParseQuery(x, s) ==
    IF At(s, x.p) # "?" THEN x
    ELSE Part(x, s, x.p + 1, {"#"}, is_query_character, "query")

ParseFragment(x, s) ==
    IF At(s, x.p) # "#" THEN x
    ELSE Part(x, s, x.p + 1, {}, is_fragment_character, "fragment")

ParsePart(part, x, s) ==
    CASE part = "scheme"    -> ParseScheme(x, s)
      [] part = "authority" -> ParseAuthority(x, s)
      [] part = "path"      -> ParsePath(x, s)
      [] part = "query"     -> ParseQuery(x, s)
      [] part = "fragment"  -> ParseFragment(x, s)

parse_from(u, s) ==
    FoldLeft(LAMBDA x, part : IF x.ok THEN ParsePart(part, x, s) ELSE x,
             [ok |-> TRUE, u |-> u, p |-> 1],
             <<"scheme", "authority", "path", "query", "fragment">>)

\* What a character becomes: itself, or a percent sign and two digits.
Escaped(c) == IF is_unreserved(c) THEN <<c>> ELSE <<"%", "2", "a">>

url_encode(s) == FlattenSeq([i \in DOMAIN s |-> Escaped(s[i])])

\* The fields that the second parse writes point into a string that get_uri destroys.
Freed == <<"freed">>

get_uri(s) ==
    LET first  == parse_from(NoUri, s)
        second == parse_from(first.u, url_encode(s))
    IN  IF first.ok THEN first
        ELSE IF first.u.schema = <<>> THEN [ok |-> FALSE, u |-> NoUri]
        ELSE [second EXCEPT !.u = IF second.ok THEN [@ EXCEPT !.path = Freed] ELSE NoUri]

\* context(uri, method): what the client connects to and asks for.
context(u) ==
    [host |-> u.host, port |-> IF u.port = <<>> THEN <<"8", "0">> ELSE u.port,
     path |-> IF u.path = <<>> THEN <<"/">> ELSE u.path, query |-> u.query]
=============================================================================
