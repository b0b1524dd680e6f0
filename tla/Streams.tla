------------------------------- MODULE Streams -------------------------------
(***************************************************************************)
(* What arrives from a socket arrives in pieces, cut anywhere.  A stream   *)
(* is fed to the code that reads its kind, piece by piece: the head of a   *)
(* message, a chunked body, a multipart body, WebSocket frames, the bytes  *)
(* of a digest, text and numbers that are converted back and forth, and    *)
(* the address of a request.                                               *)
(***************************************************************************)
EXTENDS Integers, Sequences, SequencesExt

CONSTANTS
    Heads,       \* heads: [resp, bytes, good]; good heads have the length "good"
    Chunked,     \* bodies: [chunks, ext, trailer, rest]
    Forms,       \* multipart bodies: [parts, opens]
    Dialogues,   \* frames the peer sends, each after the answer to the last: <<[op, text, mask]>>
    Messages,    \* the messages to digest
    TextBytes,   \* the bytes of a text that is converted
    Utf8Bytes,   \* the bytes of a text that is tested for UTF-8
    UriStarts,   \* how an address begins
    UriChars,    \* the characters of the rest of it
    Pieces,      \* the lengths of a piece
    MaxText,     \* the length of a text that is converted
    MaxUtf8,     \* the length of a text that is tested
    MaxUri,      \* the length of the rest of an address
    MaxDigits    \* the digits of a number

VARIABLES
    kind,    \* what reads the stream
    input,   \* what is sent
    bytes,   \* the stream that says it
    fed,     \* the bytes fed so far
    st       \* the state of what reads it

vars == <<kind, input, bytes, fed, st>>

H == INSTANCE HeadParser WITH MaxHeaders <- 2
C == INSTANCE ChunkedDecoder WITH HexDigits <- 2
M == INSTANCE Multipart WITH Boundary <- <<"CR", "LF", "-", "-", "B">>
W == INSTANCE WsFrames
S == INSTANCE Sha1
T == INSTANCE Codecs
U == INSTANCE Uri

-----------------------------------------------------------------------------
\* What the peer sends

HexOf(n) == <<"0", "1", "2">>[n + 1]

ChunkedBytes(b) ==
    FlattenSeq([i \in DOMAIN b.chunks |-> <<HexOf(Len(b.chunks[i]))>> \o b.ext \o <<"CR", "LF">>
                                          \o b.chunks[i] \o <<"CR", "LF">>])
    \o <<"0", "CR", "LF">> \o (IF b.trailer THEN <<"t", "CR", "LF", "CR", "LF">> ELSE <<>>) \o b.rest

FormBytes(f) ==
    <<"-", "-", "B">> \o
    FlattenSeq([i \in DOMAIN f.parts |->
        <<"CR", "LF", "D", ":", "SP">> \o f.parts[i].value \o <<"CR", "LF">> \o
        (IF f.parts[i].type THEN <<"T", ":", "t", "CR", "LF">> ELSE <<>>) \o
        <<"CR", "LF">> \o f.parts[i].data \o <<"CR", "LF", "-", "-", "B">>])
    \o <<"-", "-">>

FrameBytes(f) ==
    LET n == Len(f.text)
    IN  <<128 + f.op>> \o (IF n < 126 THEN <<128 + n>> ELSE <<254, n \div 256, n % 256>>) \o f.mask
        \o [i \in 1..n |-> W!^^(f.text[i], f.mask[((i - 1) % 4) + 1])]

Bytes(k, in) ==
    CASE k = "head"     -> in.bytes
      [] k = "chunked"  -> ChunkedBytes(in)
      [] k = "form"     -> FormBytes(in)
      [] k = "frames"   -> FlattenSeq([i \in DOMAIN in |-> FrameBytes(in[i])])
      [] OTHER          -> in

\* The places at which a frame ends.
FrameEnds(in) ==
    LET Length(f) == Len(f.text) + IF Len(f.text) < 126 THEN 6 ELSE 8
    IN  {FoldLeft(LAMBDA a, f : a + Length(f), 0, SubSeq(in, 1, i)) : i \in DOMAIN in}

Piece(n) == SubSeq(bytes, fed + 1, fed + n)

Feeds(k, n) ==
    /\ kind = k
    /\ fed + n <= Len(bytes)
    /\ fed' = fed + n
    /\ UNCHANGED <<kind, input, bytes>>

-----------------------------------------------------------------------------
Init ==
    /\ fed = 0
    /\ \/ kind = "head" /\ input \in Heads /\ st = -2
       \/ kind = "chunked" /\ input \in Chunked
          /\ st = [d |-> C!NewDecoder(input.trailer), data |-> <<>>, ret |-> -2]
       \/ kind = "form" /\ input \in Forms /\ st = M!set_boundary(input.opens)
       \/ kind = "frames" /\ input \in Dialogues /\ st = W!NewSocket
       \/ kind = "digest" /\ input \in Messages /\ st = S!init
       \/ kind \in {"text", "utf8", "number"} /\ input = <<>> /\ st = 0
       \/ kind = "uri" /\ input \in UriStarts /\ st = 0
    /\ bytes = Bytes(kind, input)

\* A read of the head: the whole buffer is parsed again; the client's parser is told how
\* much of it was there before.
FeedHead(n) ==
    /\ Feeds("head", n) /\ st = -2
    /\ LET buf == SubSeq(bytes, 1, fed + n)
       IN  st' = IF input.resp THEN H!phr_parse_response(buf, fed).ret
                               ELSE H!phr_parse_request(buf, 0).ret

FeedChunked(n) ==
    /\ Feeds("chunked", n) /\ st.ret = -2
    /\ LET r == C!phr_decode_chunked(st.d, Piece(n))
       IN  st' = [r EXCEPT !.data = st.data \o @]

FeedForm(n) == Feeds("form", n) /\ ~st.req.error /\ st' = M!parse_multipart(st, Piece(n))

\* The peer waits for what a frame does before it sends the next one.
FeedFrames(n) ==
    /\ Feeds("frames", n) /\ ~st.closed
    /\ \A e \in FrameEnds(input) : fed < e => fed + n <= e
    /\ st' = W!handle_ws_data(st, Piece(n))

\* upgrade_to_websocket: the key that accepts the upgrade, from the digest of the key of the
\* request and the GUID.
accept_key(digest) ==
    T!base64_encode(FlattenSeq([k \in 1..5 |->
        <<digest[k][1] \div 256, digest[k][1] % 256, digest[k][2] \div 256, digest[k][2] % 256>>]), FALSE)

FeedDigest(n) == Feeds("digest", n) /\ st' = S!update(st, Piece(n))

TypeText(c) ==
    /\ \/ kind = "text" /\ c \in TextBytes /\ Len(input) < MaxText
       \/ kind = "utf8" /\ c \in Utf8Bytes /\ Len(input) < MaxUtf8
    /\ input' = Append(input, c) /\ UNCHANGED <<kind, bytes, fed, st>>

\* st: the characters typed
TypeUri(c) ==
    /\ kind = "uri" /\ st < MaxUri
    /\ input' = Append(input, c) /\ st' = st + 1 /\ UNCHANGED <<kind, bytes, fed>>

TypeDigit(d) ==
    /\ kind = "number" /\ Len(input) < MaxDigits /\ (input = <<>> => d # 0)
    /\ input' = Append(input, d) /\ st' = st * 10 + d /\ UNCHANGED <<kind, bytes, fed>>

\* All that can still be sent.
Rest ==
    IF kind # "frames" THEN Len(bytes) - fed
    ELSE LET ends == {e \in FrameEnds(input) : e > fed}
         IN  IF ends = {} THEN 0 ELSE (CHOOSE e \in ends : \A d \in ends : e <= d) - fed

Next ==
    \/ kind \notin {"text", "utf8", "number", "uri"} /\
       \E n \in {m \in Pieces \cup {Rest} : m > 0} :
          \/ FeedHead(n)
          \/ FeedChunked(n)
          \/ FeedForm(n)
          \/ FeedFrames(n)
          \/ FeedDigest(n)
    \/ \E c \in TextBytes \cup Utf8Bytes : TypeText(c)
    \/ \E d \in {0, 1, 9} : TypeDigit(d)
    \/ \E c \in UriChars : TypeUri(c)

Spec == Init /\ [][Next]_vars

-----------------------------------------------------------------------------
\* Properties

\* A head is complete exactly when its last line has arrived, wherever the reads cut it: a
\* well-formed head is never refused, never accepted before its end, and its length does
\* not depend on what follows it.  Any other head gets the answer it would get in one read,
\* though the client's parser looks for faults only once the last line is there.
HeadDecided ==
    kind = "head" =>
        LET whole == IF input.resp THEN H!parse_response(bytes).ret ELSE H!parse_request(bytes).ret
        IN  /\ input.good > 0 => st = IF fed >= input.good THEN input.good ELSE -2
            /\ st # -2 => st = whole
            /\ fed = Len(bytes) /\ (input.resp => whole > 0) => st = whole

\* The data of a chunked body is the chunks that were sent, however the reads cut sizes,
\* extensions, data and trailers; the bytes after the body are left over, all of them.
ChunksExact ==
    kind = "chunked" =>
        LET data == FlattenSeq(input.chunks)
            end  == Len(bytes) - Len(input.rest)
        IN  /\ IsPrefix(st.data, data)
            /\ st.ret # -1
            /\ fed < end => st.ret = -2
            /\ fed >= end => st.data = data /\ st.ret = fed - end

\* The parts of a form arrive whole: the files that could be opened hold the bytes sent for
\* them and no others, the fields have their values, and a read that cuts a boundary, a
\* header or what only looks like a boundary changes nothing.  Bytes of a file that could
\* not be opened go nowhere; when it is the first one, they stop the program.
FormExact ==
    kind = "form" =>
        LET one    == M!parse_multipart(M!set_boundary(input.opens), SubSeq(bytes, 1, fed))
            IsFile(p) == Contains(p.value, "F")
            files  == SelectSeq(input.parts, IsFile)
            opened == {i \in DOMAIN files : input.opens[i]}
            fields == SelectSeq(input.parts, LAMBDA p : ~IsFile(p))
        IN  /\ <<st.req, st.state, st.index>> = <<one.req, one.state, one.index>>
            /\ st.req.aborted => ~input.opens[1]
            /\ fed = Len(bytes) /\ ~st.req.error /\ ~st.req.aborted =>
                  /\ st.state = "END" /\ st.req.ended
                  /\ Len(st.req.files) = Len(SelectSeq([i \in DOMAIN files |-> i], LAMBDA i : i \in opened))
                  /\ \A i \in opened : \E f \in Range(st.req.files) :
                        f.data = files[i].data /\ ~f.open /\ ~f.ing
                  /\ \A i \in DOMAIN fields : st.req.form[fields[i].value] = fields[i].data
            /\ st.req.error => \E i \in DOMAIN files : Last(files[i].value) = "F"

\* A peer that sends one frame at a time is understood: every text reaches the application
\* once and unmasked, every ping is answered with its payload, and nothing of a frame is
\* left in the buffer when the next one comes.
MessagesExact ==
    kind = "frames" =>
        LET done  == SubSeq(input, 1, Cardinality({e \in FrameEnds(input) : e <= fed}))
            texts == SelectSeq(done, LAMBDA f : f.op \in {1, 2})
            pings == SelectSeq(done, LAMBDA f : f.op = 9)
            Pong(f) == <<138>> \o (IF Len(f.text) < 126 THEN <<Len(f.text)>>
                                   ELSE <<126, Len(f.text) \div 256, Len(f.text) % 256>>) \o f.text
        IN  /\ st.msgs = [i \in DOMAIN texts |-> texts[i].text]
            /\ \A i \in DOMAIN pings : st.out[i] = Pong(pings[i])
            /\ st.closed <=> \E i \in DOMAIN done : done[i].op = 8
            /\ fed \in FrameEnds(input) /\ ~st.closed => st.buf = <<>>

\* The digest of the standard: 80 words from 16, and the three functions as it has them.
RECURSIVE Schedule(_, _)
Schedule(w, size) ==
    LET t == Len(w) + 1
        n == S!rol(S!XorW(S!XorW(w[t - 3], w[t - 8]), S!XorW(w[t - 14], w[t - 16])), 1)
    IN  IF Len(w) = size \/ n = <<>> THEN w ELSE Schedule(Append(w, n), size)

NotW(a) == <<65535 - a[1], 65535 - a[2]>>

Standard(t, b, c, d) ==
    CASE t < 20 -> S!OrW(S!AndW(b, c), S!AndW(NotW(b), d))
      [] t \in 20..39 \cup 60..79 -> S!XorW(b, S!XorW(c, d))
      [] OTHER -> S!XorW(S!AndW(b, c), S!XorW(S!AndW(b, d), S!AndW(c, d)))

RECURSIVE Steps(_, _, _, _)
Steps(w, v, t, end) ==
    LET a == S!AddAll(<<S!rol(v[1], 5), Standard(t, v[2], v[3], v[4]), v[5], w[t + 1],
                        S!Constant(<<"R0", "R2", "R3", "R4">>[(t \div 20) + 1])>>)
        n == <<a, v[1], S!rol(v[2], 30), v[3], v[4]>>
    IN  IF t = end \/ n = <<>> THEN v ELSE Steps(w, n, t + 1, end)

RECURSIVE Quarters(_, _, _)
Quarters(w, v, k) ==
    LET n == Steps(w, v, 20 * k, 20 * (k + 1))
    IN  IF k = 3 \/ n = <<>> THEN n ELSE Quarters(w, n, k + 1)

RECURSIVE Hash(_, _)
Hash(msg, digest) ==
    IF msg = <<>> THEN digest
    ELSE LET b == S!make_block(SubSeq(msg, 1, 64))
             v == Quarters(Schedule(Schedule([i \in 1..16 |-> b[i - 1]], 48), 80), digest, 0)
             n == [k \in 1..5 |-> S!Plus2(digest[k], v[k])]
         IN  IF n = <<>> THEN n ELSE Hash(SubSeq(msg, 65, Len(msg)), n)

Padded(msg) ==
    LET n == Len(msg)
    IN  msg \o <<128>> \o [i \in 1..(119 - n) % 64 |-> 0] \o <<0, 0, 0, 0, 0, 0, (n * 8) \div 256, (n * 8) % 256>>

\* The bytes of a digest, the high one of each word first.
DigestBytes(d) ==
    FlattenSeq([k \in 1..5 |-> <<d[k][1] \div 256, d[k][1] % 256, d[k][2] \div 256, d[k][2] % 256>>])

\* The digest does not depend on how the bytes are handed in, and it is the one of the
\* standard, also where the padding needs a block of its own; the key that accepts an
\* upgrade says the digest in base64.
DigestExact ==
    kind = "digest" =>
        \A d \in {S!finish(st)} :
            /\ d = Hash(Padded(SubSeq(input, 1, fed)), S!init.digest)
            /\ fed = Len(input) => T!Decode(accept_key(d)) = DigestBytes(d)

\* What is encoded is decoded to what it was: base64 by both encoders, a percent encoded
\* text, the value of a query and of a cookie; and a number is written as its digits.
ConversionsInvert ==
    /\ kind = "text" =>
          LET enc == T!url_encode(input)
              key == <<107>>
          IN  /\ T!Decode(T!Encode(input)) = input
              /\ T!base64_encode(input, FALSE) = T!Encode(input)
              /\ T!Decode(T!base64_encode(input, TRUE)) = input
              /\ T!url_decode(enc) = input
              /\ T!form_urldecode(enc) = input
              /\ T!url_decode(T!quote_plus(input)) = input
              /\ LET q == T!parse_query(key \o <<61>> \o enc \o <<38, 110, 61>> \o T!quote(input))
                 IN  /\ T!get_query_value(q, key) = input
                     /\ T!get_query_value(q, <<110>>) = input
              /\ enc # <<>> => T!get_cookies_map(key \o <<61>> \o enc \o <<59, 32, 110, 61, 49>>)
                                 = [k \in {key, <<110>>} |-> IF k = key THEN enc ELSE <<49>>]
    /\ kind = "number" /\ input # <<>> =>
          /\ T!to_str(4, st) = input
          /\ T!to_str(4, 0 - st) = <<-1>> \o input
          /\ st < 65536 => T!to_str(2, st) = input
          /\ T!to_str(8, st) = input
          /\ T!to_str(8, 0 - st) = <<-1>> \o input

\* The scalar value a group of bytes encodes, or -1: the shortest form, and no surrogate.
Scalar(g) ==
    LET n    == Len(g)
        lead == <<0, 192, 224, 240>>[n]
        low  == <<0, 128, 2048, 65536>>[n]
        high == <<127, 2047, 65535, 1114111>>[n]
        v    == FoldLeft(LAMBDA a, c : a * 64 + c - 128, g[1] - lead, Tail(g))
    IN  IF g[1] >= lead /\ (\A i \in 2..n : g[i] \in 128..191) /\ v \in low..high /\ v \notin 55296..57343
        THEN v ELSE -1

RECURSIVE WellFormed(_)
WellFormed(s) ==
    s = <<>> \/ \E n \in 1..4 : /\ n <= Len(s) /\ Scalar(SubSeq(s, 1, n)) >= 0
                                /\ WellFormed(SubSeq(s, n + 1, Len(s)))

\* is_valid_utf8 accepts what encodes scalar values in their shortest form, and no more.
Utf8Exact == kind = "utf8" => (T!is_valid_utf8(input) <=> WellFormed(input))

\* The text that the parts of an address make, when the delimiters of has are there.
Rejoined(u, has) ==
    LET Opt(d, p) == IF d \in has THEN p ELSE <<>>
    IN  u.schema \o <<":">>
        \o Opt("//", <<"/", "/">> \o Opt("@", u.uinfo \o <<"@">>) \o u.host \o Opt(":", <<":">> \o u.port))
        \o u.path \o Opt("?", <<"?">> \o u.query) \o Opt("#", <<"#">> \o u.fragment)

\* The parts are cut at the delimiters of the grammar, so that there is one way to do it.
WellCut(u, has) ==
    LET Free(p, cs) == \A i \in DOMAIN p : p[i] \notin cs
    IN  /\ Free(u.schema, {":", "/"}) /\ Free(u.path, {"?", "#"}) /\ Free(u.query, {"#"})
        /\ Free(u.uinfo \o u.host, {"/", "?", "#"}) /\ \A i \in DOMAIN u.port : u.port[i] \in U!Digits
        /\ ":" \notin has => LET n == SelectLastInSeq(u.host, LAMBDA c : c \notin U!Digits)
                              IN  u.port = <<>> /\ (n # 0 => u.host[n] # ":")
        /\ "@" \notin has => u.uinfo = <<>> /\ (Free(u.host, {"@"}) \/ ~Free(u.host, {"[", "]"}))
        /\ "//" \in has => u.path = <<>> \/ u.path[1] = "/"
        /\ "//" \notin has => has \cap {"@", ":"} = {} /\ ~IsPrefix(<<"/", "/">>, u.path)

\* A scheme, and behind it characters that are legal in every part, and at most one "#".
PlainUri(s) ==
    \E n \in 2 .. Len(s) :
        /\ s[n] = ":" /\ s[1] \in U!Letters /\ \A i \in 1 .. n - 1 : U!is_scheme_character(s[i])
        /\ \A i \in n + 1 .. Len(s) : U!is_query_character(s[i]) \/ s[i] = "#"
        /\ Cardinality({i \in DOMAIN s : s[i] = "#"}) <= 1

\* The text up to the end of the authority.
Server(s) ==
    LET n == SelectInSeq(s, LAMBDA c : c = ":")
        p == IF IsPrefix(<<"/", "/">>, SubSeq(s, n + 1, Len(s))) THEN n + 3 ELSE Len(s) + 1
    IN  SubSeq(s, 1, U!UpTo(s, p, {"/", "?", "#"}) - 1)

\* An address the client accepts is taken apart as the grammar has it, and the parts say
\* all of it; the one exception is an address whose first character behind the scheme is
\* legal nowhere, of which only the scheme is taken.  Plain addresses are accepted.  Whether
\* or not what follows the authority is legal, and has to be encoded for a second parse,
\* it does not change where the client connects.
UriExact ==
    kind = "uri" =>
        \A x \in {U!parse_from(U!NoUri, input)}, g \in {U!get_uri(input)}, h \in {U!get_uri(Server(input))} :
            /\ x.ok => \/ \E has \in SUBSET {"//", "@", ":", "?", "#"} :
                               Rejoined(x.u, has) = input /\ WellCut(x.u, has)
                       \/ LET c == U!At(input, Len(x.u.schema) + 2)
                          IN  c \in {" ", "[", "]"} /\ x.u = [U!NoUri EXCEPT !.schema = x.u.schema]
            /\ PlainUri(input) => x.ok
            /\ g.ok <=> h.ok
            /\ g.ok => LET To(y) == <<U!context(y.u).host, U!context(y.u).port>> IN To(g) = To(h)

\* The conversions of text: what is encoded is decoded again (ConversionsInvert), text is
\* recognised as UTF-8 exactly when it is (Utf8Exact), and an address is taken apart at its
\* delimiters (UriExact).
TextExact == ConversionsInvert /\ Utf8Exact /\ UriExact
=============================================================================
