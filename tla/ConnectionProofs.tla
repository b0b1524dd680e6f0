-------------------------- MODULE ConnectionProofs --------------------------
(***************************************************************************)
(* A connection and the router it hands its requests to.                   *)
(***************************************************************************)
EXTENDS Connection, Router, TLAPS

-----------------------------------------------------------------------------
(***************************************************************************)
(* The handler of a route runs once, on a whole request, however the       *)
(* request was cut into reads, for every size of buffer and request.       *)
(***************************************************************************)

\* The length of the request.
Total == sent.head + sent.body

\* The type of req.
ReqType == [cur : 0..MaxSize, cap : BufInit..MaxSize, header_len : Int,
            body_len : 0..(Word - 1), left_body_len : 0..(Word - 1)]

\* A request whose lengths are those of the header, or of no header yet.
Sound(r) ==
    /\ r \in ReqType
    /\ r.cur < r.cap
    /\ r.header_len \in {-2, -1, 0, sent.head}
    /\ r.body_len \in {0, sent.body}

\* While handle() reads, the handler has not run, unless it was for an upgrade;
\* and until the buffer is used again it holds all that has arrived.
Waiting ==
    /\ work # "route"
    /\ work = "none" => req.cur = arrived
    /\ work # "handle_ws_data" => calls = 0

\* The inductive invariant of the connection.
IInv ==
    /\ TypeOK
    /\ Sound(req)
    /\ pc = "reading" => Waiting
    /\ pc = "writing then reading" => work = "handle_ws_data"
    /\ HandlerSeesAll
    /\ HandlerRunsOnce

\* The facts about the sizes, and about the request the peer sends.
LEMMA SizeFacts ==
    /\ BufInit \in Nat /\ 0 < BufInit /\ MaxSize \in Nat /\ MaxHeader \in Nat /\ Word \in Nat
    /\ BufInit <= MaxSize /\ 4 * MaxSize < Word /\ MaxFrames \in Nat
  BY ConnectionAssumption

\* What is known of the request the peer sends.
LEMMA SentFacts ==
    ASSUME sent \in Requests
    PROVE  /\ sent.head \in Nat /\ sent.body \in Nat /\ sent.line \in Nat
           /\ 0 < sent.head /\ sent.head + sent.body < Word - MaxSize
           /\ sent.route \in BOOLEAN /\ sent.kind \in Kinds
           /\ sent.kind \in {"none", "file", "upgrade"} => sent.body = 0
<1>1. sent \in Shape /\ sent.line \in 1..(sent.head - 1) /\ sent.head + sent.body < Word - MaxSize
      /\ (sent.kind \in {"none", "file", "upgrade"} => sent.body = 0)
  BY ConnectionAssumption, Zenon
<1>2. QED
  BY <1>1 DEF Shape

\* The sizes that size_t arithmetic gives stay within the word.
LEMMA SizeTType ==
    ASSUME NEW n \in Int, -Word <= n, n < Word + Word
    PROVE  SizeT(n) \in 0..(Word - 1)
  BY SizeFacts DEF SizeT

\* Without overflow size_t arithmetic is arithmetic.
LEMMA SizeTSmall ==
    ASSUME NEW n \in Nat, n < Word
    PROVE  SizeT(n) = n
  BY SizeFacts DEF SizeT

\* resize() never shrinks the buffer and never passes MaxSize.
LEMMA GrownFacts ==
    ASSUME NEW size \in BufInit..MaxSize, NEW total \in Nat
    PROVE  Grown(size, total) \in BufInit..MaxSize /\ Grown(size, total) >= size
  BY SizeFacts DEF Grown

\* The invariant holds before the first read.
LEMMA InitIInv == Init => IInv
<1> SUFFICES ASSUME Init PROVE IInv
  BY Zenon
<1>1. sent \in Requests /\ sent.head \in Nat /\ sent.body \in Nat
  BY SentFacts, Zenon DEF Init
<1>2. req = [cur |-> 0, cap |-> BufInit, header_len |-> 0, body_len |-> 0, left_body_len |-> 0]
  BY Zenon DEF Init
<1>3. 0 \in 0..MaxSize /\ BufInit \in BufInit..MaxSize /\ 0 \in 0..(Word - 1) /\ 0 < BufInit
  BY SizeFacts
<1>4. Sound(req)
  BY <1>2, <1>3 DEF Sound, ReqType
<1>5. out \in Seq(Replies)
  BY DEF Init
<1>6. arrived \in 0..(sent.head + sent.body) /\ frames \in 0..MaxFrames /\ calls \in Nat
  BY <1>1, SizeFacts DEF Init
<1>7. TypeOK
  BY <1>1, <1>4, <1>5, <1>6, Zenon DEF Init, TypeOK, Sound, ReqType, Replies
<1>8. calls = 0 /\ pc = "reading" /\ work = "none" /\ req.cur = arrived
  BY <1>2 DEF Init
<1>9. QED
  BY <1>4, <1>7, <1>8 DEF IInv, Waiting, HandlerSeesAll, HandlerRunsOnce

-----------------------------------------------------------------------------
\* What a read has done before process() decides: more has arrived.
Delivered == pc = "reading" /\ sent' = sent /\ arrived' \in 0..Total /\ arrived <= arrived'

\* A step that leaves a sound request and its other variables typed.
LEMMA TypesKept ==
    ASSUME IInv, Delivered, NEW r, Sound(r), req' = r,
           work' \in {"none", "route", "do_read_multipart", "handle_ws_data"},
           rep' \in Replies, calls' \in Nat, frames' \in 0..MaxFrames, out' \in Seq(Replies),
           pc' \in {"reading", "writing", "writing then reading", "done"}
    PROVE  TypeOK' /\ Sound(req)'
<1>1. sent \in Requests
  BY Zenon DEF IInv, TypeOK
<1>2. Sound(req)'
  BY Zenon DEF Sound, Delivered
<1>3. r \in ReqType /\ r.cur < r.cap
  BY Zenon DEF Sound
<1>4. TypeOK'
  BY <1>1, <1>3, Zenon DEF TypeOK, Delivered, Total, ReqType
<1>5. QED
  BY <1>2, <1>4, Zenon

\* What the handler has seen stays seen.
LEMMA SeenStays ==
    ASSUME IInv, Delivered, calls' = calls
    PROVE  HandlerSeesAll' /\ HandlerRunsOnce'
<1>1. sent \in Requests /\ calls \in Nat /\ arrived \in 0..Total
  BY Zenon DEF IInv, TypeOK, Total
<1>2. sent.head \in Nat /\ sent.body \in Nat
  BY <1>1, SentFacts, Zenon
<1>3. calls > 0 => arrived >= Total
  BY Zenon DEF IInv, HandlerSeesAll, Total
<1>4. calls > 0 => arrived' >= Total
  BY <1>1, <1>2, <1>3 DEF Delivered, Total
<1>5. HandlerSeesAll'
  BY <1>4, Zenon DEF HandlerSeesAll, Delivered, Total
<1>6. HandlerRunsOnce'
  BY Zenon DEF IInv, HandlerRunsOnce, Delivered
<1>7. QED
  BY <1>5, <1>6, Zenon

\* A reply without the handler keeps the invariant.
LEMMA AnswersIInv ==
    ASSUME IInv, Delivered, NEW r, Sound(r), NEW s \in Replies, Answers(r, s)
    PROVE  IInv'
<1>1. TypeOK' /\ Sound(req)'
  BY TypesKept, Zenon DEF Answers, IInv, TypeOK
<1>2. HandlerSeesAll' /\ HandlerRunsOnce'
  BY SeenStays, Zenon DEF Answers
<1>3. QED
  BY <1>1, <1>2, Zenon DEF IInv, Answers

\* Waiting for more keeps the invariant.
LEMMA NeedsReadIInv ==
    ASSUME IInv, Delivered, NEW r, Sound(r), NEW w \in {"none", "do_read_multipart"},
           NeedsRead(r, w), w = "none" => r.cur = arrived', calls = 0
    PROVE  IInv'
<1>1. TypeOK' /\ Sound(req)'
  BY TypesKept, Zenon DEF NeedsRead, IInv, TypeOK
<1>2. HandlerSeesAll' /\ HandlerRunsOnce'
  BY SeenStays, Zenon DEF NeedsRead
<1>3. Waiting'
  BY Zenon DEF Waiting, NeedsRead
<1>4. pc' = "reading"
  BY Zenon DEF NeedsRead, Delivered
<1>5. QED
  BY <1>1, <1>2, <1>3, <1>4, Zenon DEF IInv

\* The handler may run when all has arrived, for a request with a route that is
\* within the limit.
LEMMA CalledIInv ==
    ASSUME IInv, Delivered, NEW r, Sound(r), req' = r, calls = 0, calls' = calls + 1,
           arrived' >= Total, sent.route = TRUE, Total <= MaxSize, Total <= MaxHeader,
           work' \in {"none", "route", "do_read_multipart", "handle_ws_data"},
           rep' \in Replies, frames' = frames, out' \in Seq(Replies),
           pc' = "writing" \/ (pc' = "reading" /\ work' = "handle_ws_data")
    PROVE  IInv'
<1>1. calls' = 1 /\ frames' \in 0..MaxFrames
  <2>1. frames \in 0..MaxFrames
    BY Zenon DEF IInv, TypeOK
  <2>2. calls' = 1
    OBVIOUS
  <2>3. QED
    BY <2>1, <2>2, Zenon
<1>2. TypeOK' /\ Sound(req)'
  <2>1. calls' \in Nat /\ pc' \in {"reading", "writing", "writing then reading", "done"}
    <3>1. calls' \in Nat
      BY <1>1
    <3>2. pc' \in {"reading", "writing", "writing then reading", "done"}
      BY Zenon
    <3>3. QED
      BY <3>1, <3>2, Zenon
  <2>2. QED
    BY <1>1, <2>1, TypesKept, Zenon
<1>3. HandlerSeesAll' /\ HandlerRunsOnce'
  <2>1. sent' = sent
    BY Zenon DEF Delivered
  <2>2. HandlerSeesAll'
    BY <2>1, Zenon DEF HandlerSeesAll, Total
  <2>3. calls' <= 1
    BY <1>1
  <2>4. sent'.route /\ sent'.head + sent'.body <= MaxSize /\ sent'.head + sent'.body <= MaxHeader
    BY <2>1, Zenon DEF Total
  <2>5. QED
    BY <2>2, <2>3, <2>4, Zenon DEF HandlerRunsOnce
<1>4. pc' = "reading" => Waiting'
  BY Zenon DEF Waiting
<1>5. QED
  BY <1>2, <1>3, <1>4, Zenon DEF IInv

-----------------------------------------------------------------------------
\* A complete header was parsed from a buffer that holds all that has arrived.
Parsed(p) ==
    /\ Sound(p)
    /\ p.cur = arrived' /\ p.cur <= MaxHeader
    /\ p.header_len = sent.head /\ sent.head <= p.cur
    /\ p.body_len = IF sent.kind = "chunked" THEN 0 ELSE sent.body
    /\ calls = 0 /\ work = "none" /\ sent.route = TRUE

\* What a complete header says of the lengths.
LEMMA ParsedFacts ==
    ASSUME IInv, Delivered, NEW p, Parsed(p)
    PROVE  /\ p.cur \in 0..MaxSize /\ p.cap \in BufInit..MaxSize /\ p.cur < p.cap
           /\ p.left_body_len \in 0..(Word - 1)
           /\ sent.head \in Nat /\ sent.body \in Nat /\ Total \in Nat /\ Total < Word
           /\ sent.kind # "chunked" => total_len(p) = Total
           /\ total_len(p) \in Nat
<1>1. p.cur \in 0..MaxSize /\ p.cap \in BufInit..MaxSize /\ p.cur < p.cap
      /\ p.left_body_len \in 0..(Word - 1)
  BY Zenon DEF Parsed, Sound, ReqType
<1>2. sent \in Requests
  BY Zenon DEF IInv, TypeOK
<1>3. sent.head \in Nat /\ sent.body \in Nat /\ Total \in Nat /\ Total < Word /\ sent.head < Word
  BY <1>2, SentFacts, SizeFacts DEF Total
<1>4. sent.kind # "chunked" => total_len(p) = SizeT(Total)
  BY Zenon DEF Parsed, total_len, Total
<1>5. sent.kind = "chunked" => total_len(p) = SizeT(sent.head)
  BY <1>3 DEF Parsed, total_len
<1>6. SizeT(Total) = Total /\ SizeT(sent.head) = sent.head
  BY <1>3, SizeTSmall, Zenon
<1>7. QED
  BY <1>1, <1>3, <1>4, <1>5, <1>6, Zenon

\* Growing the buffer and taking off what has come leaves a sound request.
LEMMA GrownSound ==
    ASSUME NEW p, Sound(p), NEW t \in Nat, NEW d \in Int, -Word <= d, d < Word + Word
    PROVE  /\ Sound([p EXCEPT !.cap = Grown(@, t), !.left_body_len = SizeT(d)])
           /\ Sound([p EXCEPT !.left_body_len = SizeT(d)])
           /\ Sound([p EXCEPT !.cap = Grown(@, t), !.cur = 0])
           /\ Sound([p EXCEPT !.cur = 0])
<1>1. p \in ReqType /\ p.cur < p.cap /\ p.cap \in BufInit..MaxSize /\ p.cur \in 0..MaxSize
  BY Zenon DEF Sound, ReqType
<1>2. Grown(p.cap, t) \in BufInit..MaxSize /\ Grown(p.cap, t) >= p.cap
  BY <1>1, GrownFacts, Zenon
<1>3. SizeT(d) \in 0..(Word - 1)
  BY SizeTType, Zenon
<1>4. p.cur < Grown(p.cap, t) /\ 0 < p.cap /\ 0 < Grown(p.cap, t) /\ 0 \in 0..MaxSize
  BY <1>1, <1>2, SizeFacts
<1> DEFINE g == Grown(p.cap, t)
           z == SizeT(d)
<1> HIDE DEF g, z
<1>5. Sound([p EXCEPT !.cap = g, !.left_body_len = z])
  BY <1>1, <1>2, <1>3, <1>4, Zenon DEF Sound, ReqType, g, z
<1>6. Sound([p EXCEPT !.left_body_len = z])
  BY <1>1, <1>3, Zenon DEF Sound, ReqType, z
<1>7. Sound([p EXCEPT !.cap = g, !.cur = 0])
  BY <1>1, <1>2, <1>4, Zenon DEF Sound, ReqType, g
<1>8. Sound([p EXCEPT !.cur = 0])
  BY <1>1, <1>4, Zenon DEF Sound, ReqType
<1>9. QED
  BY <1>5, <1>6, <1>7, <1>8, Zenon DEF g, z

\* call_back() on a request that is all there.
LEMMA CallBackIInv ==
    ASSUME IInv, Delivered, NEW p, Sound(p), calls = 0, sent.route = TRUE,
           arrived' >= Total, Total <= MaxSize, Total <= MaxHeader, call_back(p)
    PROVE  IInv'
<1>1. rep' \in Replies
  BY Zenon DEF call_back, Replies
<1>2. work' = work /\ frames' = frames /\ out' = out /\ calls' = calls + 1 /\ req' = p
      /\ pc' = "writing"
  BY Zenon DEF call_back
<1>3. work \in {"none", "route", "do_read_multipart", "handle_ws_data"} /\ out \in Seq(Replies)
  BY Zenon DEF IInv, TypeOK
<1>4. QED
  BY <1>1, <1>2, <1>3, CalledIInv, Zenon

\* handle_string_body keeps the invariant.
LEMMA StringIInv ==
    ASSUME IInv, Delivered, NEW p, Parsed(p), sent.kind = "string", handle_string_body(p)
    PROVE  IInv'
<1> DEFINE d == p.left_body_len - (p.cur - p.header_len)
           g == [p EXCEPT !.cap = Grown(@, total_len(p)), !.left_body_len = SizeT(d)]
<1>1. /\ p.cur \in 0..MaxSize /\ p.left_body_len \in 0..(Word - 1)
      /\ sent.head \in Nat /\ sent.body \in Nat /\ total_len(p) = Total /\ Total \in Nat
      /\ total_len(p) \in Nat
  BY ParsedFacts, Zenon
<1>2. p.cur = arrived' /\ p.header_len = sent.head /\ sent.head <= p.cur /\ p.cur <= MaxHeader
      /\ Sound(p) /\ calls = 0 /\ sent.route = TRUE
  BY Zenon DEF Parsed
<1>3. d \in Int /\ -Word <= d /\ d < Word + Word
  BY <1>1, <1>2, SizeFacts
<1>4. Sound(g)
  BY <1>1, <1>2, <1>3, GrownSound, Zenon
<1>5. g.cur = p.cur
  OBVIOUS
<1>6. CASE Answers(p, "toolong") \/ Answers(p, "bad")
  BY <1>2, <1>6, AnswersIInv, Zenon DEF Replies
<1>7. CASE ~at_capacity(p) /\ has_recieved_all(p) /\ call_back(p)
  <2>1. Total <= MaxSize /\ Total <= MaxHeader /\ arrived' >= Total
    BY <1>1, <1>2, <1>7, SizeFacts DEF at_capacity, has_recieved_all
  <2>2. QED
    BY <1>2, <1>7, <2>1, CallBackIInv, Zenon
<1> HIDE DEF d
<1>8. CASE NeedsRead(g, "none")
  BY <1>2, <1>4, <1>5, <1>8, NeedsReadIInv, Zenon
<1>9. QED
  BY <1>6, <1>7, <1>8, Zenon DEF handle_string_body, handle_body, reduce_left_body_size, d

\* handle_form_urlencoded keeps the invariant.
LEMMA FormIInv ==
    ASSUME IInv, Delivered, NEW p, Parsed(p), sent.kind = "urlencoded", handle_form_urlencoded(p)
    PROVE  IInv'
<1> DEFINE d == p.left_body_len - (0 - p.header_len)
           g == [p EXCEPT !.cap = Grown(@, total_len(p)), !.left_body_len = SizeT(d)]
<1>1. /\ p.cur \in 0..MaxSize /\ p.left_body_len \in 0..(Word - 1)
      /\ sent.head \in Nat /\ sent.body \in Nat /\ total_len(p) = Total /\ Total \in Nat
      /\ total_len(p) \in Nat
  BY ParsedFacts, Zenon
<1>2. p.cur = arrived' /\ p.header_len = sent.head /\ sent.head <= p.cur /\ p.cur <= MaxHeader
      /\ Sound(p) /\ calls = 0 /\ sent.route = TRUE
  BY Zenon DEF Parsed
<1>3. d \in Int /\ -Word <= d /\ d < Word + Word
  BY <1>1, <1>2, SizeFacts
<1>4. Sound(g)
  BY <1>1, <1>2, <1>3, GrownSound, Zenon
<1>5. CASE Answers(p, "toolong") \/ Answers(p, "bad")
  BY <1>2, <1>5, AnswersIInv, Zenon DEF Replies
<1>6. CASE ~at_capacity(p) /\ has_recieved_all(p) /\ call_back(p)
  <2>1. Total <= MaxSize /\ Total <= MaxHeader /\ arrived' >= Total
    BY <1>1, <1>2, <1>6, SizeFacts DEF at_capacity, has_recieved_all
  <2>2. QED
    BY <1>2, <1>6, <2>1, CallBackIInv, Zenon
<1>7. rep \in Replies
  BY Zenon DEF IInv, TypeOK
<1> HIDE DEF d
<1>8. CASE Answers(g, rep)
  BY <1>4, <1>7, <1>8, AnswersIInv, Zenon
<1>9. QED
  BY <1>5, <1>6, <1>8, Zenon DEF handle_form_urlencoded, handle_url_urlencoded_body, reduce_left_body_size, d

\* handle_multipart keeps the invariant.
LEMMA MultipartIInv ==
    ASSUME IInv, Delivered, NEW p, Parsed(p), sent.kind = "multipart", handle_multipart(p)
    PROVE  IInv'
<1> DEFINE d == p.left_body_len - (p.cur - p.header_len)
           g == [p EXCEPT !.left_body_len = SizeT(d)]
<1>1. /\ p.cur \in 0..MaxSize /\ p.left_body_len \in 0..(Word - 1)
      /\ sent.head \in Nat /\ sent.body \in Nat /\ Total \in Nat /\ Total < Word
  BY ParsedFacts, Zenon
<1>2. p.cur = arrived' /\ p.header_len = sent.head /\ sent.head <= p.cur /\ p.cur <= MaxHeader
      /\ Sound(p) /\ calls = 0 /\ sent.route = TRUE /\ p.body_len = sent.body
  BY Zenon DEF Parsed
<1>3. d \in Int /\ -Word <= d /\ d < Word + Word
  BY <1>1, <1>2, SizeFacts
<1>4. Sound(g) /\ Sound([p EXCEPT !.cur = 0])
  BY <1>1, <1>2, <1>3, GrownSound, Zenon
<1>5. Sound([g EXCEPT !.cur = 0])
  BY <1>1, <1>3, <1>4, GrownSound, Zenon
<1>6. g.cur = p.cur /\ g.header_len = sent.head /\ g.body_len = sent.body
  BY <1>2, Zenon DEF Sound, ReqType
<1>7. CASE Answers([p EXCEPT !.cur = 0], "bad") \/ Answers(p, "bad")
  BY <1>2, <1>4, <1>7, AnswersIInv, Zenon DEF Replies
<1> HIDE DEF g
<1>8. CASE has_recieved_all_part(g) /\ call_back(g)
  <2>1. sent.body = SizeT(p.cur - sent.head)
    BY <1>6, <1>8, Zenon DEF has_recieved_all_part
  <2>2. p.cur - sent.head \in Nat /\ p.cur - sent.head < Word
    BY <1>1, <1>2, SizeFacts
  <2>3. sent.body = p.cur - sent.head
    BY <2>1, <2>2, SizeTSmall, Zenon
  <2>4. arrived' >= Total /\ Total <= MaxSize /\ Total <= MaxHeader
    BY <1>1, <1>2, <2>3, SizeFacts DEF Total
  <2>5. QED
    BY <1>2, <1>4, <1>8, <2>4, CallBackIInv, Zenon
<1>9. CASE NeedsRead([g EXCEPT !.cur = 0], "do_read_multipart")
  BY <1>2, <1>5, <1>9, NeedsReadIInv, Zenon
<1>10. QED
  BY <1>7, <1>8, <1>9, Zenon DEF handle_multipart, reduce_left_body_size, g, d

\* A request without a body: the header is all of it.
LEMMA HeaderIInv ==
    ASSUME IInv, Delivered, NEW p, Parsed(p), ~has_body(p), handle_header_request(p)
    PROVE  IInv'
<1>1. /\ p.cur \in 0..MaxSize /\ sent.head \in Nat /\ sent.body \in Nat /\ Total \in Nat
      /\ p.cap \in BufInit..MaxSize
  BY ParsedFacts, Zenon
<1>2. p.cur = arrived' /\ sent.head <= p.cur /\ p.cur <= MaxHeader /\ Sound(p) /\ calls = 0 /\ sent.route = TRUE
      /\ work = "none"
  BY Zenon DEF Parsed
<1>3. sent.body = 0
  BY Zenon DEF has_body, Parsed
<1>4. arrived' >= Total /\ Total <= MaxSize /\ Total <= MaxHeader
  BY <1>1, <1>2, <1>3, SizeFacts DEF Total
<1>5. out \in Seq(Replies)
  BY Zenon DEF IInv, TypeOK
<1>6. CASE Answers(p, "forbidden") \/ Answers(p, "notfound") \/ Answers(p, "bad")
  BY <1>2, <1>6, AnswersIInv, Zenon DEF Replies
<1>7. CASE call_back(p)
  BY <1>2, <1>4, <1>7, CallBackIInv, Zenon
<1>8. CASE process_download(p)
  BY <1>2, <1>4, <1>5, <1>8, CalledIInv, Zenon DEF process_download, Replies
<1>9. CASE response_handshake(p)
  <2>1. Sound([p EXCEPT !.cur = 0])
    <3>1. 0 \in Nat /\ 0 \in Int /\ -Word <= 0 /\ 0 < Word + Word
      BY SizeFacts
    <3>2. QED
      BY <1>2, <3>1, GrownSound, Zenon
  <2>2. out' \in Seq(Replies)
    BY <1>5, <1>9 DEF response_handshake, Replies
  <2>3. pc' = "reading" /\ work' = "handle_ws_data" /\ rep' \in Replies /\ calls' = calls + 1
        /\ frames' = frames /\ req' = [p EXCEPT !.cur = 0]
    BY <1>9, Zenon DEF response_handshake, Delivered, Replies
  <2>4. QED
    BY <1>2, <1>4, <2>1, <2>2, <2>3, CalledIInv, Zenon
<1>10. QED
  BY <1>6, <1>7, <1>8, <1>9, Zenon DEF handle_header_request

\* handle_request keeps the invariant.
LEMMA RequestIInv ==
    ASSUME IInv, Delivered, NEW p, Parsed(p), handle_request(p)
    PROVE  IInv'
<1>1. Sound(p) /\ rep \in Replies
  BY Zenon DEF Parsed, IInv, TypeOK
<1>2. CASE Answers(p, rep) \/ Answers(p, "error")
  BY <1>1, <1>2, AnswersIInv, Zenon DEF Replies
<1>3. QED
  BY <1>2, HeaderIInv, StringIInv, FormIInv, MultipartIInv, Zenon DEF handle_request, handle_chunked

\* parse_header leaves a sound request, and a complete one is Parsed.
LEMMA ParseSound ==
    ASSUME IInv, Delivered, NEW r, Sound(r), NEW h \in {-2, -1, sent.head}
    PROVE  Sound(parse_header(r, h)) /\ parse_header(r, h).cur = r.cur
<1>1. sent.head \in Nat /\ sent.body \in 0..(Word - 1) /\ 0 \in 0..(Word - 1)
  <2>1. sent \in Requests
    BY Zenon DEF IInv, TypeOK
  <2>2. sent.head \in Nat /\ sent.body \in Nat /\ sent.head + sent.body < Word - MaxSize
    BY <2>1, SentFacts, Zenon
  <2>3. QED
    BY <2>2, SizeFacts
<1>2. r \in ReqType /\ h \in Int /\ r.cur < r.cap
  BY <1>1 DEF Sound
<1> DEFINE b == sent.body
           p == parse_header(r, h)
<1> SUFFICES Sound(p) /\ p.cur = r.cur
  BY Zenon
<1> HIDE DEF b, p
<1>a. h \in {-2, -1, 0, sent.head} /\ r.body_len \in {0, sent.body}
  BY Zenon DEF Sound
<1>b. ASSUME p \in ReqType, p.cur = r.cur, p.cap = r.cap, p.header_len = h,
             p.body_len \in {0, sent.body}
      PROVE  Sound(p) /\ p.cur = r.cur
  BY <1>2, <1>a, <1>b, Zenon DEF Sound
<1>3. CASE p = [r EXCEPT !.header_len = h]
  <2>1. p \in ReqType /\ p.cur = r.cur /\ p.cap = r.cap /\ p.header_len = h
        /\ p.body_len = r.body_len
    BY <1>2, <1>3, Zenon DEF ReqType
  <2>2. QED
    BY <1>a, <1>b, <2>1, Zenon
<1>4. CASE p = [r EXCEPT !.header_len = h, !.body_len = 0]
  <2>1. p \in ReqType /\ p.cur = r.cur /\ p.cap = r.cap /\ p.header_len = h /\ p.body_len = 0
    BY <1>1, <1>2, <1>4, Zenon DEF ReqType
  <2>2. QED
    BY <1>b, <2>1, Zenon
<1>5. CASE p = [r EXCEPT !.header_len = h, !.body_len = b, !.left_body_len = b]
  <2>1. b \in 0..(Word - 1)
    BY <1>1, Zenon DEF b
  <2>2. p \in ReqType /\ p.cur = r.cur /\ p.cap = r.cap /\ p.header_len = h /\ p.body_len = b
    BY <1>2, <1>5, <2>1, Zenon DEF ReqType
  <2>3. QED
    BY <1>b, <2>2, Zenon DEF b
<1>6. QED
  BY <1>3, <1>4, <1>5, Zenon DEF parse_header, p, b

\* handle_read keeps the invariant.
LEMMA ReadIInv ==
    ASSUME IInv, Delivered, work = "none", NEW r, Sound(r), r.cur = arrived', handle_read(r)
    PROVE  IInv'
<1>1. calls = 0
  BY Zenon DEF IInv, Waiting, Delivered
<1>2. sent \in Requests /\ sent.head \in Nat /\ sent.body \in Nat /\ 0 < sent.head
      /\ sent.route \in BOOLEAN
  BY SentFacts, Zenon DEF IInv, TypeOK
<1>3. PICK h \in phr_parse_request(r.cur) :
         LET p == parse_header(r, h)
         IN  \/ Answers(p, "bad") \/ Answers(p, "notfound") \/ NeedsRead(p, "none")
             \/ ~(r.cur > MaxHeader) /\ h >= 0 /\ peek_route(p) /\ handle_request(p)
  BY Zenon DEF handle_read
<1> DEFINE p == parse_header(r, h)
<1>4. h \in {-2, -1, sent.head} /\ (h >= 0 => h = sent.head /\ sent.head <= r.cur)
  BY <1>2, <1>3 DEF phr_parse_request, Sound, ReqType
<1>5. Sound(p) /\ p.cur = arrived'
  BY <1>4, ParseSound, Zenon
<1> HIDE DEF p
<1>6. CASE Answers(p, "bad") \/ Answers(p, "notfound")
  BY <1>5, <1>6, AnswersIInv, Zenon DEF Replies
<1>7. CASE NeedsRead(p, "none")
  BY <1>1, <1>5, <1>7, NeedsReadIInv, Zenon
<1>8. CASE ~(r.cur > MaxHeader) /\ h >= 0 /\ peek_route(p) /\ handle_request(p)
  <2>1. sent.route = TRUE
    BY <1>2, <1>8, Zenon DEF peek_route
  <2>2. h = sent.head /\ sent.head <= p.cur
    BY <1>4, <1>5, <1>8, Zenon
  <2>3. p.header_len = sent.head /\ p.body_len = IF sent.kind = "chunked" THEN 0 ELSE sent.body
    <3>1. h = sent.head /\ ~(h < 0 \/ r.cur > MaxHeader) /\ r \in ReqType
      BY <1>2, <1>8, <2>2 DEF Sound
    <3>2. CASE sent.kind = "chunked" \/ sent.body = 0
      <4>1. p = [r EXCEPT !.header_len = h, !.body_len = 0]
        BY <3>1, <3>2, Zenon DEF p, parse_header
      <4>2. QED
        BY <3>1, <3>2, <4>1, Zenon DEF ReqType
    <3>3. CASE ~(sent.kind = "chunked" \/ sent.body = 0)
      <4>1. p = [r EXCEPT !.header_len = h, !.body_len = sent.body, !.left_body_len = sent.body]
        BY <3>1, <3>3, Zenon DEF p, parse_header
      <4>2. QED
        BY <3>1, <3>3, <4>1, Zenon DEF ReqType
    <3>4. QED
      BY <3>2, <3>3, Zenon
  <2>4. p.cur <= MaxHeader
    BY <1>5, <1>8, SizeFacts DEF Sound, ReqType
  <2>5. Parsed(p)
    BY <1>1, <1>5, <2>1, <2>2, <2>3, <2>4, Zenon DEF Parsed
  <2>6. QED
    BY <1>8, <2>5, RequestIInv, Zenon
<1>9. QED
  BY <1>3, <1>6, <1>7, <1>8, Zenon DEF p

\* handle_ws_data keeps the invariant.
LEMMA WsIInv ==
    ASSUME IInv, Delivered, work = "handle_ws_data", NEW r, Sound(r), handle_ws_data(r)
    PROVE  IInv'
<1>1. Sound([r EXCEPT !.cur = 0])
  <2>1. 0 \in Nat /\ 0 \in Int /\ -Word <= 0 /\ 0 < Word + Word
    BY SizeFacts
  <2>2. QED
    BY <2>1, GrownSound, Zenon
<1>2. frames' \in 0..MaxFrames
  <2>1. frames \in 0..MaxFrames
    BY Zenon DEF IInv, TypeOK
  <2>2. frames < MaxFrames /\ frames' = frames + 1
    BY Zenon DEF handle_ws_data
  <2>3. QED
    BY <2>1, <2>2, SizeFacts
<1>3. calls' = calls /\ out' = out /\ calls \in Nat /\ out \in Seq(Replies) /\ rep \in Replies
  BY Zenon DEF handle_ws_data, IInv, TypeOK
<1>4. /\ req' = r \/ req' = [r EXCEPT !.cur = 0]
      /\ rep' \in Replies
      /\ \/ work' = work /\ pc' \in {"reading", "writing", "writing then reading"}
         \/ work' = "none" /\ pc' = "writing"
  BY <1>3, Zenon DEF handle_ws_data, Delivered, Replies
<1>5. Sound(req')
  BY <1>1, <1>4, Zenon
<1>6. TypeOK' /\ Sound(req)'
  <2>1. work' \in {"none", "route", "do_read_multipart", "handle_ws_data"}
    BY <1>4, Zenon
  <2>2. pc' \in {"reading", "writing", "writing then reading", "done"}
    BY <1>4, Zenon
  <2>3. QED
    BY <1>1, <1>2, <1>3, <1>4, <2>1, <2>2, TypesKept, Zenon
<1>7. HandlerSeesAll' /\ HandlerRunsOnce'
  BY <1>3, SeenStays, Zenon
<1>8. pc' = "reading" => Waiting'
  BY <1>4, Zenon DEF Waiting
<1>9. QED
  BY <1>4, <1>6, <1>7, <1>8, Zenon DEF IInv

\* process() keeps the invariant.
LEMMA ProcessIInv ==
    ASSUME IInv, Delivered, NEW r, Sound(r), work = "none" => r.cur = arrived', process(r)
    PROVE  IInv'
<1>1. CASE Answers(r, "toolong")
  BY <1>1, AnswersIInv, Zenon DEF Replies
<1>2. CASE work = "do_read_multipart" /\ do_read_multipart(r)
  <2> DEFINE g == [r EXCEPT !.cap = Grown(@, r.left_body_len), !.cur = 0]
  <2>1. calls = 0
    BY <1>2, Zenon DEF IInv, Waiting, Delivered
  <2>2. r.left_body_len \in Nat /\ 0 \in Int /\ -Word <= 0 /\ 0 < Word + Word
    BY SizeFacts DEF Sound, ReqType
  <2>3. Sound(g)
    BY <2>2, GrownSound, Zenon
  <2>4. NeedsRead(g, "do_read_multipart")
    BY <1>2, Zenon DEF do_read_multipart
  <2> HIDE DEF g
  <2>5. QED
    BY <2>1, <2>3, <2>4, NeedsReadIInv, Zenon
<1>3. QED
  BY <1>1, <1>2, ReadIInv, WsIInv, Zenon DEF process

\* handle() leaves its loop, or goes back to read after a websocket reply.
LEMMA HandleIInv ==
    ASSUME IInv, UNCHANGED <<sent, arrived, req, work, rep, calls, frames>>,
           out' \in Seq(Replies),
           pc' = "done" \/ (pc = "writing then reading" /\ pc' = "reading")
    PROVE  IInv'
<1>1. TypeOK'
  BY Zenon DEF IInv, TypeOK
<1>2. Sound(req)'
  BY Zenon DEF IInv, Sound
<1>3. pc' = "reading" => Waiting'
  BY Zenon DEF IInv, Waiting
<1>4. HandlerSeesAll' /\ HandlerRunsOnce'
  BY Zenon DEF IInv, HandlerSeesAll, HandlerRunsOnce
<1>5. QED
  BY <1>1, <1>2, <1>3, <1>4, Zenon DEF IInv

\* Every step of handle() keeps the invariant.
LEMMA NextIInv == IInv /\ [Next]_vars => IInv'
<1> SUFFICES ASSUME IInv, [Next]_vars PROVE IInv'
  BY Zenon
<1>1. sent \in Requests /\ out \in Seq(Replies) /\ rep \in Replies /\ arrived \in 0..Total
  BY Zenon DEF IInv, TypeOK, Total
<1>2. sent.head \in Nat /\ sent.body \in Nat /\ Total \in Nat
  BY <1>1, SentFacts DEF Total
<1>3. ASSUME NEW n \in 1..Remaining, Read(n) PROVE IInv'
  <2> DEFINE r == [req EXCEPT !.cur = @ + n]
  <2>1. req \in ReqType /\ Sound(req) /\ req.cur \in 0..MaxSize /\ req.cap \in BufInit..MaxSize
    BY Zenon DEF IInv, Sound, ReqType
  <2>2. Remaining \in Int /\ n \in Nat
    BY <1>1, <1>2, <1>3, SizeFacts DEF Remaining, Total
  <2>3. n < req.cap - req.cur
    BY <1>3, Zenon DEF Read, left_size
  <2>4. req.cur + n \in 0..MaxSize /\ req.cur + n < req.cap
    BY <2>1, <2>2, <2>3, SizeFacts
  <2>5. Sound(r)
    BY <2>1, <2>4, Zenon DEF Sound, ReqType
  <2>6. arrived' \in 0..Total /\ arrived <= arrived'
    <3>1. CASE work = "handle_ws_data"
      BY <1>1, <1>2, <1>3, <3>1 DEF Read
    <3>2. CASE work # "handle_ws_data"
      <4>1. n \in 1..(Total - arrived) /\ arrived' = arrived + n
        <5>1. Remaining = Total - arrived
          BY <1>1, <1>2, <3>2 DEF Remaining, Total
        <5>2. arrived' = arrived + n
          BY <1>3, <3>2, Zenon DEF Read
        <5>3. QED
          BY <5>1, <5>2, Zenon
      <4>2. arrived \in Nat /\ n \in Nat /\ Total - arrived \in Nat
        BY <1>1, <1>2, <2>2
      <4>3. n <= Total - arrived
        BY <4>1, <4>2
      <4>4. QED
        BY <1>2, <4>1, <4>2, <4>3
    <3>3. QED
      BY <3>1, <3>2, Zenon
  <2>7. Delivered
    BY <1>3, <2>6, Zenon DEF Read, Delivered
  <2>8. work = "none" => r.cur = arrived'
    <3>1. work = "none" => arrived' = arrived + n /\ req.cur = arrived
      BY <1>3, Zenon DEF Read, IInv, Waiting
    <3>2. r.cur = req.cur + n
      BY <2>1, Zenon DEF ReqType
    <3>3. QED
      BY <3>1, <3>2, Zenon
  <2>9. process(r)
    BY <1>3, Zenon DEF Read
  <2> HIDE DEF r
  <2>10. QED
    BY <2>5, <2>7, <2>8, <2>9, ProcessIInv, Zenon
<1>4. CASE ReadTooMuch \/ ReadEnds \/ WriteFails
  BY <1>1, <1>4, HandleIInv, Zenon DEF ReadTooMuch, ReadEnds, WriteFails
<1>5. CASE Write
  <2>1. out' \in Seq(Replies)
    <3>1. out \in Seq(Replies) /\ rep \in Replies /\ out' = Append(out, rep)
      BY <1>1, <1>5, Zenon DEF Write, TypeOK
    <3>2. QED
      BY <3>1
  <2>2. QED
    BY <1>5, <2>1, HandleIInv, Zenon DEF Write, AfterWrite
<1>6. CASE UNCHANGED vars
  <2>1. TypeOK' /\ Sound(req)'
    BY <1>6, Zenon DEF vars, IInv, TypeOK, Sound
  <2>2. QED
    BY <1>6, <2>1, Zenon DEF vars, IInv, Waiting, HandlerSeesAll, HandlerRunsOnce
<1>7. QED
  BY <1>3, <1>4, <1>5, <1>6, Zenon DEF Next

\* The invariant holds always.
LEMMA SpecIInv == Spec => []IInv
  BY InitIInv, NextIInv, PTL DEF Spec

\* buf_ is never overrun and its sizes keep their types, whatever the sizes of the
\* request and of the reads.
THEOREM TypeCorrect == Spec => []TypeOK
<1>1. IInv => TypeOK
  BY Zenon DEF IInv
<1>2. QED
  BY SpecIInv, <1>1, PTL

\* call_back() runs only when all of the request has been read.
THEOREM HandlerCorrect == Spec => []HandlerSeesAll
<1>1. IInv => HandlerSeesAll
  BY Zenon DEF IInv
<1>2. QED
  BY SpecIInv, <1>1, PTL

\* call_back() runs at most once, for a request with a route within the limit.
THEOREM HandlerOnce == Spec => []HandlerRunsOnce
<1>1. IInv => HandlerRunsOnce
  BY Zenon DEF IInv
<1>2. QED
  BY SpecIInv, <1>1, PTL

-----------------------------------------------------------------------------
\* What a step of handle() does to the output: nothing, or the handshake.
Quiet == out' = out /\ work' # "handle_ws_data" /\ pc' \in {"reading", "writing"}
\* The upgrade of a connection: the handshake is the reply, and frames are read from
\* here on.
Shakes == /\ out' = Append(out, "handshake") /\ work' = "handle_ws_data" /\ pc' = "reading"
          /\ rep' \notin {"close", "nothing"}

\* After the handshake no close frame has gone out, and none is about to be followed.
Shaken ==
    /\ out # <<>> /\ out[1] = "handshake"
    /\ \A i \in 1..Len(out) : out[i] \notin {"close", "nothing"}
    /\ pc # "writing" => work = "handle_ws_data" /\ rep \notin {"close", "nothing"}

\* The inductive invariant of the output: until the connection ends nothing has gone out, or
\* the connection was upgraded.
OutInv ==
    /\ pc # "done" => \/ out = <<>> /\ pc # "writing then reading" /\ work # "handle_ws_data"
                      \/ Shaken
    /\ OneReply

\* The replies of the handlers, before an upgrade.
LEMMA AnswersQuiet ==
    ASSUME pc = "reading", work # "handle_ws_data", NEW r, NEW s,
           Answers(r, s) \/ call_back(r) \/ process_download(r)
    PROVE  Quiet
  BY Zenon DEF Answers, call_back, process_download, Quiet

\* A handler that needs more keeps the output.
LEMMA NeedsReadQuiet ==
    ASSUME pc = "reading", NEW r, NEW w \in {"none", "do_read_multipart"}, NeedsRead(r, w)
    PROVE  Quiet
  BY Zenon DEF NeedsRead, Quiet

\* A request without a body is answered, or shakes hands.
LEMMA HeaderOut ==
    ASSUME pc = "reading", work # "handle_ws_data", NEW r, handle_header_request(r)
    PROVE  Quiet \/ Shakes
<1>1. CASE response_handshake(r)
  BY <1>1, Zenon DEF response_handshake, Shakes
<1>2. CASE ~response_handshake(r)
  BY <1>2, AnswersQuiet, Zenon DEF handle_header_request
<1>3. QED
  BY <1>1, <1>2, Zenon

\* So is every request: only an upgrade writes before handle() does.
LEMMA RequestOut ==
    ASSUME pc = "reading", work # "handle_ws_data", NEW r, handle_request(r)
    PROVE  Quiet \/ Shakes
<1>1. CASE handle_header_request(r)
  BY <1>1, HeaderOut, Zenon
<1>2. CASE handle_string_body(r)
  BY <1>2, AnswersQuiet, NeedsReadQuiet, Zenon DEF handle_string_body, handle_body
<1>3. CASE handle_form_urlencoded(r)
  BY <1>3, AnswersQuiet, Zenon DEF handle_form_urlencoded, handle_url_urlencoded_body
<1>4. CASE handle_multipart(r)
  BY <1>4, AnswersQuiet, NeedsReadQuiet, Zenon DEF handle_multipart
<1>5. QED
  BY <1>1, <1>2, <1>3, <1>4, AnswersQuiet, Zenon DEF handle_request, handle_chunked

\* One call of process() before an upgrade.
LEMMA ProcessOut ==
    ASSUME pc = "reading", work # "handle_ws_data", NEW r, process(r)
    PROVE  Quiet \/ Shakes
<1>1. CASE handle_read(r)
  BY <1>1, AnswersQuiet, NeedsReadQuiet, RequestOut, Zenon DEF handle_read
<1>2. CASE do_read_multipart(r)
  BY <1>2, NeedsReadQuiet, Zenon DEF do_read_multipart
<1>3. QED
  BY <1>1, <1>2, AnswersQuiet, Zenon DEF process

\* One call of process() after it.
LEMMA FramesOut ==
    ASSUME pc = "reading", work = "handle_ws_data", rep \notin {"close", "nothing"}, NEW r, process(r)
    PROVE  /\ out' = out /\ pc' \in {"reading", "writing", "writing then reading"}
           /\ pc' # "writing" => work' = "handle_ws_data" /\ rep' \notin {"close", "nothing"}
<1>1. CASE handle_ws_data(r)
  BY <1>1, Zenon DEF handle_ws_data
<1>2. CASE Answers(r, "toolong")
  BY <1>2, Zenon DEF Answers
<1>3. QED
  BY <1>1, <1>2, Zenon DEF process

\* Reading keeps the invariant of the output.
LEMMA ReadOut ==
    ASSUME IInv, OutInv, pc = "reading", NEW r, process(r)
    PROVE  OutInv'
<1>1. out \in Seq(Replies)
  BY Zenon DEF IInv, TypeOK
<1>2. CASE out = <<>> /\ work # "handle_ws_data"
  <2>1. CASE Quiet
    BY <1>2, <2>1, Zenon DEF Quiet, OutInv, OneReply
  <2>2. CASE Shakes
    <3>1. out' = <<"handshake">>
      BY <1>2, <2>2 DEF Shakes
    <3>2. QED
      BY <2>2, <3>1 DEF Shakes, OutInv, Shaken, OneReply
  <2>3. QED
    BY <1>2, <2>1, <2>2, ProcessOut, Zenon
<1>3. CASE Shaken
  <2>1. work = "handle_ws_data" /\ rep \notin {"close", "nothing"}
    BY <1>3, Zenon DEF Shaken
  <2>2. Shaken'
    BY <1>3, <2>1, FramesOut, Zenon DEF Shaken
  <2>3. QED
    BY <2>2, Zenon DEF OutInv, OneReply, Shaken
<1>4. QED
  BY <1>2, <1>3, Zenon DEF OutInv

\* Writing keeps it: the last of two writes is the last one.
LEMMA WriteOut ==
    ASSUME IInv, OutInv, Write
    PROVE  OutInv'
<1>1. out \in Seq(Replies) /\ rep \in Replies /\ Len(out) \in Nat
  <2>1. out \in Seq(Replies) /\ rep \in Replies
    BY Zenon DEF IInv, TypeOK
  <2>2. QED
    BY <2>1
<1>2. /\ out' \in Seq(Replies) /\ Len(out') = Len(out) + 1 /\ out'[Len(out) + 1] = rep
      /\ \A i \in 1..Len(out) : out'[i] = out[i]
  <2>1. out' = Append(out, rep)
    BY Zenon DEF Write
  <2>2. QED
    BY <1>1, <2>1
<1>3. CASE out = <<>> /\ pc = "writing"
  <2>1. Len(out') = 1
    BY <1>2, <1>3
  <2>2. \A i \in 1..Len(out') : i = Len(out')
    BY <2>1
  <2>3. pc' = "done"
    BY <1>3, Zenon DEF Write, AfterWrite
  <2>4. OneReply'
    BY <2>1, <2>2 DEF OneReply
  <2>5. QED
    BY <2>3, <2>4, Zenon DEF OutInv
<1>4. CASE Shaken
  <2>1. out' # <<>> /\ out'[1] = "handshake" /\ Len(out) >= 1
    BY <1>1, <1>2, <1>4 DEF Shaken
  <2>2. \A i \in 1..Len(out) : out'[i] \notin {"close", "nothing"}
    BY <1>2, <1>4, Zenon DEF Shaken
  <2>3. \A i \in 1..Len(out') : out'[i] \in {"close", "nothing"} => i = Len(out')
    BY <1>1, <1>2, <2>2
  <2>4. OneReply'
    BY <2>1, <2>3, Zenon DEF OneReply
  <2>5. CASE pc = "writing"
    BY <2>4, <2>5, Zenon DEF Write, AfterWrite, OutInv
  <2>6. CASE pc = "writing then reading"
    <3>1. rep \notin {"close", "nothing"} /\ work = "handle_ws_data"
      BY <1>4, <2>6, Zenon DEF Shaken
    <3>2. \A i \in 1..Len(out') : out'[i] \notin {"close", "nothing"}
      BY <1>1, <1>2, <2>2, <3>1
    <3>3. rep' = rep /\ work' = work /\ pc' = "reading"
      BY <2>6, Zenon DEF Write, AfterWrite
    <3>4. Shaken'
      BY <2>1, <3>1, <3>2, <3>3, Zenon DEF Shaken
    <3>5. QED
      BY <2>4, <3>4, Zenon DEF OutInv
  <2>7. QED
    BY <2>5, <2>6, Zenon DEF Write
<1>5. QED
  BY <1>3, <1>4, Zenon DEF OutInv, Write

\* Every step keeps it.
LEMMA NextOut ==
    ASSUME IInv, OutInv, [Next]_vars
    PROVE  OutInv'
<1>1. ASSUME NEW n \in 1..Remaining, Read(n) PROVE OutInv'
  BY <1>1, ReadOut, Zenon DEF Read
<1>2. CASE ReadTooMuch \/ ReadEnds \/ WriteFails
  BY <1>2, Zenon DEF ReadTooMuch, ReadEnds, WriteFails, OutInv, OneReply
<1>3. CASE Write
  BY <1>3, WriteOut, Zenon
<1>4. CASE UNCHANGED vars
  BY <1>4, Zenon DEF vars, OutInv, OneReply, Shaken
<1>5. QED
  BY <1>1, <1>2, <1>3, <1>4, Zenon DEF Next

\* One reply goes out for a request, and nothing behind the close frame of an upgraded
\* connection.
THEOREM RepliesOnce == Spec => []OneReply
<1>1. Init => OutInv
  BY DEF Init, OutInv, OneReply
<1>2. IInv /\ OutInv /\ [Next]_vars => OutInv'
  BY NextOut, Zenon
<1>3. OutInv => OneReply
  BY Zenon DEF OutInv
<1>4. QED
  BY SpecIInv, <1>1, <1>2, <1>3, PTL DEF Spec

-----------------------------------------------------------------------------
(***************************************************************************)
(* The handler of a route runs behind its aspects, for any routes, aspects *)
(* and urls.                                                               *)
(***************************************************************************)

\* A call of user code: its kind, the number of its aspect, and what it returned.
UserCalls == {"before", "handler", "after", "check"} \X Nat \X BOOLEAN

\* The calls that returned true and false, and what they are about.
Yes(what, i) == <<what, i, TRUE>>

\* The call of an aspect or a check that returned false.
No(what, i) == <<what, i, FALSE>>

\* What a call returned.
Said(c) == c[3]

\* Aspect i has a before().
HasBefore(asp, i) == asp[i].before

\* Aspect i has an after().
HasAfter(asp, i) == asp[i].after

\* What such a call is made of.
LEMMA CallIs ==
    ASSUME NEW what \in {"before", "handler", "after"}, NEW i \in Nat
    PROVE  /\ Yes(what, i) \in UserCalls /\ Yes(what, i)[1] = what /\ Yes(what, i)[2] = i /\ Said(Yes(what, i))
           /\ No(what, i) \in UserCalls /\ No(what, i)[1] = what /\ No(what, i)[2] = i
<1>1. Yes(what, i)[1] = what /\ Yes(what, i)[2] = i /\ No(what, i)[1] = what /\ No(what, i)[2] = i
  BY Zenon DEF Yes, No
<1>2. Said(Yes(what, i))
  BY Zenon DEF Yes, Said
<1>3. Yes(what, i) \in UserCalls
  BY Zenon DEF Yes, UserCalls
<1>4. No(what, i) \in UserCalls
  BY Zenon DEF No, UserCalls
<1> QED
  BY <1>1, <1>2, <1>3, <1>4, Zenon

\* GuardedHandler, of what ran for a route with the aspects asp.
Guarded(ran, asp) ==
    \A h \in 1..Len(ran) : ran[h][1] = "handler" =>
        /\ \A k \in 1..Len(ran) : ran[k][1] = "handler" => k = h
        /\ \A i \in 1..Len(asp) : HasBefore(asp, i) =>
              \E k \in 1 .. h - 1 : ran[k] = Yes("before", i)
        /\ \A a \in 1..Len(ran) : ran[a][1] = "after" =>
              /\ a > h
              /\ a - 1 > h => Said(ran[a - 1]) /\ ran[a - 1][2] > ran[a][2]
              /\ \A i \in 1..Len(asp) : HasAfter(asp, i) /\ i > ran[a][2] =>
                    \E k \in h .. a : ran[k] = Yes("after", i)

\* The befores of the aspects below i have passed, and nothing else has run.
Passed(ran, asp, i) ==
    /\ i \in 1 .. Len(asp) + 1
    /\ \A k \in 1..Len(ran) : ran[k][1] = "before" /\ Said(ran[k])
    /\ \A j \in 1..Len(asp) : j < i /\ HasBefore(asp, j) =>
          \E k \in 1..Len(ran) : ran[k] = Yes("before", j)

\* The befores and the handler have run, the handler as number h, and behind it afters, from the
\* last aspect on, none behind one that returned false and none left out.
Behind(ran, asp, h) ==
    /\ h \in 1..Len(ran) /\ ran[h][1] = "handler"
    /\ \A k \in 1 .. h - 1 : ran[k][1] = "before"
    /\ \A j \in 1..Len(asp) : HasBefore(asp, j) => \E k \in 1 .. h - 1 : ran[k] = Yes("before", j)
    /\ \A k \in h + 1 .. Len(ran) : ran[k][1] = "after"
    /\ \A k \in h + 2 .. Len(ran) : ran[k - 1][2] > ran[k][2] /\ Said(ran[k - 1])
    /\ \A a \in h + 1 .. Len(ran) : \A j \in 1..Len(asp) : HasAfter(asp, j) /\ j > ran[a][2] =>
          \E k \in h + 1 .. a : ran[k] = Yes("after", j)

\* The afters that have run are those of the aspects above i, and all returned true.
Ended(ran, asp, i, h) ==
    /\ i \in 0..Len(asp) /\ Behind(ran, asp, h)
    /\ \A k \in h + 1 .. Len(ran) : Said(ran[k]) /\ ran[k][2] > i
    /\ \A j \in 1..Len(asp) : HasAfter(asp, j) /\ j > i =>
          \E k \in h + 1 .. Len(ran) : ran[k] = Yes("after", j)

\* What Append does to the calls.
LEMMA OneMore ==
    ASSUME NEW ran \in Seq(UserCalls), NEW c \in UserCalls
    PROVE  /\ Append(ran, c) \in Seq(UserCalls) /\ Len(Append(ran, c)) = Len(ran) + 1
           /\ Append(ran, c)[Len(ran) + 1] = c
           /\ \A k \in 1..Len(ran) : Append(ran, c)[k] = ran[k]
OBVIOUS

\* What a call is made of.
LEMMA CallParts ==
    ASSUME NEW ran \in Seq(UserCalls), NEW k \in 1..Len(ran)
    PROVE  ran[k][2] \in Nat
<1>1. ran[k] \in UserCalls
  OBVIOUS
<1> QED
  BY <1>1, Zenon DEF UserCalls

\* Nothing is to be shown where no handler has run.
LEMMA PassedGuarded ==
    ASSUME NEW ran, NEW asp, NEW i, Passed(ran, asp, i)
    PROVE  Guarded(ran, asp)
BY Zenon DEF Passed, Guarded

\* do_ap_before.
LEMMA BeforePasses ==
    ASSUME NEW ran \in Seq(UserCalls), NEW asp, Len(asp) \in Nat, NEW i \in 1..Len(asp), Passed(ran, asp, i)
    PROVE  /\ Passed(Append(ran, Yes("before", i)), asp, i + 1)
           /\ Guarded(Append(ran, No("before", i)), asp)
<1>1. Yes("before", i) \in UserCalls /\ No("before", i) \in UserCalls
  BY CallIs
<1>2. Passed(Append(ran, Yes("before", i)), asp, i + 1)
  <2> DEFINE c == Yes("before", i)
             new == Append(ran, c)
  <2>1. /\ Len(new) = Len(ran) + 1 /\ new[Len(ran) + 1] = c
        /\ \A k \in 1..Len(ran) : new[k] = ran[k]
    BY <1>1, OneMore, Zenon
  <2>2. c[1] = "before" /\ Said(c) /\ Len(ran) \in Nat
    BY CallIs
  <2> HIDE DEF new
  <2>3. \A j \in 1..Len(asp) : j < i + 1 /\ HasBefore(asp, j) =>
            \E k \in 1..Len(new) : new[k] = Yes("before", j)
    <3> SUFFICES ASSUME NEW j \in 1..Len(asp), j < i + 1, HasBefore(asp, j)
                 PROVE  \E k \in 1..Len(new) : new[k] = Yes("before", j)
      BY Zenon
    <3>1. CASE j = i
      BY <2>1, <2>2, <3>1
    <3>2. CASE j # i
      <4>1. PICK k \in 1..Len(ran) : ran[k] = Yes("before", j)
        BY <3>2 DEF Passed
      <4> QED
        BY <2>1, <2>2, <4>1
    <3> QED
      BY <3>1, <3>2, Zenon
  <2> HIDE DEF c
  <2>4. \A k \in 1..Len(new) : new[k][1] = "before" /\ Said(new[k])
    BY <2>1, <2>2 DEF Passed
  <2>5. Passed(new, asp, i + 1)
    BY <2>3, <2>4 DEF Passed
  <2> QED
    BY <2>5, Zenon DEF new, c
<1>3. Guarded(Append(ran, No("before", i)), asp)
  <2> DEFINE c == No("before", i)
             new == Append(ran, c)
  <2>1. /\ Len(new) = Len(ran) + 1 /\ new[Len(ran) + 1] = c
        /\ \A k \in 1..Len(ran) : new[k] = ran[k]
    BY <1>1, OneMore, Zenon
  <2>2. c[1] = "before" /\ Len(ran) \in Nat
    BY CallIs
  <2> HIDE DEF new, c
  <2>3. \A k \in 1..Len(new) : new[k][1] = "before"
    BY <2>1, <2>2 DEF Passed
  <2>4. Guarded(new, asp)
    BY <2>3, Zenon DEF Guarded
  <2> QED
    BY <2>4, Zenon DEF new, c
<1> QED
  BY <1>2, <1>3, Zenon

\* has_before: an aspect without a before is passed over.
LEMMA BeforeSkips ==
    ASSUME NEW ran, NEW asp, Len(asp) \in Nat, NEW i \in 1..Len(asp), Passed(ran, asp, i), ~HasBefore(asp, i)
    PROVE  Passed(ran, asp, i + 1)
<1>1. ASSUME NEW j \in 1..Len(asp), j < i + 1, HasBefore(asp, j)
      PROVE  \E k \in 1..Len(ran) : ran[k] = Yes("before", j)
  <2>1. j < i
    BY <1>1
  <2> QED
    BY <1>1, <2>1, Zenon DEF Passed
<1> QED
  BY <1>1 DEF Passed

\* invoke, when every before has passed.
LEMMA HandlerEnds ==
    ASSUME NEW ran \in Seq(UserCalls), NEW asp, Len(asp) \in Nat, NEW i \in Nat, i = Len(asp) + 1, Passed(ran, asp, i)
    PROVE  Ended(Append(ran, Yes("handler", i)), asp, Len(asp), Len(ran) + 1)
<1> DEFINE c == Yes("handler", i)
           new == Append(ran, c)
           h == Len(ran) + 1
<1>1. c \in UserCalls /\ c[1] = "handler" /\ Len(ran) \in Nat
  BY CallIs
<1>2. /\ Len(new) = h /\ new[h] = c
      /\ \A k \in 1..Len(ran) : new[k] = ran[k]
  BY <1>1, OneMore, Zenon
<1> HIDE DEF new, c
<1>3. \A j \in 1..Len(asp) : HasBefore(asp, j) => \E k \in 1 .. h - 1 : new[k] = Yes("before", j)
  <2> SUFFICES ASSUME NEW j \in 1..Len(asp), HasBefore(asp, j)
               PROVE  \E k \in 1 .. h - 1 : new[k] = Yes("before", j)
    BY Zenon
  <2>1. PICK k \in 1..Len(ran) : ran[k] = Yes("before", j)
    BY DEF Passed
  <2> QED
    BY <1>1, <1>2, <2>1
<1>4. h \in 1..Len(new) /\ new[h][1] = "handler" /\ \A k \in 1 .. h - 1 : new[k][1] = "before"
  BY <1>1, <1>2 DEF Passed
<1>5. h + 1 .. Len(new) = {} /\ h + 2 .. Len(new) = {} /\ Len(asp) \in 0..Len(asp)
  BY <1>1, <1>2
<1> HIDE DEF h
<1>6. Behind(new, asp, h)
  BY <1>3, <1>4, <1>5, Zenon DEF Behind
<1>7. Ended(new, asp, Len(asp), h)
  BY <1>5, <1>6 DEF Ended
<1> QED
  BY <1>7, Zenon DEF new, c, h

\* The afters so far.
LEMMA BehindGuarded ==
    ASSUME NEW ran \in Seq(UserCalls), NEW asp, NEW h, Behind(ran, asp, h)
    PROVE  Guarded(ran, asp)
<1>1. h \in 1..Len(ran) /\ Len(ran) \in Nat
  BY DEF Behind
<1>2. \A k \in 1..Len(ran) : k < h => ran[k][1] = "before"
  BY <1>1 DEF Behind
<1>3. \A k \in 1..Len(ran) : k > h => ran[k][1] = "after"
  BY <1>1 DEF Behind
<1>4. ran[h][1] = "handler"
  BY Zenon DEF Behind
<1> SUFFICES ASSUME NEW g \in 1..Len(ran), ran[g][1] = "handler"
             PROVE  /\ \A k \in 1..Len(ran) : ran[k][1] = "handler" => k = g
                    /\ \A j \in 1..Len(asp) : HasBefore(asp, j) =>
                          \E k \in 1 .. g - 1 : ran[k] = Yes("before", j)
                    /\ \A a \in 1..Len(ran) : ran[a][1] = "after" =>
                          /\ a > g
                          /\ a - 1 > g => Said(ran[a - 1]) /\ ran[a - 1][2] > ran[a][2]
                          /\ \A j \in 1..Len(asp) : HasAfter(asp, j) /\ j > ran[a][2] =>
                                \E k \in g .. a : ran[k] = Yes("after", j)
  BY Zenon DEF Guarded
<1>5. g = h /\ \A k \in 1..Len(ran) : ran[k][1] = "handler" => k = h
  BY <1>1, <1>2, <1>3, SMTT(30)
<1>6. \A j \in 1..Len(asp) : HasBefore(asp, j) => \E k \in 1 .. h - 1 : ran[k] = Yes("before", j)
  BY Zenon DEF Behind
<1>7. ASSUME NEW a \in 1..Len(ran), ran[a][1] = "after"
      PROVE  /\ a > h
             /\ a - 1 > h => Said(ran[a - 1]) /\ ran[a - 1][2] > ran[a][2]
             /\ \A j \in 1..Len(asp) : HasAfter(asp, j) /\ j > ran[a][2] =>
                   \E k \in h .. a : ran[k] = Yes("after", j)
  <2>1. a > h
    BY <1>1, <1>2, <1>4, <1>7
  <2>2. a - 1 > h => Said(ran[a - 1]) /\ ran[a - 1][2] > ran[a][2]
    BY <1>1, <2>1 DEF Behind
  <2>3. ASSUME NEW j \in 1..Len(asp), HasAfter(asp, j), j > ran[a][2]
        PROVE  \E k \in h .. a : ran[k] = Yes("after", j)
    <3>1. a \in h + 1 .. Len(ran)
      BY <1>1, <2>1
    <3>2. PICK k \in h + 1 .. a : ran[k] = Yes("after", j)
      BY <2>3, <3>1, Zenon DEF Behind
    <3> QED
      BY <1>1, <3>2
  <2> QED
    BY <2>1, <2>2, <2>3, Zenon
<1> QED
  BY <1>5, <1>6, <1>7, Zenon

\* has_after: an aspect without an after is passed over.
LEMMA AfterSkips ==
    ASSUME NEW ran \in Seq(UserCalls), NEW asp, Len(asp) \in Nat, NEW i \in 1..Len(asp), NEW h,
           Ended(ran, asp, i, h), ~HasAfter(asp, i)
    PROVE  Ended(ran, asp, i - 1, h)
<1>1. i - 1 \in 0..Len(asp) /\ h \in 1..Len(ran)
  BY DEF Ended, Behind
<1>2. \A k \in h + 1 .. Len(ran) : Said(ran[k]) /\ ran[k][2] > i - 1
  <2> SUFFICES ASSUME NEW k \in h + 1 .. Len(ran)
               PROVE  Said(ran[k]) /\ ran[k][2] > i - 1
    BY Zenon
  <2>1. Said(ran[k]) /\ ran[k][2] > i
    BY Zenon DEF Ended
  <2>2. ran[k][2] \in Nat
    BY <1>1, CallParts
  <2> QED
    BY <2>1, <2>2
<1>3. \A j \in 1..Len(asp) : HasAfter(asp, j) /\ j > i - 1 =>
          \E k \in h + 1 .. Len(ran) : ran[k] = Yes("after", j)
  <2> SUFFICES ASSUME NEW j \in 1..Len(asp), HasAfter(asp, j), j > i - 1
               PROVE  \E k \in h + 1 .. Len(ran) : ran[k] = Yes("after", j)
    BY Zenon
  <2>1. j > i
    OBVIOUS
  <2> QED
    BY <2>1, Zenon DEF Ended
<1> QED
  BY <1>1, <1>2, <1>3, Zenon DEF Ended


\* An after that runs next.
LEMMA AfterBehind ==
    ASSUME NEW ran \in Seq(UserCalls), NEW asp, Len(asp) \in Nat, NEW i \in 1..Len(asp), NEW h,
           Ended(ran, asp, i, h), NEW c \in UserCalls, c[1] = "after", c[2] = i
    PROVE  Behind(Append(ran, c), asp, h)
<1> DEFINE new == Append(ran, c)
<1>1. /\ h \in 1..Len(ran) /\ Len(ran) \in Nat /\ ran[h][1] = "handler"
      /\ \A k \in h + 1 .. Len(ran) : ran[k][1] = "after" /\ Said(ran[k]) /\ ran[k][2] > i
      /\ \A k \in h + 2 .. Len(ran) : ran[k - 1][2] > ran[k][2]
  BY DEF Ended, Behind
<1>2. Len(new) = Len(ran) + 1 /\ new[Len(ran) + 1] = c /\ \A k \in 1..Len(ran) : new[k] = ran[k]
  BY OneMore, Zenon
<1> HIDE DEF new
<1>0. h \in 1..Len(ran) /\ Len(ran) \in Nat /\ Len(new) = Len(ran) + 1
  BY <1>1, <1>2, Zenon
<1>3. h \in 1..Len(new) /\ new[h][1] = "handler" /\ \A k \in 1 .. h - 1 : new[k] = ran[k]
  BY <1>1, <1>2
<1>4. \A k \in h + 1 .. Len(ran) : new[k] = ran[k]
  BY <1>1, <1>2
<1>5. \A k \in 1 .. h - 1 : new[k][1] = "before"
  BY <1>3 DEF Ended, Behind
<1>6. ASSUME NEW j \in 1..Len(asp), HasBefore(asp, j)
      PROVE  \E k \in 1 .. h - 1 : new[k] = Yes("before", j)
  <2>1. PICK k \in 1 .. h - 1 : ran[k] = Yes("before", j)
    BY <1>6, Zenon DEF Ended, Behind
  <2> QED
    BY <1>3, <2>1, Zenon
<1>7. ASSUME NEW k \in h + 1 .. Len(new) PROVE new[k][1] = "after"
  <2>1. k = Len(ran) + 1 \/ k \in h + 1 .. Len(ran)
    BY <1>0
  <2> QED
    BY <1>1, <1>2, <1>4, <2>1, Zenon
<1>8. ASSUME NEW k \in h + 2 .. Len(new) PROVE new[k - 1][2] > new[k][2] /\ Said(new[k - 1])
  <2>1. k - 1 \in h + 1 .. Len(ran) /\ (k = Len(ran) + 1 \/ k \in h + 2 .. Len(ran))
    BY <1>0
  <2>2. new[k - 1] = ran[k - 1] /\ Said(ran[k - 1]) /\ ran[k - 1][2] > i
    BY <1>1, <1>4, <2>1, Zenon
  <2>3. CASE k = Len(ran) + 1
    BY <1>2, <2>2, <2>3, Zenon
  <2>4. CASE k \in h + 2 .. Len(ran)
    <3>1. k \in h + 1 .. Len(ran)
      BY <1>0, <2>4
    <3>2. new[k] = ran[k] /\ ran[k - 1][2] > ran[k][2]
      BY <1>1, <1>4, <2>4, <3>1, Zenon
    <3> QED
      BY <2>2, <3>2, Zenon
  <2> QED
    BY <2>1, <2>3, <2>4, Zenon
<1>9. ASSUME NEW a \in h + 1 .. Len(new), NEW j \in 1..Len(asp), HasAfter(asp, j), j > new[a][2]
      PROVE  \E k \in h + 1 .. a : new[k] = Yes("after", j)
  <2>1. CASE a = Len(ran) + 1
    <3>1. j > i
      BY <1>2, <1>9, <2>1, Zenon
    <3>2. PICK k \in h + 1 .. Len(ran) : ran[k] = Yes("after", j)
      BY <1>9, <3>1, Zenon DEF Ended
    <3>3. k \in h + 1 .. a
      BY <1>0, <2>1
    <3> QED
      BY <1>4, <3>2, <3>3, Zenon
  <2>2. CASE a # Len(ran) + 1
    <3>1. a \in h + 1 .. Len(ran)
      BY <1>0, <2>2
    <3>2. j > ran[a][2]
      BY <1>4, <1>9, <3>1, Zenon
    <3>3. PICK k \in h + 1 .. a : ran[k] = Yes("after", j)
      BY <1>9, <3>1, <3>2, Zenon DEF Ended, Behind
    <3>4. k \in h + 1 .. Len(ran)
      BY <1>0, <3>1
    <3> QED
      BY <1>4, <3>3, <3>4, Zenon
  <2> QED
    BY <2>1, <2>2, Zenon
<1>10. Behind(new, asp, h)
  BY <1>3, <1>5, <1>6, <1>7, <1>8, <1>9 DEF Behind
<1> QED
  BY <1>10, Zenon DEF new

\* do_after, which goes on with the aspect before it where the after returned true.
LEMMA AfterEnds ==
    ASSUME NEW ran \in Seq(UserCalls), NEW asp, Len(asp) \in Nat, NEW i \in 1..Len(asp), NEW h,
           Ended(ran, asp, i, h)
    PROVE  /\ Ended(Append(ran, Yes("after", i)), asp, i - 1, h)
           /\ Behind(Append(ran, No("after", i)), asp, h)
<1> DEFINE c == Yes("after", i)
           new == Append(ran, c)
<1>1. c \in UserCalls /\ c[1] = "after" /\ c[2] = i /\ Said(c)
  BY CallIs
<1>2. No("after", i) \in UserCalls /\ No("after", i)[1] = "after" /\ No("after", i)[2] = i
  BY CallIs
<1>3. Behind(Append(ran, No("after", i)), asp, h)
  BY <1>2, AfterBehind, Zenon
<1>4. Behind(new, asp, h)
  BY <1>1, AfterBehind, Zenon
<1>5. Len(new) = Len(ran) + 1 /\ new[Len(ran) + 1] = c /\ \A k \in 1..Len(ran) : new[k] = ran[k]
  BY <1>1, OneMore, Zenon
<1>6. h \in 1..Len(ran) /\ Len(ran) \in Nat
  BY DEF Ended, Behind
<1> HIDE DEF new
<1>7. ASSUME NEW k \in h + 1 .. Len(new) PROVE Said(new[k]) /\ new[k][2] > i - 1
  <2>1. CASE k = Len(ran) + 1
    BY <1>1, <1>5, <2>1
  <2>2. CASE k # Len(ran) + 1
    <3>1. k \in h + 1 .. Len(ran) /\ k \in 1..Len(ran)
      BY <1>5, <1>6, <2>2
    <3>2. Said(ran[k]) /\ ran[k][2] > i
      BY <3>1, Zenon DEF Ended
    <3>3. ran[k][2] \in Nat
      BY <3>1, CallParts, Zenon
    <3> QED
      BY <1>5, <3>1, <3>2, <3>3
  <2> QED
    BY <2>1, <2>2, Zenon
<1>8. ASSUME NEW j \in 1..Len(asp), HasAfter(asp, j), j > i - 1
      PROVE  \E k \in h + 1 .. Len(new) : new[k] = Yes("after", j)
  <2>1. CASE j = i
    BY <1>5, <1>6, <2>1
  <2>2. CASE j # i
    <3>1. PICK k \in h + 1 .. Len(ran) : ran[k] = Yes("after", j)
      BY <1>8, <2>2 DEF Ended
    <3>2. k \in h + 1 .. Len(new) /\ k \in 1..Len(ran)
      BY <1>5, <1>6
    <3> QED
      BY <1>5, <3>1, <3>2, Zenon
  <2> QED
    BY <2>1, <2>2, Zenon
<1>9. Ended(new, asp, i - 1, h)
  <2>1. i - 1 \in 0..Len(asp)
    OBVIOUS
  <2> QED
    BY <1>4, <1>7, <1>8, <2>1, Zenon DEF Ended
<1> QED
  BY <1>3, <1>9, Zenon DEF new

-----------------------------------------------------------------------------
\* A map from urls or patterns to what was registered for them.
RouteTable(t) == t = [x \in DOMAIN t |-> t[x]] /\ \A x \in DOMAIN t : t[x] \in Entries

\* The check of a url is the first that was registered for it.
FirstChecks(checks, asked, regs) ==
    /\ regs \in Nat /\ asked \in [Urls -> Nat]
    /\ checks = [u \in DOMAIN checks |-> checks[u]]
    /\ \A u \in DOMAIN checks : u \in Urls /\ checks[u] = asked[u] /\ checks[u] # 0
    /\ \A u \in Urls : u \notin DOMAIN checks => asked[u] = 0

\* Where the request stands.
Stage(at, i, asp, ran) ==
    /\ asp \in Seq([before : BOOLEAN, after : BOOLEAN]) /\ ran \in Seq(UserCalls) /\ i \in Nat
    /\ \/ at = "idle" /\ ran = <<>>
       \/ at = "before" /\ Passed(ran, asp, i)
       \/ at = "after" /\ \E h \in Nat : Ended(ran, asp, i, h)
       \/ at = "done" /\ Guarded(ran, asp)

\* A WebSocket is admitted only by the check that was registered first for its url.
Admitted(reply, ran, url, asked) ==
    reply = "handshake" => url \in Urls /\ ran = << <<"check", asked[url], TRUE>> >>

\* The record rt, from its fields.
Routing(regex, exact, wild, checks, done, regs, asked, at, i, asp, ran, reply, url) ==
    [regex |-> regex, exact |-> exact, wild |-> wild, checks |-> checks, calls |-> done, regs |-> regs,
     req |-> [at |-> at, i |-> i, aspects |-> asp, ran |-> ran, reply |-> reply, url |-> url],
     asked |-> asked]

\* The inductive invariant of the router, on the fields of rt.
Routed(regex, exact, wild, checks, regs, asked, at, i, asp, ran, reply, url) ==
    /\ regex \in Seq(Patterns \X Entries) /\ RouteTable(exact) /\ RouteTable(wild)
    /\ FirstChecks(checks, asked, regs)
    /\ Stage(at, i, asp, ran)
    /\ reply = "handshake" => at = "done"
    /\ Admitted(reply, ran, url, asked)

\* The inductive invariant of the router.
RTInv ==
    \E regex, exact, wild, checks, done, regs, asked, at, i, asp, ran, reply, url :
        /\ rt = Routing(regex, exact, wild, checks, done, regs, asked, at, i, asp, ran, reply, url)
        /\ Routed(regex, exact, wild, checks, regs, asked, at, i, asp, ran, reply, url)

\* The empty router satisfies the invariant.
LEMMA RTInitially ==
    ASSUME RTInit
    PROVE  RTInv
<1> DEFINE asked == [u \in Urls |-> 0]
<1>1. rt = Routing(<<>>, <<>>, <<>>, <<>>, 0, 0, asked, "idle", 0, <<>>, <<>>, "none", StaticUrl)
  BY Zenon DEF RTInit, Idle, Routing
<1>2. FirstChecks(<<>>, asked, 0)
  BY DEF FirstChecks
<1> HIDE DEF asked
<1>3. Stage("idle", 0, <<>>, <<>>) /\ RouteTable(<<>>) /\ Admitted("none", <<>>, StaticUrl, asked)
  BY DEF Stage, RouteTable, Admitted
<1>4. Routed(<<>>, <<>>, <<>>, <<>>, 0, asked, "idle", 0, <<>>, <<>>, "none", StaticUrl)
  BY <1>2, <1>3 DEF Routed
<1> QED
  BY <1>1, <1>4, Zenon DEF RTInv

\* An entry that is put into a table.
LEMMA WithIs ==
    ASSUME NEW t, RouteTable(t), NEW n, NEW e \in Entries
    PROVE  RouteTable(With(t, n, e))
BY Zenon DEF RouteTable, With

\* An entry that is taken out of a table.
LEMMA WithoutIs ==
    ASSUME NEW t, RouteTable(t), NEW n
    PROVE  RouteTable([x \in DOMAIN t \ {n} |-> t[x]])
BY Zenon DEF RouteTable

\* The entries route finds have aspects.
LEMMA RouteEntries ==
    ASSUME NEW regex \in Seq(Patterns \X Entries), rt.regex = regex, RouteTable(rt.exact), RouteTable(rt.wild),
           NEW method, NEW url
    PROVE  \A e \in route(method, url) : e \in Entries
<1>1. ASSUME NEW u, Known(u) PROVE \A e \in Entry(u) : e \in Entries
  <2>1. CASE Regex(u) = {}
    BY <1>1, <2>1, Zenon DEF Known, Entry, RouteTable
  <2>2. CASE Regex(u) # {}
    <3>1. \A i \in DOMAIN regex : regex[i][2] \in Entries
      OBVIOUS
    <3>2. Regex(u) \subseteq DOMAIN regex
      BY Zenon DEF Regex
    <3> QED
      BY <2>2, <3>1, <3>2, Zenon DEF Entry
  <2> QED
    BY <2>1, <2>2, Zenon
<1>2. ASSUME NEW u PROVE \A e \in get_wildcard_function(u) : e \in Entries
  BY Zenon DEF get_wildcard_function, RouteTable
<1> QED
  BY <1>1, <1>2, Zenon DEF route

\* Registration, between two requests.
LEMMA RTRegisters ==
    ASSUME RTInv,
           \/ \E n \in Urls \cup Parts, e \in Entries : register_handler(n, e)
           \/ \E n \in Patterns, e \in Entries : register_handler_for_regex(n, e)
           \/ \E n \in Urls : remove_handler(n)
           \/ \E u \in WsUrls : regist(u)
    PROVE  RTInv'
<1>1. PICK regex, exact, wild, checks, done, regs, asked, at, i, asp, ran, reply, url :
        /\ rt = Routing(regex, exact, wild, checks, done, regs, asked, at, i, asp, ran, reply, url)
        /\ Routed(regex, exact, wild, checks, regs, asked, at, i, asp, ran, reply, url)
  BY Zenon DEF RTInv
<1>2. ASSUME NEW n \in Urls \cup Parts, NEW e \in Entries, register_handler(n, e) PROVE RTInv'
  <2>1. \/ rt' = Routing(regex, With(exact, n, e), wild, checks, done + 1, regs, asked, at, i, asp, ran, reply, url)
        \/ rt' = Routing(regex, exact, With(wild, n, e), checks, done + 1, regs, asked, at, i, asp, ran, reply, url)
    BY <1>1, <1>2, ZenonT(60) DEF register_handler, Routing
  <2>2. /\ Routed(regex, With(exact, n, e), wild, checks, regs, asked, at, i, asp, ran, reply, url)
        /\ Routed(regex, exact, With(wild, n, e), checks, regs, asked, at, i, asp, ran, reply, url)
    BY <1>1, WithIs, Zenon DEF Routed
  <2> QED
    BY <2>1, <2>2 DEF RTInv
<1>3. ASSUME NEW n \in Patterns, NEW e \in Entries, register_handler_for_regex(n, e) PROVE RTInv'
  <2> DEFINE new == Append(regex, <<n, e>>)
  <2>1. rt' = Routing(new, exact, wild, checks, done + 1, regs, asked, at, i, asp, ran, reply, url)
    BY <1>1, <1>3, Zenon DEF register_handler_for_regex, Routing
  <2>2. new \in Seq(Patterns \X Entries)
    BY <1>1 DEF Routed
  <2> HIDE DEF new
  <2>3. Routed(new, exact, wild, checks, regs, asked, at, i, asp, ran, reply, url)
    BY <1>1, <2>2, Zenon DEF Routed
  <2> QED
    BY <2>1, <2>3 DEF RTInv
<1>4. ASSUME NEW n \in Urls, remove_handler(n) PROVE RTInv'
  <2> DEFINE new == [x \in DOMAIN exact \ {n} |-> exact[x]]
  <2>1. rt' = Routing(regex, new, wild, checks, done + 1, regs, asked, at, i, asp, ran, reply, url)
    BY <1>1, <1>4, Zenon DEF remove_handler, Routing
  <2>2. RouteTable(new)
    BY <1>1, WithoutIs, Zenon DEF Routed
  <2> HIDE DEF new
  <2>3. Routed(regex, new, wild, checks, regs, asked, at, i, asp, ran, reply, url)
    BY <1>1, <2>2, Zenon DEF Routed
  <2> QED
    BY <2>1, <2>3 DEF RTInv
<1>5. ASSUME NEW u \in WsUrls, regist(u) PROVE RTInv'
  <2> DEFINE first == IF asked[u] = 0 THEN regs + 1 ELSE asked[u]
             new == IF u \in DOMAIN checks THEN checks ELSE With(checks, u, regs + 1)
             firsts == [asked EXCEPT ![u] = first]
  <2>1. at = "idle" /\ rt' = Routing(regex, exact, wild, new, done, regs + 1, firsts, at, i, asp, ran, reply, url)
    BY <1>1, <1>5, ZenonT(60) DEF regist, Routing
  <2>2. u \in Urls /\ FirstChecks(checks, asked, regs)
    BY RouterAssumption, <1>1, Zenon DEF Routed
  <2>3. FirstChecks(new, firsts, regs + 1)
    <3>1. regs + 1 \in Nat /\ firsts \in [Urls -> Nat] /\ regs + 1 # 0
      BY <2>2 DEF FirstChecks
    <3>2. CASE u \in DOMAIN checks
      <4>1. firsts = asked /\ new = checks
        BY <2>2, <3>2, Zenon DEF FirstChecks
      <4> QED
        BY <2>2, <3>1, <4>1 DEF FirstChecks
    <3>3. CASE u \notin DOMAIN checks
      <4>1. asked[u] = 0 /\ new = With(checks, u, regs + 1)
        BY <2>2, <3>3, Zenon DEF FirstChecks
      <4>2. /\ DOMAIN new = DOMAIN checks \cup {u} /\ new[u] = regs + 1
            /\ \A v \in DOMAIN checks : new[v] = checks[v]
            /\ new = [v \in DOMAIN new |-> new[v]]
        BY <3>3, <4>1, Zenon DEF With
      <4>3. firsts[u] = regs + 1 /\ \A v \in Urls : v # u => firsts[v] = asked[v]
        BY <2>2, <4>1, Zenon DEF FirstChecks
      <4> HIDE DEF new, firsts
      <4> QED
        BY <2>2, <3>1, <3>3, <4>2, <4>3 DEF FirstChecks
    <3> QED
      BY <3>2, <3>3, Zenon
  <2> HIDE DEF new, firsts
  <2>4. Routed(regex, exact, wild, new, regs + 1, firsts, at, i, asp, ran, reply, url)
    BY <1>1, <2>1, <2>3, Zenon DEF Routed, Admitted
  <2> QED
    BY <2>1, <2>4 DEF RTInv
<1> QED
  BY <1>2, <1>3, <1>4, <1>5, Zenon

\* A request is routed, or an upgrade is decided.
LEMMA RTRoutes ==
    ASSUME RTInv, NEW m \in Letters, NEW u \in Urls,
           Routes(m, u) \/ \E r \in BOOLEAN : ws_connection_check_(m, u, r)
    PROVE  RTInv'
<1>1. PICK regex, exact, wild, checks, done, regs, asked, at, i, asp, ran, reply, url :
        /\ rt = Routing(regex, exact, wild, checks, done, regs, asked, at, i, asp, ran, reply, url)
        /\ Routed(regex, exact, wild, checks, regs, asked, at, i, asp, ran, reply, url)
  BY Zenon DEF RTInv
<1>2. /\ rt.regex = regex /\ rt.exact = exact /\ rt.wild = wild /\ rt.checks = checks /\ rt.asked = asked
      /\ rt.req = [at |-> at, i |-> i, aspects |-> asp, ran |-> ran, reply |-> reply, url |-> url]
      /\ rt.req.at = at /\ rt.req.i = i /\ rt.req.aspects = asp /\ rt.req.ran = ran
  BY <1>1, Zenon DEF Routing
<1>3. /\ regex \in Seq(Patterns \X Entries) /\ RouteTable(exact) /\ RouteTable(wild)
      /\ FirstChecks(checks, asked, regs) /\ Stage(at, i, asp, ran)
  BY <1>1, Zenon DEF Routed
\* What is left to show of a step of the request.
<1>4. ASSUME NEW at2, NEW i2, NEW asp2, NEW ran2, NEW reply2, NEW url2,
             rt' = Routing(regex, exact, wild, checks, done, regs, asked, at2, i2, asp2, ran2, reply2, url2),
             Stage(at2, i2, asp2, ran2), reply2 = "handshake" => at2 = "done",
             Admitted(reply2, ran2, url2, asked)
      PROVE  RTInv'
  <2>1. Routed(regex, exact, wild, checks, regs, asked, at2, i2, asp2, ran2, reply2, url2)
    BY <1>3, <1>4, Zenon DEF Routed
  <2> QED
    BY <1>4, <2>1, Zenon DEF RTInv
<1>5. CASE Routes(m, u)
  <2>1. CASE rt' = [rt EXCEPT !.req = [Idle EXCEPT !.at = "done", !.reply = "notfound"]]
    <3>1. rt' = Routing(regex, exact, wild, checks, done, regs, asked, "done", 0, <<>>, <<>>, "notfound", StaticUrl)
      BY <1>1, <2>1, Zenon DEF Routing, Idle
    <3>2. Stage("done", 0, <<>>, <<>>)
      BY DEF Stage, Guarded
    <3> QED
      BY <1>4, <3>1, <3>2, Zenon DEF Admitted
  <2>2. ASSUME NEW e \in route(m, u),
               rt' = [rt EXCEPT !.req = [Idle EXCEPT !.at = "before", !.i = 1, !.aspects = e.aspects]]
        PROVE  RTInv'
    <3>1. rt' = Routing(regex, exact, wild, checks, done, regs, asked, "before", 1, e.aspects, <<>>, "none", StaticUrl)
      BY <1>1, <2>2, ZenonT(60) DEF Routing, Idle
    <3>2. e \in Entries
      BY <1>2, <1>3, RouteEntries, Zenon
    <3>3. e.aspects \in Seq([before : BOOLEAN, after : BOOLEAN])
      BY RouterAssumption, <3>2, Zenon DEF Entries
    <3>4. Passed(<<>>, e.aspects, 1)
      BY <3>3 DEF Passed
    <3>5. Stage("before", 1, e.aspects, <<>>)
      BY <3>3, <3>4 DEF Stage
    <3>6. Admitted("none", <<>>, StaticUrl, asked)
      BY Zenon DEF Admitted
    <3> QED
      BY <1>4, <3>1, <3>5, <3>6, Zenon
  <2> QED
    BY <1>5, <2>1, <2>2, Zenon DEF Routes
<1>6. ASSUME NEW r \in BOOLEAN, ws_connection_check_(m, u, r) PROVE RTInv'
  <2> DEFINE asks == IF u \in DOMAIN checks THEN << <<"check", checks[u], r>> >> ELSE <<>>
             answer == IF asks # <<>> /\ r THEN "handshake" ELSE "forbidden"
  <2>1. rt' = Routing(regex, exact, wild, checks, done, regs, asked, "done", 0, <<>>, asks, answer, u)
    BY <1>1, <1>2, <1>6, ZenonT(60) DEF Routing, ws_connection_check_, Idle
  <2>2. \A v \in DOMAIN checks : checks[v] \in Nat /\ checks[v] = asked[v]
    BY <1>3, Zenon DEF FirstChecks
  <2>3. asks \in Seq(UserCalls) /\ \A k \in 1..Len(asks) : asks[k][1] = "check"
    <3>1. \A n \in Nat : <<"check", n, r>> \in UserCalls
      BY Zenon DEF UserCalls
    <3>2. \A n \in Nat : <<"check", n, r>>[1] = "check"
      BY Zenon
    <3>3. \A c \in UserCalls : <<c>> \in Seq(UserCalls) /\ Len(<<c>>) = 1 /\ <<c>>[1] = c
      OBVIOUS
    <3> QED
      BY <2>2, <3>1, <3>2, <3>3
  <2>4. Admitted(answer, asks, u, asked)
    BY <2>2, Zenon DEF Admitted
  <2> HIDE DEF asks, answer
  <2>5. Stage("done", 0, <<>>, asks)
    BY <2>3 DEF Stage, Guarded
  <2> QED
    BY <1>4, <2>1, <2>4, <2>5, Zenon
<1> QED
  BY <1>5, <1>6, Zenon

\* A step of a request that was routed.
Handles == (\E r \in BOOLEAN : do_ap_before(r) \/ do_after(r)) \/ invoke \/ Skips \/ Throws \/ Replied

\* A step of a request (aspect, handler, check, end) keeps the invariant.
LEMMA RTRuns ==
    ASSUME RTInv, Handles
    PROVE  RTInv'
<1>1. PICK regex, exact, wild, checks, done, regs, asked, at, i, asp, ran, reply, url :
        /\ rt = Routing(regex, exact, wild, checks, done, regs, asked, at, i, asp, ran, reply, url)
        /\ Routed(regex, exact, wild, checks, regs, asked, at, i, asp, ran, reply, url)
  BY Zenon DEF RTInv
<1>2. /\ rt.regex = regex /\ rt.exact = exact /\ rt.wild = wild /\ rt.checks = checks /\ rt.asked = asked
      /\ rt.req = [at |-> at, i |-> i, aspects |-> asp, ran |-> ran, reply |-> reply, url |-> url]
      /\ rt.req.at = at /\ rt.req.i = i /\ rt.req.aspects = asp /\ rt.req.ran = ran
  BY <1>1, Zenon DEF Routing
<1>3. /\ regex \in Seq(Patterns \X Entries) /\ RouteTable(exact) /\ RouteTable(wild)
      /\ FirstChecks(checks, asked, regs) /\ Stage(at, i, asp, ran)
  BY <1>1, Zenon DEF Routed
\* What is left to show of a step of the request.
<1>4. ASSUME NEW at2, NEW i2, NEW asp2, NEW ran2, NEW reply2, NEW url2,
             rt' = Routing(regex, exact, wild, checks, done, regs, asked, at2, i2, asp2, ran2, reply2, url2),
             Stage(at2, i2, asp2, ran2), reply2 # "handshake"
      PROVE  RTInv'
  <2>1. Routed(regex, exact, wild, checks, regs, asked, at2, i2, asp2, ran2, reply2, url2)
    BY <1>3, <1>4, Zenon DEF Routed, Admitted
  <2> QED
    BY <1>4, <2>1, Zenon DEF RTInv
<1>5. /\ asp \in Seq([before : BOOLEAN, after : BOOLEAN]) /\ Len(asp) \in Nat /\ DOMAIN asp = 1..Len(asp)
      /\ ran \in Seq(UserCalls) /\ i \in Nat
  BY <1>3 DEF Stage
<1>6. /\ at = "before" => Passed(ran, asp, i) /\ i \in 1 .. Len(asp) + 1
      /\ at = "after" => (\E h \in Nat : Ended(ran, asp, i, h)) /\ i \in 0..Len(asp)
      /\ at = "done" => Guarded(ran, asp)
  BY <1>3, Zenon DEF Stage, Passed, Ended
<1>7. ASSUME at # "done" PROVE reply # "handshake"
  BY <1>1, <1>7, Zenon DEF Routed
<1>8. ASSUME at = "before", i <= Len(asp)
      PROVE  i \in 1..Len(asp) /\ Passed(ran, asp, i) /\ reply # "handshake"
  BY <1>5, <1>6, <1>7, <1>8
<1>9. ASSUME do_ap_before(TRUE) PROVE RTInv'
  <2>1. at = "before" /\ i <= Len(asp)
    BY <1>2, <1>9, Zenon DEF do_ap_before
  <2>2. rt' = Routing(regex, exact, wild, checks, done, regs, asked, "before", i + 1, asp, Append(ran, Yes("before", i)), reply, url)
    BY <1>1, <1>9, <2>1, ZenonT(60) DEF Routing, do_ap_before, Ran, Yes
  <2>3. Yes("before", i) \in UserCalls
    BY <1>5, CallIs, Zenon
  <2>4. Append(ran, Yes("before", i)) \in Seq(UserCalls) /\ i + 1 \in Nat
    BY <1>5, <2>3
  <2>5. Stage("before", i + 1, asp, Append(ran, Yes("before", i)))
    BY <1>5, <1>8, <2>1, <2>4, BeforePasses, Zenon DEF Stage
  <2> QED
    BY <1>4, <1>8, <2>1, <2>2, <2>5, Zenon
<1>10. ASSUME do_ap_before(FALSE) PROVE RTInv'
  <2>1. at = "before" /\ i <= Len(asp)
    BY <1>2, <1>10, Zenon DEF do_ap_before
  <2>2. rt' = Routing(regex, exact, wild, checks, done, regs, asked, "done", i + 1, asp, Append(ran, No("before", i)), reply, url)
    BY <1>1, <1>10, <2>1, ZenonT(60) DEF Routing, do_ap_before, Ran, No
  <2>3. No("before", i) \in UserCalls
    BY <1>5, CallIs, Zenon
  <2>4. Append(ran, No("before", i)) \in Seq(UserCalls) /\ i + 1 \in Nat
    BY <1>5, <2>3
  <2>5. Stage("done", i + 1, asp, Append(ran, No("before", i)))
    BY <1>5, <1>8, <2>1, <2>4, BeforePasses, Zenon DEF Stage
  <2> QED
    BY <1>4, <1>8, <2>1, <2>2, <2>5, Zenon
<1>11. CASE invoke
  <2>1. at = "before" /\ i = Len(asp) + 1 /\ Passed(ran, asp, i)
    BY <1>2, <1>5, <1>6, <1>11 DEF invoke
  <2>2. rt' = Routing(regex, exact, wild, checks, done, regs, asked, "after", Len(asp), asp, Append(ran, Yes("handler", i)), "handler", url)
    BY <1>1, <1>11, ZenonT(60) DEF Routing, invoke, Ran, Yes
  <2>3. Yes("handler", i) \in UserCalls
    BY <1>5, CallIs, Zenon
  <2>4. Append(ran, Yes("handler", i)) \in Seq(UserCalls) /\ Len(ran) + 1 \in Nat
    BY <1>5, <2>3
  <2>5. Ended(Append(ran, Yes("handler", i)), asp, Len(asp), Len(ran) + 1)
    BY <1>5, <2>1, HandlerEnds, Zenon
  <2>6. Stage("after", Len(asp), asp, Append(ran, Yes("handler", i)))
    BY <1>5, <2>4, <2>5, Zenon DEF Stage
  <2> QED
    BY <1>4, <2>2, <2>6, Zenon
<1>12. ASSUME at = "after", i > 0
       PROVE  i \in 1..Len(asp) /\ (\E h \in Nat : Ended(ran, asp, i, h)) /\ reply # "handshake"
  BY <1>5, <1>6, <1>7, <1>12
<1>13. ASSUME do_after(TRUE) PROVE RTInv'
  <2>1. at = "after" /\ i > 0
    BY <1>2, <1>13, Zenon DEF do_after
  <2>2. PICK h \in Nat : Ended(ran, asp, i, h)
    BY <1>12, <2>1, Zenon
  <2>3. rt' = Routing(regex, exact, wild, checks, done, regs, asked, "after", i - 1, asp, Append(ran, Yes("after", i)), reply, url)
    BY <1>1, <1>13, <2>1, ZenonT(60) DEF Routing, do_after, Ran, Yes
  <2>4. Yes("after", i) \in UserCalls
    BY <1>5, CallIs, Zenon
  <2>5. Append(ran, Yes("after", i)) \in Seq(UserCalls) /\ i - 1 \in Nat
    BY <1>5, <2>1, <2>4
  <2>6. Ended(Append(ran, Yes("after", i)), asp, i - 1, h)
    BY <1>5, <1>12, <2>1, <2>2, AfterEnds, Zenon
  <2>7. Stage("after", i - 1, asp, Append(ran, Yes("after", i)))
    BY <1>5, <2>5, <2>6, Zenon DEF Stage
  <2> QED
    BY <1>4, <1>12, <2>1, <2>3, <2>7, Zenon
<1>14. ASSUME do_after(FALSE) PROVE RTInv'
  <2>1. at = "after" /\ i > 0
    BY <1>2, <1>14, Zenon DEF do_after
  <2>2. PICK h \in Nat : Ended(ran, asp, i, h)
    BY <1>12, <2>1, Zenon
  <2>3. rt' = Routing(regex, exact, wild, checks, done, regs, asked, "done", i - 1, asp, Append(ran, No("after", i)), reply, url)
    BY <1>1, <1>14, <2>1, ZenonT(60) DEF Routing, do_after, Ran, No
  <2>4. No("after", i) \in UserCalls
    BY <1>5, CallIs, Zenon
  <2>5. Append(ran, No("after", i)) \in Seq(UserCalls) /\ i - 1 \in Nat
    BY <1>5, <2>1, <2>4
  <2>6. Behind(Append(ran, No("after", i)), asp, h)
    BY <1>5, <1>12, <2>1, <2>2, AfterEnds, Zenon
  <2>7. Stage("done", i - 1, asp, Append(ran, No("after", i)))
    BY <1>5, <2>5, <2>6, BehindGuarded, Zenon DEF Stage
  <2> QED
    BY <1>4, <1>12, <2>1, <2>3, <2>7, Zenon
<1>15. CASE Skips
  <2>1. CASE /\ rt.req.at = "before" /\ rt.req.i <= Len(rt.req.aspects)
             /\ ~rt.req.aspects[rt.req.i].before
             /\ rt' = [rt EXCEPT !.req.i = @ + 1]
    <3>1. at = "before" /\ i \in 1..Len(asp) /\ ~HasBefore(asp, i) /\ Passed(ran, asp, i) /\ reply # "handshake"
      BY <1>2, <1>5, <1>6, <1>7, <2>1 DEF HasBefore
    <3>2. rt' = Routing(regex, exact, wild, checks, done, regs, asked, "before", i + 1, asp, ran, reply, url)
      BY <1>1, <1>2, <2>1, <3>1 DEF Routing
    <3>3. Passed(ran, asp, i + 1)
      BY <1>5, <3>1, BeforeSkips, Zenon
    <3>4. Stage("before", i + 1, asp, ran)
      BY <1>5, <3>3 DEF Stage
    <3> QED
      BY <1>4, <3>1, <3>2, <3>4, Zenon
  <2>2. CASE /\ rt.req.at = "after" /\ rt.req.i > 0
             /\ ~rt.req.aspects[rt.req.i].after
             /\ rt' = [rt EXCEPT !.req.i = @ - 1]
    <3>1. at = "after" /\ i \in 1..Len(asp) /\ ~HasAfter(asp, i) /\ reply # "handshake"
      BY <1>2, <1>5, <1>6, <1>7, <2>2 DEF HasAfter
    <3>2. rt' = Routing(regex, exact, wild, checks, done, regs, asked, "after", i - 1, asp, ran, reply, url)
      BY <1>1, <1>2, <2>2, <3>1 DEF Routing
    <3>3. PICK h \in Nat : Ended(ran, asp, i, h)
      BY <1>6, <3>1, Zenon
    <3>4. Ended(ran, asp, i - 1, h) /\ i - 1 \in Nat
      BY <1>5, <3>1, <3>3, AfterSkips
    <3>5. Stage("after", i - 1, asp, ran)
      BY <1>5, <3>4, Zenon DEF Stage
    <3> QED
      BY <1>4, <3>1, <3>2, <3>5, Zenon
  <2> QED
    BY <1>15, <2>1, <2>2, Zenon DEF Skips
<1>16. CASE Throws
  <2>1. at \in {"before", "after"}
    BY <1>2, <1>16, Zenon DEF Throws
  <2>2. rt' = Routing(regex, exact, wild, checks, done, regs, asked, "done", i, asp, ran, "error", url)
    BY <1>1, <1>2, <1>16, Zenon DEF Routing, Throws
  <2>3. \A h \in Nat : Ended(ran, asp, i, h) => Guarded(ran, asp)
    BY <1>5, BehindGuarded, Zenon DEF Ended
  <2>4. Guarded(ran, asp)
    BY <1>6, <2>1, <2>3, PassedGuarded, Zenon
  <2>5. Stage("done", i, asp, ran)
    BY <1>5, <2>4, Zenon DEF Stage
  <2> QED
    BY <1>4, <2>2, <2>5, Zenon
<1>17. CASE Replied
  <2>1. rt' = Routing(regex, exact, wild, checks, done, regs, asked, "idle", 0, <<>>, <<>>, "none", StaticUrl)
    BY <1>1, <1>17, Zenon DEF Routing, Replied, Idle
  <2>2. Stage("idle", 0, <<>>, <<>>)
    BY DEF Stage
  <2> QED
    BY <1>4, <2>1, <2>2, Zenon
<1>18. \A r \in BOOLEAN : do_ap_before(r) \/ do_after(r) => RTInv'
  BY <1>9, <1>10, <1>13, <1>14, Zenon
<1> QED
  BY <1>11, <1>15, <1>16, <1>17, <1>18, Zenon DEF Handles

(* The handler of a route runs at most once and only behind every before of the route, each of *)
(* which returned true; the afters run only behind it, from the last aspect to the first, none *)
(* behind one that returned false; and an upgrade is admitted only by the check that was first *)
(* registered for its url: for any tables, any lists of aspects and any answers of the user    *)
(* code.                                                                                       *)
THEOREM HandlerIsGuarded == RTSpec => []GuardedHandler
<1>1. RTInit => RTInv
  BY RTInitially, Zenon
<1>2. RTInv /\ [RTNext]_rtVars => RTInv'
  <2> SUFFICES ASSUME RTInv, [RTNext]_rtVars PROVE RTInv'
    BY Zenon
  <2>1. CASE RTNext
    <3>1. CASE \E m \in Letters, u \in Urls : Routes(m, u) \/ \E r \in BOOLEAN : ws_connection_check_(m, u, r)
      BY <3>1, RTRoutes, Zenon
    <3>2. CASE Handles
      BY <3>2, RTRuns, Zenon
    <3> QED
      BY <2>1, <3>1, <3>2, RTRegisters, Zenon DEF RTNext, Handles
  <2>2. CASE UNCHANGED rtVars
    BY <2>2 DEF rtVars, RTInv
  <2> QED
    BY <2>1, <2>2, Zenon
<1>3. RTInv => GuardedHandler
  <2> SUFFICES ASSUME RTInv PROVE GuardedHandler
    BY Zenon
  <2>1. PICK regex, exact, wild, checks, done, regs, asked, at, i, asp, ran, reply, url :
          /\ rt = Routing(regex, exact, wild, checks, done, regs, asked, at, i, asp, ran, reply, url)
          /\ Routed(regex, exact, wild, checks, regs, asked, at, i, asp, ran, reply, url)
    BY Zenon DEF RTInv
  <2>2. /\ rt.req.ran = ran /\ rt.req.aspects = asp /\ rt.req.reply = reply /\ rt.req.url = url
        /\ rt.asked = asked
    BY <2>1, Zenon DEF Routing
  <2>3. Stage(at, i, asp, ran) /\ Admitted(reply, ran, url, asked)
    BY <2>1, Zenon DEF Routed
  <2>4. DOMAIN ran = 1..Len(ran) /\ DOMAIN asp = 1..Len(asp)
    BY <2>3 DEF Stage
  <2>5. Guarded(ran, asp)
    <3>1. CASE ran = <<>>
      BY <3>1 DEF Guarded
    <3> QED
      BY <2>3, <3>1, PassedGuarded, BehindGuarded, Zenon DEF Stage, Ended
  <2>6. \A h \in Calls("handler") :
            /\ Calls("handler") = {h}
            /\ \A j \in DOMAIN asp : asp[j].before => \E k \in 1 .. h - 1 : ran[k] = <<"before", j, TRUE>>
            /\ \A a \in Calls("after") :
                  /\ a > h
                  /\ a - 1 > h => ran[a - 1][3] /\ ran[a - 1][2] > ran[a][2]
                  /\ \A j \in DOMAIN asp : asp[j].after /\ j > ran[a][2] =>
                        \E k \in h .. a : ran[k] = <<"after", j, TRUE>>
    <3> SUFFICES ASSUME NEW h \in Calls("handler")
                 PROVE  /\ Calls("handler") = {h}
                        /\ \A j \in DOMAIN asp : asp[j].before => \E k \in 1 .. h - 1 : ran[k] = <<"before", j, TRUE>>
                        /\ \A a \in Calls("after") :
                              /\ a > h
                              /\ a - 1 > h => ran[a - 1][3] /\ ran[a - 1][2] > ran[a][2]
                              /\ \A j \in DOMAIN asp : asp[j].after /\ j > ran[a][2] =>
                                    \E k \in h .. a : ran[k] = <<"after", j, TRUE>>
      BY Zenon
    <3>1. \A w : Calls(w) = {k \in 1..Len(ran) : ran[k][1] = w}
      BY <2>2, <2>4, Zenon DEF Calls
    <3>2. h \in 1..Len(ran) /\ ran[h][1] = "handler"
      BY <3>1, Zenon
    <3>3. Calls("handler") = {h}
      BY <2>5, <3>1, <3>2, Zenon DEF Guarded
    <3>4. \A j \in DOMAIN asp : asp[j].before => \E k \in 1 .. h - 1 : ran[k] = <<"before", j, TRUE>>
      BY <2>4, <2>5, <3>2, Zenon DEF Guarded, HasBefore, Yes
    <3>5. ASSUME NEW a \in Calls("after")
          PROVE  /\ a > h
                 /\ a - 1 > h => ran[a - 1][3] /\ ran[a - 1][2] > ran[a][2]
                 /\ \A j \in DOMAIN asp : asp[j].after /\ j > ran[a][2] =>
                       \E k \in h .. a : ran[k] = <<"after", j, TRUE>>
      <4>1. a \in 1..Len(ran) /\ ran[a][1] = "after"
        BY <3>1, Zenon
      <4>2. a > h
        BY <2>5, <3>2, <4>1, Zenon DEF Guarded
      <4>3. a - 1 > h => ran[a - 1][3] /\ ran[a - 1][2] > ran[a][2]
        BY <2>5, <3>2, <4>1, Zenon DEF Guarded, Said
      <4>4. \A j \in DOMAIN asp : asp[j].after /\ j > ran[a][2] =>
                \E k \in h .. a : ran[k] = <<"after", j, TRUE>>
        BY <2>4, <2>5, <3>2, <4>1, Zenon DEF Guarded, HasAfter, Yes
      <4> QED
        BY <4>2, <4>3, <4>4, Zenon
    <3> QED
      BY <3>3, <3>4, <3>5, Zenon
  <2> QED
    BY <2>2, <2>3, <2>6, Zenon DEF GuardedHandler, Admitted
<1> QED
  BY <1>1, <1>2, <1>3, PTL DEF RTSpec

=============================================================================
