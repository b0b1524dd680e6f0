--------------------------------- MODULE Sha1 ---------------------------------
(***************************************************************************)
(* The digest of sha1.hpp, which the handshake of a WebSocket needs: bytes *)
(* are collected into blocks of 64, and each block is mixed into the       *)
(* digest.  A 32-bit word is the pair of its halves.                       *)
(***************************************************************************)
EXTENDS Integers, Sequences, SequencesExt, Bitwise

Half == 65536

Plus2(a, b) ==
    LET lo == a[2] + b[2]
    IN  <<(a[1] + b[1] + lo \div Half) % Half, lo % Half>>

AddAll(ws) == FoldLeft(Plus2, <<0, 0>>, ws)

XorW(a, b)  == <<a[1] ^^ b[1], a[2] ^^ b[2]>>
AndW(a, b) == <<a[1] & b[1], a[2] & b[2]>>
OrW(a, b)  == <<a[1] | b[1], a[2] | b[2]>>

\* bits below 16: the halves of the word move over each other.
rol(a, bits) ==
    LET n == bits % 16
        h == IF bits < 16 THEN a[1] ELSE a[2]
        l == IF bits < 16 THEN a[2] ELSE a[1]
        p == 2^n
        q == 2^(16 - n)
    IN  <<((h % q) * p) + l \div q, ((l % q) * p) + h \div q>>

\* The block is a ring of 16 words, numbered from 0.
blk(block, i) ==
    rol(XorW(XorW(block[(i + 13) % 16], block[(i + 8) % 16]), XorW(block[(i + 2) % 16], block[i])), 1)

\* The function and the constant of each kind of round.
Mix(kind, w, x, y) ==
    CASE kind \in {"R0", "R1"} -> XorW(AndW(w, XorW(x, y)), y)
      [] kind \in {"R2", "R4"} -> XorW(w, XorW(x, y))
      [] kind = "R3" -> OrW(AndW(OrW(w, x), y), AndW(w, x))

Constant(kind) ==
    CASE kind \in {"R0", "R1"} -> <<23170, 31129>>   \* 5a82 7999
      [] kind = "R2" -> <<28377, 60321>>             \* 6ed9 eba1
      [] kind = "R3" -> <<36635, 48348>>             \* 8f1b bcdc
      [] kind = "R4" -> <<51810, 49622>>             \* ca62 c1d6

\* Which round is the t-th of transform, from 0.
Kind(t) == IF t < 16 THEN "R0" ELSE IF t < 20 THEN "R1" ELSE IF t < 40 THEN "R2"
           ELSE IF t < 60 THEN "R3" ELSE "R4"

\* One round: s has the block and the words v, w, x, y, z, whose roles turn by one place
\* for the next round.
Round(s, t) ==
    LET i     == t % 16
        kind  == Kind(t)
        block == IF kind = "R0" THEN s.block ELSE [s.block EXCEPT ![i] = blk(s.block, i)]
        v == s.v[1]
        w == s.v[2]
        z == AddAll(<<s.v[5], Mix(kind, w, s.v[3], s.v[4]), block[i], Constant(kind), rol(v, 5)>>)
    IN  [block |-> block, v |-> <<z, v, rol(w, 30), s.v[3], s.v[4]>>]

\* Rounds t, t + 1, ... up to (and without) end, the words of each before the next.
RECURSIVE Rounds(_, _, _)
Rounds(s, t, end) ==
    LET r == Round(s, t) IN IF t + 1 < end /\ r.v # <<>> THEN Rounds(r, t + 1, end) ELSE r

\* The rounds from 20 * k on, twenty at a time.
RECURSIVE Score(_, _)
Score(s, k) ==
    LET r == Rounds(s, 20 * k, 20 * (k + 1)) IN IF k < 3 /\ r.v # <<>> THEN Score(r, k + 1) ELSE r

transform(digest, block) ==
    LET s == Score([block |-> block, v |-> digest], 0)
    IN  [k \in 1..5 |-> Plus2(digest[k], s.v[k])]

make_block(p) ==
    [i \in 0..15 |-> <<p[4 * i + 1] * 256 + p[4 * i + 2], p[4 * i + 3] * 256 + p[4 * i + 4]>>]

\* buf is the part of the context's buffer that buflen covers.
init ==
    [buf |-> <<>>, blocks |-> 0,
     digest |-> <<<<26437, 8961>>, <<61389, 43913>>, <<39098, 56574>>, <<4146, 21622>>, <<50130, 57840>>>>]

\* Mutant: a full block is mixed in, and its bytes stay in the buffer.
keeps_block(ctx) ==
    [ctx EXCEPT !.digest = transform(@, make_block(ctx.buf)), !.blocks = @ + 1, !.buf = SubSeq(@, 64, 64)]

FullBlock(ctx) ==
    [ctx EXCEPT !.digest = transform(@, make_block(ctx.buf)), !.blocks = @ + 1, !.buf = <<>>]

RECURSIVE update(_, _)
update(ctx, message) ==
    LET room == 64 - Len(ctx.buf)
        n    == IF Len(message) < room THEN Len(message) ELSE room
        c    == [ctx EXCEPT !.buf = @ \o SubSeq(message, 1, n)]
    IN  IF Len(c.buf) # 64 THEN c
        ELSE update(FullBlock(c), SubSeq(message, n + 1, Len(message)))

\* The padding, one block more if the length does not fit, and the length in bits.
finish(ctx) ==
    LET bits   == (ctx.blocks * 64 + Len(ctx.buf)) * 8
        used   == Len(ctx.buf) + 1
        padded == make_block(ctx.buf \o <<128>> \o [i \in 1..64 - used |-> 0])
        more   == used > 64 - 8
        block  == IF more THEN [i \in 0..15 |-> <<0, 0>>] ELSE padded
        last   == [block EXCEPT ![15] = <<bits \div Half, bits % Half>>, ![14] = <<0, 0>>]
    IN  FoldLeft(transform, ctx.digest, IF more THEN <<padded, last>> ELSE <<last>>)
=============================================================================
