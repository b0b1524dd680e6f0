-------------------------- MODULE ContainerProofs ---------------------------
(***************************************************************************)
(* The array queue, the cache and the byte buffer, for any keys, shards,   *)
(* sizes and durations.                                                    *)
(***************************************************************************)
EXTENDS ArrayQueue, FastCache, ByteBuffer, TLAPS

-----------------------------------------------------------------------------
(***************************************************************************)
(* lockFreeQueue, with the one writer w and the one reader r.              *)
(***************************************************************************)

\* One writer and one reader share a ring of at least one slot.
OnePair(w, r) == w # r /\ Writers = {w} /\ Readers = {r} /\ Slots \in Nat \ {0}

\* Where a writer is in queue(), and a reader in deque().
QueuePcs == {"outside", "refused", "wrap", "take", "fill", "publish"}
DequePcs == {"outside", "refused", "wrap", "take", "read", "release"}

\* Whether a thread is in one of some places, as a number.
Is(t, pcs) == IF at[t].pc \in pcs THEN 1 ELSE 0

\* The types of the variables; the writer is only ever in queue() and the reader in
\* deque().
AQTypeOK(w, r) ==
    /\ q \in [0..Slots - 1 -> Nat]
    /\ at \in [{w, r} -> [pc : QueuePcs \cup DequePcs, pos : 0..Slots - 1, node : Nat]]
    /\ at[w].pc \in QueuePcs /\ at[r].pc \in DequePcs
    /\ head \in 0..Slots /\ qtail \in 0..Slots
    /\ readableCnt \in Int /\ writeableCnt \in Int
    /\ accepted \in Nat /\ received \in Seq(Nat)

\* The two counters: the nodes published and not claimed, the places free and not claimed.
Accounted(w, r) ==
    /\ readableCnt = accepted - Is(w, {"fill", "publish"}) - Len(received)
                       - Is(r, {"refused", "wrap", "take", "read"})
    /\ writeableCnt = Slots - accepted - Is(w, {"refused", "wrap", "take"})
                       + Len(received) - Is(r, {"release"})
    /\ Len(received) + Is(r, {"wrap", "take", "read"}) <= accepted - Is(w, {"fill", "publish"})
    /\ accepted + Is(w, {"wrap", "take"}) <= Slots + Len(received) - Is(r, {"release"})

\* The slot of node n, counted back from the one the writer takes next.
SlotOf(n, last, next) == IF next - 1 - (last - n) >= 0 THEN next - 1 - (last - n)
                         ELSE next - 1 - (last - n) + Slots

\* Where the two ends are: the reader is as many slots behind the writer as there are nodes
\* that it has not taken.
Placed(w, r) ==
    /\ head - qtail + accepted - Len(received) - Is(r, {"read"}) \in {-Slots, 0, Slots}
    /\ at[w].pc = "take" => qtail < Slots
    /\ at[r].pc = "take" => head < Slots
    /\ at[w].pc = "fill" => /\ at[w].node = accepted
                            /\ at[w].pos = SlotOf(accepted, accepted, qtail)
    /\ at[r].pc = "read" => at[r].pos = SlotOf(Len(received) + 1, accepted, qtail)

\* Every node that was accepted and not returned is in its slot, but for one that the writer
\* is about to put there.
Stored(w, r) ==
    \A n \in Len(received) + 1..accepted :
        (n = accepted /\ at[w].pc = "fill") \/ q[SlotOf(n, accepted, qtail)] = n

\* What was received is 1, 2, 3, ... in the order it was accepted.
InOrder == \A i \in 1..Len(received) : received[i] = i

\* The inductive invariant of the ring.
AQInv(w, r) == AQTypeOK(w, r) /\ Accounted(w, r) /\ Placed(w, r) /\ Stored(w, r) /\ InOrder

\* Thread a has gone from one place to another, and b has not moved.
Moved(a, b, from, to) ==
    /\ at[a].pc = from /\ at'[a].pc = to /\ at'[b] = at[b]
    /\ at'[a].pos = at[a].pos /\ at'[a].node = at[a].node
    /\ at' \in [{a, b} -> [pc : QueuePcs \cup DequePcs, pos : 0..Slots - 1, node : Nat]]

\* A step of the writer moves the other thread nowhere.
LEMMA WriterGoes ==
    ASSUME NEW w, NEW r, w # r, AQTypeOK(w, r), NEW from, NEW to \in QueuePcs, Goes(w, from, to)
    PROVE  Moved(w, r, from, to)
BY Zenon DEF Goes, AQTypeOK, Moved

\* A step of the reader moves the other thread nowhere.
LEMMA ReaderGoes ==
    ASSUME NEW w, NEW r, w # r, AQTypeOK(w, r), NEW from, NEW to \in DequePcs, Goes(r, from, to)
    PROVE  Moved(r, w, from, to)
BY Zenon DEF Goes, AQTypeOK, Moved

\* A slot is one of the array; the writer that starts again at 0 leaves every node where
\* it is, and no two of the last Slots nodes share one.
LEMMA SlotFacts ==
    ASSUME Slots \in Nat \ {0}, NEW next \in 0..Slots, NEW last \in Nat, NEW n \in Nat,
           n <= last, last - n < Slots
    PROVE  /\ SlotOf(n, last, next) \in 0..Slots - 1
           /\ SlotOf(n, last, next) = SlotOf(n, last, wrapped(next))
           /\ SlotOf(n, last + 1, next + 1) = SlotOf(n, last, next)
           /\ \A m \in Nat : m <= last /\ last - m < Slots
                               /\ SlotOf(m, last, next) = SlotOf(n, last, next) => m = n
<1>1. SlotOf(n, last, next) \in 0..Slots - 1
  BY DEF SlotOf
<1>2. SlotOf(n, last, next) = SlotOf(n, last, wrapped(next))
  BY DEF SlotOf, wrapped
<1>3. SlotOf(n, last + 1, next + 1) = SlotOf(n, last, next)
  BY DEF SlotOf
<1>4. ASSUME NEW m \in Nat, m <= last, last - m < Slots, SlotOf(m, last, next) = SlotOf(n, last, next)
      PROVE  m = n
  BY <1>4 DEF SlotOf
<1> QED
  BY <1>1, <1>2, <1>3, <1>4, Zenon

\* A position inside the array is its own remainder.
LEMMA Inside == ASSUME Slots \in Nat \ {0}, NEW p \in 0..Slots - 1 PROVE p % Slots = p
  OBVIOUS

\* The nodes that are somewhere in the array are no more than its slots.
LEMMA FewNodes ==
    ASSUME NEW w, NEW r, OnePair(w, r), AQInv(w, r), NEW n \in Len(received) + 1..accepted
    PROVE  n \in Nat /\ n <= accepted /\ accepted - n < Slots /\ Len(received) \in Nat
<1>1. accepted \in Nat /\ Len(received) \in Nat /\ Slots \in Nat
  BY DEF AQInv, AQTypeOK, OnePair
<1>2. accepted <= Slots + Len(received)
  <2>1. Is(w, {"wrap", "take"}) \in {0, 1} /\ Is(r, {"release"}) \in {0, 1}
    BY Zenon DEF Is
  <2> QED
    BY <1>1, <2>1 DEF AQInv, Accounted
<1> QED
  BY <1>1, <1>2

\* A step of the writer that touches only a counter.
LEMMA WriterCounts ==
    ASSUME NEW w, NEW r, OnePair(w, r), AQInv(w, r), NEW from, NEW to \in QueuePcs,
           from # "fill", to \notin {"take", "fill"}, Goes(w, from, to),
           UNCHANGED <<q, head, qtail, accepted, received>>,
           readableCnt' \in Int, writeableCnt' \in Int, Accounted(w, r)'
    PROVE  AQInv(w, r)'
<1>1. AQTypeOK(w, r) /\ w # r
  BY Zenon DEF AQInv, OnePair
<1>2. /\ at[w].pc # "fill" /\ at'[w].pc = to /\ at'[r] = at[r]
      /\ at' \in [{w, r} -> [pc : QueuePcs \cup DequePcs, pos : 0..Slots - 1, node : Nat]]
  <2>1. Moved(w, r, from, to)
    BY <1>1, WriterGoes, Zenon
  <2> QED
    BY <2>1, Zenon DEF Moved
<1>3. AQTypeOK(w, r)'
  BY <1>1, <1>2, Zenon DEF AQTypeOK
<1>4. Placed(w, r)'
  BY <1>2, Zenon DEF AQInv, Placed, Is, SlotOf
<1>5. Stored(w, r)' /\ InOrder'
  BY <1>2, Zenon DEF AQInv, Stored, SlotOf, InOrder
<1> QED
  BY <1>3, <1>4, <1>5, Zenon DEF AQInv

\* queue(): a place is claimed, or found missing and given back.
LEMMA QueueClaims ==
    ASSUME NEW w, NEW r, OnePair(w, r), AQInv(w, r),
           queue_claim(w) \/ queue_refused(w) \/ queue_publish(w)
    PROVE  AQInv(w, r)'
<1>1. AQTypeOK(w, r) /\ Accounted(w, r) /\ w # r /\ Slots \in Nat
  BY Zenon DEF AQInv, OnePair
<1>2. accepted \in Nat /\ Len(received) \in Nat /\ readableCnt \in Int /\ writeableCnt \in Int
  BY <1>1 DEF AQTypeOK
<1>3. UNCHANGED <<q, head, qtail, accepted, received>>
  BY Zenon DEF queue_claim, queue_refused, queue_publish
<1>4. CASE queue_claim(w)
  <2> DEFINE to == IF writeableCnt <= 0 THEN "refused" ELSE "wrap"
  <2>1. /\ Goes(w, "outside", to) /\ to \in QueuePcs /\ to \notin {"take", "fill"}
        /\ writeableCnt' = writeableCnt - 1 /\ UNCHANGED readableCnt
    BY <1>4, Zenon DEF queue_claim, QueuePcs
  <2>2. at[w].pc = "outside" /\ at'[w].pc = to /\ at'[r] = at[r]
    <3> HIDE DEF to
    <3>1. Moved(w, r, "outside", to)
      BY <1>1, <2>1, WriterGoes, Zenon
    <3> QED
      BY <3>1, Zenon DEF Moved
  <2>3. Accounted(w, r)'
    BY <1>1, <1>2, <1>3, <2>1, <2>2, SMTT(30) DEF Accounted, Is
  <2> HIDE DEF to
  <2> QED
    BY <1>2, <1>3, <2>1, <2>3, WriterCounts
<1>5. CASE queue_refused(w)
  <2>1. Goes(w, "refused", "outside") /\ writeableCnt' = writeableCnt + 1 /\ UNCHANGED readableCnt
        /\ "outside" \in QueuePcs
    BY <1>5, Zenon DEF queue_refused, QueuePcs
  <2>2. at[w].pc = "refused" /\ at'[w].pc = "outside" /\ at'[r] = at[r]
    <3>1. Moved(w, r, "refused", "outside")
      BY <1>1, <2>1, WriterGoes, Zenon
    <3> QED
      BY <3>1, Zenon DEF Moved
  <2>3. Accounted(w, r)'
    BY <1>1, <1>2, <1>3, <2>1, <2>2 DEF Accounted, Is
  <2> QED
    BY <1>2, <1>3, <2>1, <2>3, WriterCounts
<1>6. CASE queue_publish(w)
  <2>1. Goes(w, "publish", "outside") /\ readableCnt' = readableCnt + 1 /\ UNCHANGED writeableCnt
        /\ "outside" \in QueuePcs
    BY <1>6, Zenon DEF queue_publish, QueuePcs
  <2>2. at[w].pc = "publish" /\ at'[w].pc = "outside" /\ at'[r] = at[r]
    <3>1. Moved(w, r, "publish", "outside")
      BY <1>1, <2>1, WriterGoes, Zenon
    <3> QED
      BY <3>1, Zenon DEF Moved
  <2>3. Accounted(w, r)'
    BY <1>1, <1>2, <1>3, <2>1, <2>2 DEF Accounted, Is
  <2> QED
    BY <1>2, <1>3, <2>1, <2>3, WriterCounts
<1> QED
  BY <1>4, <1>5, <1>6, Zenon

\* queue(): the tail starts again at 0 when it has passed the last slot.
LEMMA QueueWraps ==
    ASSUME NEW w, NEW r, OnePair(w, r), AQInv(w, r), queue_wrap(w)
    PROVE  AQInv(w, r)'
<1>1. AQTypeOK(w, r) /\ Accounted(w, r) /\ Placed(w, r) /\ Stored(w, r) /\ w # r /\ Slots \in Nat \ {0}
  BY Zenon DEF AQInv, OnePair
<1>2. /\ accepted \in Nat /\ Len(received) \in Nat /\ readableCnt \in Int /\ writeableCnt \in Int
      /\ qtail \in 0..Slots /\ head \in 0..Slots
  BY <1>1 DEF AQTypeOK
<1>3. /\ Goes(w, "wrap", "take") /\ qtail' = wrapped(qtail) /\ "take" \in QueuePcs
      /\ UNCHANGED <<q, head, readableCnt, writeableCnt, accepted, received>>
  BY Zenon DEF queue_wrap, QueuePcs
<1>4. /\ at[w].pc = "wrap" /\ at'[w].pc = "take" /\ at'[r] = at[r]
      /\ at' \in [{w, r} -> [pc : QueuePcs \cup DequePcs, pos : 0..Slots - 1, node : Nat]]
  <2>1. Moved(w, r, "wrap", "take")
    BY <1>1, <1>3, WriterGoes, Zenon
  <2> QED
    BY <2>1, Zenon DEF Moved
<1>5. qtail' \in 0..Slots /\ qtail' < Slots
  BY <1>1, <1>2, <1>3 DEF wrapped
<1>6. AQTypeOK(w, r)'
  BY <1>1, <1>3, <1>4, <1>5, Zenon DEF AQTypeOK
<1>7. Accounted(w, r)'
  BY <1>1, <1>3, <1>4, Zenon DEF Accounted, Is
<1>8. \A n \in Len(received) + 1..accepted : SlotOf(n, accepted, qtail') = SlotOf(n, accepted, qtail)
  BY <1>1, <1>2, <1>3, FewNodes, SlotFacts, Zenon
<1>9. Placed(w, r)'
  <2>1. Is(r, {"read"})' = Is(r, {"read"}) /\ Is(r, {"read"}) \in {0, 1}
        /\ Is(r, {"release"}) \in {0, 1}
    BY <1>4, Zenon DEF Is
  <2>2. Len(received) + Is(r, {"read"}) <= accepted
    BY <1>1, <1>2, <1>4, SMTT(30) DEF Accounted, Is
  <2>3. accepted + 1 <= Slots + Len(received)
    BY <1>1, <1>2, <1>4, <2>1 DEF Accounted, Is
  <2>4. head' - qtail' + accepted' - Len(received)' - Is(r, {"read"})' \in {-Slots, 0, Slots}
    <3> DEFINE d == accepted - Len(received) - Is(r, {"read"})
    <3>1. d \in Int /\ d >= 0 /\ d < Slots /\ head - qtail + d \in {-Slots, 0, Slots}
      BY <1>1, <1>2, <2>1, <2>2, <2>3, SMTT(30) DEF Placed
    <3>2. head - qtail' + d \in {-Slots, 0, Slots}
      <4> HIDE DEF d
      <4> QED
        BY <1>1, <1>2, <1>3, <3>1 DEF wrapped
    <3> QED
      BY <1>2, <1>3, <1>5, <2>1, <3>2, Zenon
  <2>5. at[r].pc = "read" => Len(received) + 1 \in Len(received) + 1..accepted
    BY <1>2, <2>2 DEF Is
  <2>6. at'[r].pc = "read" => at'[r].pos = SlotOf(Len(received) + 1, accepted, qtail')
    BY <1>1, <1>4, <1>8, <2>5, Zenon DEF Placed
  <2>7. at'[r].pc = "take" => head' < Slots
    BY <1>1, <1>3, <1>4, Zenon DEF Placed
  <2> QED
    BY <1>3, <1>4, <1>5, <2>4, <2>6, <2>7, Zenon DEF Placed, SlotOf
<1>10. Stored(w, r)'
  <2>1. ASSUME NEW n \in Len(received) + 1..accepted PROVE q[SlotOf(n, accepted, qtail')] = n
    BY <1>1, <1>4, <1>8, Zenon DEF Stored
  <2> QED
    BY <1>3, <2>1, Zenon DEF Stored, SlotOf
<1>11. InOrder'
  BY <1>3, Zenon DEF AQInv, InOrder
<1> QED
  BY <1>6, <1>7, <1>9, <1>10, <1>11, Zenon DEF AQInv

\* queue(): the writer takes the slot at the tail.
LEMMA QueueTakes ==
    ASSUME NEW w, NEW r, OnePair(w, r), AQInv(w, r), queue_take(w)
    PROVE  AQInv(w, r)'
<1>1. AQTypeOK(w, r) /\ Accounted(w, r) /\ Placed(w, r) /\ Stored(w, r) /\ w # r /\ Slots \in Nat \ {0}
  BY Zenon DEF AQInv, OnePair
<1>2. /\ accepted \in Nat /\ Len(received) \in Nat /\ readableCnt \in Int /\ writeableCnt \in Int
      /\ qtail \in 0..Slots /\ head \in 0..Slots
  BY <1>1 DEF AQTypeOK
<1>3. at[w].pc = "take"
  BY Zenon DEF queue_take
<1>4. qtail \in 0..Slots - 1 /\ qtail % Slots = qtail
  BY <1>1, <1>2, <1>3, Inside, SMTT(30) DEF Placed
<1>5. /\ at' = [at EXCEPT ![w] = [pc |-> "fill", pos |-> qtail, node |-> accepted + 1]]
      /\ qtail' = qtail + 1 /\ accepted' = accepted + 1
      /\ UNCHANGED <<q, head, readableCnt, writeableCnt, received>>
  BY <1>4, Zenon DEF queue_take
<1>6. /\ at'[w] = [pc |-> "fill", pos |-> qtail, node |-> accepted + 1] /\ at'[r] = at[r]
      /\ at' \in [{w, r} -> [pc : QueuePcs \cup DequePcs, pos : 0..Slots - 1, node : Nat]]
  BY <1>1, <1>2, <1>4, <1>5 DEF AQTypeOK, QueuePcs
<1>7. at'[w].pc = "fill" /\ at'[w].pos = qtail /\ at'[w].node = accepted'
  BY <1>5, <1>6, Zenon
<1>8. qtail' \in 0..Slots /\ accepted' \in Nat
  BY <1>1, <1>2, <1>4, <1>5
<1>9. AQTypeOK(w, r)'
  BY <1>1, <1>5, <1>6, <1>7, <1>8, Zenon DEF AQTypeOK, QueuePcs
<1>10. Accounted(w, r)'
  <2>1. /\ Is(w, {"fill", "publish"}) = 0 /\ Is(w, {"fill", "publish"})' = 1
        /\ Is(w, {"refused", "wrap", "take"}) = 1 /\ Is(w, {"refused", "wrap", "take"})' = 0
        /\ Is(w, {"wrap", "take"}) = 1 /\ Is(w, {"wrap", "take"})' = 0
    BY <1>3, <1>7, Zenon DEF Is
  <2>2. ASSUME NEW pcs PROVE Is(r, pcs)' = Is(r, pcs) /\ Is(r, pcs) \in {0, 1}
    BY <1>6, Zenon DEF Is
  <2> QED
    BY <1>1, <1>2, <1>5, <2>1, <2>2 DEF Accounted
<1>11. \A n \in Len(received) + 1..accepted :
          SlotOf(n, accepted', qtail') = SlotOf(n, accepted, qtail)
  BY <1>1, <1>2, <1>5, FewNodes, SlotFacts, Zenon
<1>12. Is(r, {"read"})' = Is(r, {"read"}) /\ Is(r, {"read"}) \in {0, 1}
  BY <1>6, Zenon DEF Is
<1>13. Placed(w, r)'
  <2>1. Len(received) + Is(r, {"read"}) <= accepted
    <3>1. Is(w, {"fill", "publish"}) = 0
      BY <1>3, Zenon DEF Is
    <3>2. Is(r, {"read"}) <= Is(r, {"wrap", "take", "read"}) /\ Is(r, {"wrap", "take", "read"}) \in {0, 1}
      BY DEF Is
    <3> QED
      BY <1>1, <1>2, <1>12, <3>1, <3>2 DEF Accounted
  <2>2. head' - qtail' + accepted' - Len(received)' - Is(r, {"read"})' \in {-Slots, 0, Slots}
    <3> DEFINE d == accepted - Len(received) - Is(r, {"read"})
    <3>1. head - qtail + d \in {-Slots, 0, Slots}
      BY <1>1, <1>2, <1>12, Zenon DEF Placed
    <3>2. head' - qtail' + accepted' - Len(received)' - Is(r, {"read"})' = head - qtail + d
      BY <1>2, <1>5, <1>12
    <3> QED
      BY <3>1, <3>2, Zenon
  <2>3. at[r].pc = "read" => Len(received) + 1 \in Len(received) + 1..accepted
    BY <1>2, <2>1 DEF Is
  <2>4. at'[r].pc = "read" => at'[r].pos = SlotOf(Len(received) + 1, accepted', qtail')
    BY <1>1, <1>6, <1>11, <2>3, Zenon DEF Placed
  <2>5. at'[w].pos = SlotOf(accepted', accepted', qtail')
    BY <1>2, <1>4, <1>5, <1>7 DEF SlotOf
  <2>6. at'[r].pc = "take" => head' < Slots
    BY <1>1, <1>5, <1>6, Zenon DEF Placed
  <2> QED
    BY <1>5, <1>7, <2>2, <2>4, <2>5, <2>6, Zenon DEF Placed, SlotOf
<1>14. Stored(w, r)'
  <2>1. ASSUME NEW n \in Len(received) + 1..accepted', n # accepted'
        PROVE  q[SlotOf(n, accepted', qtail')] = n
    <3>1. n \in Len(received) + 1..accepted
      BY <1>2, <1>5, <2>1
    <3> QED
      BY <1>1, <1>3, <1>11, <3>1, Zenon DEF Stored
  <2> QED
    BY <1>5, <1>7, <2>1, Zenon DEF Stored, SlotOf
<1>15. InOrder'
  BY <1>5, Zenon DEF AQInv, InOrder
<1> QED
  BY <1>9, <1>10, <1>13, <1>14, <1>15, Zenon DEF AQInv

\* queue(): the node is written into a slot that holds no other node still to be returned.
LEMMA QueueFills ==
    ASSUME NEW w, NEW r, OnePair(w, r), AQInv(w, r), queue_fill(w)
    PROVE  AQInv(w, r)'
<1>1. AQTypeOK(w, r) /\ Accounted(w, r) /\ Placed(w, r) /\ Stored(w, r) /\ w # r /\ Slots \in Nat \ {0}
  BY Zenon DEF AQInv, OnePair
<1>2. /\ accepted \in Nat /\ Len(received) \in Nat /\ readableCnt \in Int /\ writeableCnt \in Int
      /\ qtail \in 0..Slots /\ head \in 0..Slots
  BY <1>1 DEF AQTypeOK
<1>3. /\ Goes(w, "fill", "publish") /\ q' = [q EXCEPT ![at[w].pos] = at[w].node]
      /\ UNCHANGED <<head, qtail, readableCnt, writeableCnt, accepted, received>>
      /\ "publish" \in QueuePcs
  BY Zenon DEF queue_fill, QueuePcs
<1>4. Moved(w, r, "fill", "publish")
  BY <1>1, <1>3, WriterGoes, Zenon
<1>5. /\ at[w].pc = "fill" /\ at'[w].pc = "publish" /\ at'[r] = at[r]
      /\ at' \in [{w, r} -> [pc : QueuePcs \cup DequePcs, pos : 0..Slots - 1, node : Nat]]
  BY <1>4, Zenon DEF Moved
<1>6. at[w].node = accepted /\ at[w].pos = SlotOf(accepted, accepted, qtail)
      /\ at[w].pos \in 0..Slots - 1
  BY <1>1, <1>5, Zenon DEF Placed, AQTypeOK
<1>7. q' \in [0..Slots - 1 -> Nat]
  BY <1>1, <1>2, <1>3, <1>6, Zenon DEF AQTypeOK
<1>8. AQTypeOK(w, r)'
  BY <1>1, <1>3, <1>5, <1>7, Zenon DEF AQTypeOK
<1>9. Accounted(w, r)'
  BY <1>1, <1>3, <1>5, Zenon DEF Accounted, Is
<1>10. Placed(w, r)'
  BY <1>1, <1>3, <1>5, Zenon DEF Placed, Is, SlotOf
<1>11. ASSUME NEW n \in Len(received) + 1..accepted
       PROVE  q'[SlotOf(n, accepted, qtail)] = n
  <2>1. n \in Nat /\ n <= accepted /\ accepted - n < Slots
    BY FewNodes, Zenon
  <2>2. SlotOf(n, accepted, qtail) \in 0..Slots - 1
    BY <1>1, <1>2, <2>1, SlotFacts, Zenon
  <2>3. CASE n = accepted
    BY <1>1, <1>3, <1>6, <2>2, <2>3, Zenon DEF AQTypeOK
  <2>4. CASE n # accepted
    <3>1. accepted <= accepted /\ accepted - accepted < Slots
      BY <1>1, <1>2
    <3>2. SlotOf(n, accepted, qtail) # SlotOf(accepted, accepted, qtail)
      BY <1>1, <1>2, <2>1, <2>4, <3>1, SlotFacts, Zenon
    <3>3. q[SlotOf(n, accepted, qtail)] = n
      BY <1>1, <2>4, Zenon DEF Stored
    <3> QED
      BY <1>1, <1>3, <1>6, <2>2, <3>2, <3>3, Zenon DEF AQTypeOK
  <2> QED
    BY <2>3, <2>4, Zenon
<1>12. Stored(w, r)'
  BY <1>3, <1>11, Zenon DEF Stored, SlotOf
<1>13. InOrder'
  BY <1>3, Zenon DEF AQInv, InOrder
<1> QED
  BY <1>8, <1>9, <1>10, <1>12, <1>13, Zenon DEF AQInv

\* A step of the reader that touches only a counter.
LEMMA ReaderCounts ==
    ASSUME NEW w, NEW r, OnePair(w, r), AQInv(w, r), NEW from, NEW to \in DequePcs,
           from # "read", to \notin {"take", "read"}, Goes(r, from, to),
           UNCHANGED <<q, head, qtail, accepted, received>>,
           readableCnt' \in Int, writeableCnt' \in Int, Accounted(w, r)'
    PROVE  AQInv(w, r)'
<1>1. AQTypeOK(w, r) /\ w # r
  BY Zenon DEF AQInv, OnePair
<1>2. Moved(r, w, from, to)
  BY <1>1, ReaderGoes, Zenon
<1>3. /\ at[r].pc = from /\ at'[r].pc = to /\ at'[w] = at[w]
      /\ at' \in [{w, r} -> [pc : QueuePcs \cup DequePcs, pos : 0..Slots - 1, node : Nat]]
  BY <1>2, Zenon DEF Moved
<1>4. AQTypeOK(w, r)'
  BY <1>1, <1>3, Zenon DEF AQTypeOK
<1>5. Is(r, {"read"}) = 0 /\ Is(r, {"read"})' = 0
  BY <1>3, Zenon DEF Is
<1>6. Placed(w, r)'
  BY <1>3, <1>5, Zenon DEF AQInv, Placed, SlotOf
<1>7. Stored(w, r)' /\ InOrder'
  BY <1>3, Zenon DEF AQInv, Stored, SlotOf, InOrder
<1> QED
  BY <1>4, <1>6, <1>7, Zenon DEF AQInv

\* What the counters say of the writer is what they said before.
WriterKept(w) ==
    /\ Is(w, {"fill", "publish"})' = Is(w, {"fill", "publish"})
    /\ Is(w, {"refused", "wrap", "take"})' = Is(w, {"refused", "wrap", "take"})
    /\ Is(w, {"wrap", "take"})' = Is(w, {"wrap", "take"})
    /\ Is(w, {"fill", "publish"}) \in {0, 1}
    /\ Is(w, {"refused", "wrap", "take"}) \in {0, 1}
    /\ Is(w, {"wrap", "take"}) \in {0, 1}

\* The counters after a step of the reader from one place to another.
LEMMA ReaderCounted ==
    ASSUME NEW w, NEW r, OnePair(w, r), AQInv(w, r), NEW from, NEW to \in DequePcs,
           Goes(r, from, to)
    PROVE  /\ at[r].pc = from /\ at'[r].pc = to
           /\ WriterKept(w)
<1>1. AQTypeOK(w, r) /\ w # r
  BY Zenon DEF AQInv, OnePair
<1>2. Moved(r, w, from, to)
  BY <1>1, ReaderGoes, Zenon
<1>3. at[r].pc = from /\ at'[r].pc = to /\ at'[w] = at[w]
  BY <1>2, Zenon DEF Moved
<1> QED
  BY <1>3, Zenon DEF Is, WriterKept

\* deque(): a node is claimed, or found missing and given back.
LEMMA DequeClaims ==
    ASSUME NEW w, NEW r, OnePair(w, r), AQInv(w, r), deque_claim(r) \/ deque_refused(r)
    PROVE  AQInv(w, r)'
<1>1. AQTypeOK(w, r) /\ Accounted(w, r) /\ Slots \in Nat
  BY Zenon DEF AQInv, OnePair
<1>2. accepted \in Nat /\ Len(received) \in Nat /\ readableCnt \in Int /\ writeableCnt \in Int
  BY <1>1 DEF AQTypeOK
<1>3. UNCHANGED <<q, head, qtail, accepted, received, writeableCnt>>
  BY Zenon DEF deque_claim, deque_refused
<1>4. CASE deque_claim(r)
  <2> DEFINE to == IF readableCnt <= 0 THEN "refused" ELSE "wrap"
  <2>1. /\ Goes(r, "outside", to) /\ to \in DequePcs /\ to \notin {"take", "read"}
        /\ readableCnt' = readableCnt - 1
    BY <1>4, Zenon DEF deque_claim, DequePcs
  <2>2. (to = "refused" /\ readableCnt <= 0) \/ (to = "wrap" /\ readableCnt >= 1)
    BY <1>2
  <2> HIDE DEF to
  <2>3. /\ at[r].pc = "outside" /\ at'[r].pc = to
        /\ WriterKept(w)
    BY <2>1, ReaderCounted, Zenon
  <2>4. /\ Is(r, {"refused", "wrap", "take", "read"}) = 0
        /\ Is(r, {"refused", "wrap", "take", "read"})' = 1
        /\ Is(r, {"release"}) = 0 /\ Is(r, {"release"})' = 0
        /\ Is(r, {"wrap", "take", "read"}) = 0
        /\ Is(r, {"wrap", "take", "read"})' = IF to = "wrap" THEN 1 ELSE 0
    BY <2>2, <2>3, Zenon DEF Is
  <2>5. Accounted(w, r)'
    BY <1>1, <1>2, <1>3, <2>1, <2>2, <2>3, <2>4, SMTT(30) DEF Accounted, WriterKept
  <2> QED
    BY <1>2, <1>3, <2>1, <2>5, ReaderCounts
<1>5. CASE deque_refused(r)
  <2>1. Goes(r, "refused", "outside") /\ readableCnt' = readableCnt + 1 /\ "outside" \in DequePcs
    BY <1>5, Zenon DEF deque_refused, DequePcs
  <2>2. /\ at[r].pc = "refused" /\ at'[r].pc = "outside"
        /\ WriterKept(w)
    BY <2>1, ReaderCounted, Zenon
  <2>3. /\ Is(r, {"refused", "wrap", "take", "read"}) = 1
        /\ Is(r, {"refused", "wrap", "take", "read"})' = 0
        /\ Is(r, {"release"}) = 0 /\ Is(r, {"release"})' = 0
        /\ Is(r, {"wrap", "take", "read"}) = 0 /\ Is(r, {"wrap", "take", "read"})' = 0
    BY <2>2, Zenon DEF Is
  <2>4. Accounted(w, r)'
    BY <1>1, <1>2, <1>3, <2>1, <2>2, <2>3, SMTT(30) DEF Accounted, WriterKept
  <2> QED
    BY <1>2, <1>3, <2>1, <2>4, ReaderCounts
<1> QED
  BY <1>4, <1>5, Zenon

\* deque(): the place of a node that was read is free.
LEMMA DequeReleases ==
    ASSUME NEW w, NEW r, OnePair(w, r), AQInv(w, r), Goes(r, "release", "outside"),
           writeableCnt' = writeableCnt + 1,
           UNCHANGED <<q, head, qtail, readableCnt, accepted, received>>
    PROVE  AQInv(w, r)'
<1>1. AQTypeOK(w, r) /\ Accounted(w, r) /\ Slots \in Nat /\ "outside" \in DequePcs
  BY Zenon DEF AQInv, OnePair, DequePcs
<1>2. accepted \in Nat /\ Len(received) \in Nat /\ readableCnt \in Int /\ writeableCnt \in Int
  BY <1>1 DEF AQTypeOK
<1>3. /\ at[r].pc = "release" /\ at'[r].pc = "outside"
      /\ WriterKept(w)
  BY <1>1, ReaderCounted, Zenon
<1>4. /\ Is(r, {"refused", "wrap", "take", "read"}) = 0
      /\ Is(r, {"refused", "wrap", "take", "read"})' = 0
      /\ Is(r, {"release"}) = 1 /\ Is(r, {"release"})' = 0
      /\ Is(r, {"wrap", "take", "read"}) = 0 /\ Is(r, {"wrap", "take", "read"})' = 0
  BY <1>3, Zenon DEF Is
<1>5. Accounted(w, r)'
  BY <1>1, <1>2, <1>3, <1>4, SMTT(30) DEF Accounted, WriterKept
<1>6. readableCnt' \in Int /\ writeableCnt' \in Int
  BY <1>2
<1> QED
  BY <1>1, <1>5, <1>6, ReaderCounts, Zenon

\* What a step of the reader finds.
LEMMA ReaderFacts ==
    ASSUME NEW w, NEW r, OnePair(w, r), AQInv(w, r)
    PROVE  /\ AQTypeOK(w, r) /\ Accounted(w, r) /\ Placed(w, r) /\ Stored(w, r) /\ InOrder
           /\ w # r /\ Slots \in Nat \ {0}
           /\ accepted \in Nat /\ received \in Seq(Nat) /\ Len(received) \in Nat
           /\ readableCnt \in Int /\ writeableCnt \in Int
           /\ qtail \in 0..Slots /\ head \in 0..Slots
BY DEF AQInv, OnePair, AQTypeOK

\* deque(): the head starts again at 0 when it has passed the last slot.
LEMMA DequeWraps ==
    ASSUME NEW w, NEW r, OnePair(w, r), AQInv(w, r), deque_wrap(r)
    PROVE  AQInv(w, r)'
<1>0. /\ AQTypeOK(w, r) /\ Accounted(w, r) /\ Placed(w, r) /\ Stored(w, r) /\ InOrder
      /\ w # r /\ Slots \in Nat \ {0}
      /\ accepted \in Nat /\ received \in Seq(Nat) /\ Len(received) \in Nat
      /\ readableCnt \in Int /\ writeableCnt \in Int
      /\ qtail \in 0..Slots /\ head \in 0..Slots
  BY ReaderFacts, Zenon
<1>1. /\ Goes(r, "wrap", "take") /\ head' = wrapped(head) /\ "take" \in DequePcs
      /\ UNCHANGED <<q, qtail, readableCnt, writeableCnt, accepted, received>>
  BY Zenon DEF deque_wrap, DequePcs
<1>2. Moved(r, w, "wrap", "take") /\ at[r].pc = "wrap" /\ at'[r].pc = "take" /\ WriterKept(w)
  BY <1>1, <1>0, ReaderGoes, ReaderCounted, Zenon
<1>3. /\ at'[w] = at[w]
      /\ at' \in [{w, r} -> [pc : QueuePcs \cup DequePcs, pos : 0..Slots - 1, node : Nat]]
  BY <1>2, Zenon DEF Moved
<1>4. head' \in 0..Slots /\ head' < Slots
  BY <1>1, <1>0 DEF wrapped
<1>5. AQTypeOK(w, r)'
  BY <1>1, <1>2, <1>3, <1>4, <1>0, Zenon DEF AQTypeOK
<1>6. /\ Is(r, {"refused", "wrap", "take", "read"}) = 1
      /\ Is(r, {"refused", "wrap", "take", "read"})' = 1
      /\ Is(r, {"release"}) = 0 /\ Is(r, {"release"})' = 0
      /\ Is(r, {"wrap", "take", "read"}) = 1 /\ Is(r, {"wrap", "take", "read"})' = 1
      /\ Is(r, {"read"}) = 0 /\ Is(r, {"read"})' = 0
  BY <1>2, Zenon DEF Is
<1>7. Accounted(w, r)'
  BY <1>1, <1>2, <1>6, <1>0, Zenon DEF Accounted, WriterKept
<1>8. head' - qtail + accepted - Len(received) \in {-Slots, 0, Slots}
  <2> DEFINE d == accepted - Len(received)
  <2>1. d \in Nat /\ d >= 1
    BY <1>2, <1>6, <1>0, SMTT(30) DEF Accounted, WriterKept
  <2>2. head - qtail + d \in {-Slots, 0, Slots}
    BY <1>6, <1>0, SMTT(30) DEF Placed
  <2>3. d <= Slots
    BY <1>2, <1>6, <1>0, SMTT(30) DEF Accounted, WriterKept
  <2>4. head' - qtail + d \in {-Slots, 0, Slots}
    <3> HIDE DEF d
    <3>1. head' = IF head = Slots THEN 0 ELSE head
      BY <1>1, Zenon DEF wrapped
    <3> QED
      BY <2>1, <2>2, <2>3, <3>1, <1>0
  <2> QED
    BY <1>4, <2>4, <1>0, Zenon
<1>9. Placed(w, r)'
  <2>1. head' - qtail' + accepted' - Len(received)' - Is(r, {"read"})' \in {-Slots, 0, Slots}
    BY <1>1, <1>4, <1>6, <1>8, <1>0
  <2> QED
    BY <1>1, <1>2, <1>3, <1>4, <2>1, <1>0, Zenon DEF Placed, SlotOf
<1>10. Stored(w, r)' /\ InOrder'
  BY <1>1, <1>3, <1>0, Zenon DEF Stored, SlotOf, InOrder
<1> QED
  BY <1>5, <1>7, <1>9, <1>10, Zenon DEF AQInv

\* deque(): the reader takes the slot at the head, which is that of the next node.
LEMMA DequeTakes ==
    ASSUME NEW w, NEW r, OnePair(w, r), AQInv(w, r), deque_take(r)
    PROVE  AQInv(w, r)'
<1>0. /\ AQTypeOK(w, r) /\ Accounted(w, r) /\ Placed(w, r) /\ Stored(w, r) /\ InOrder
      /\ w # r /\ Slots \in Nat \ {0}
      /\ accepted \in Nat /\ received \in Seq(Nat) /\ Len(received) \in Nat
      /\ readableCnt \in Int /\ writeableCnt \in Int
      /\ qtail \in 0..Slots /\ head \in 0..Slots
  BY ReaderFacts, Zenon
<1>1. at[r].pc = "take" /\ head' = head + 1
      /\ UNCHANGED <<q, qtail, readableCnt, writeableCnt, accepted, received>>
  BY Zenon DEF deque_take
<1>2. head \in 0..Slots - 1 /\ head % Slots = head
  BY <1>1, <1>0, Inside, SMTT(30) DEF Placed
<1>3. at' = [at EXCEPT ![r].pc = "read", ![r].pos = head]
  BY <1>2, Zenon DEF deque_take
<1>a. /\ at \in [{w, r} -> [pc : QueuePcs \cup DequePcs, pos : 0..Slots - 1, node : Nat]]
      /\ "read" \in DequePcs
  BY <1>0, Zenon DEF AQTypeOK, DequePcs
<1>4. /\ at'[w] = at[w] /\ at'[r].pc = "read" /\ at'[r].pos = head
      /\ at' \in [{w, r} -> [pc : QueuePcs \cup DequePcs, pos : 0..Slots - 1, node : Nat]]
  <2> DEFINE a == [at EXCEPT ![r].pc = "read"]
  <2>1. w # r
    BY <1>0, Zenon
  <2>2. /\ a[w] = at[w] /\ a[r].pc = "read"
        /\ a \in [{w, r} -> [pc : QueuePcs \cup DequePcs, pos : 0..Slots - 1, node : Nat]]
    BY <1>a, <2>1, Zenon
  <2>3. at' = [a EXCEPT ![r].pos = head]
    BY <1>3, Zenon
  <2> HIDE DEF a
  <2> QED
    BY <1>2, <2>1, <2>2, <2>3, Zenon
<1>5. AQTypeOK(w, r)'
  <2>1. head' \in 0..Slots
    <3>1. head' = head + 1 /\ head \in 0..Slots - 1 /\ Slots \in Nat \ {0}
      BY <1>1, <1>2, <1>0, Zenon
    <3>2. QED
      BY <3>1
  <2> QED
    BY <1>1, <1>a, <1>4, <2>1, <1>0, Zenon DEF AQTypeOK
<1>6. /\ Is(r, {"refused", "wrap", "take", "read"}) = 1
      /\ Is(r, {"refused", "wrap", "take", "read"})' = 1
      /\ Is(r, {"release"}) = 0 /\ Is(r, {"release"})' = 0
      /\ Is(r, {"wrap", "take", "read"}) = 1 /\ Is(r, {"wrap", "take", "read"})' = 1
      /\ Is(r, {"read"}) = 0 /\ Is(r, {"read"})' = 1
      /\ WriterKept(w)
  BY <1>1, <1>4, Zenon DEF Is, WriterKept
<1>7. Accounted(w, r)'
  BY <1>1, <1>6, <1>0, Zenon DEF Accounted, WriterKept
<1>8. head = SlotOf(Len(received) + 1, accepted, qtail)
  <2> DEFINE d == accepted - Len(received)
  <2>1. d \in Nat /\ d >= 1
    BY <1>6, <1>0, SMTT(30) DEF Accounted, WriterKept
  <2>2. head - qtail + d \in {-Slots, 0, Slots}
    BY <1>6, <1>0 DEF Placed
  <2>3. d <= Slots
    BY <1>6, <1>0 DEF Accounted, WriterKept
  <2>4. qtail - 1 - (accepted - (Len(received) + 1)) = qtail - d
    BY <1>0
  <2>5. head = IF qtail - d >= 0 THEN qtail - d ELSE qtail - d + Slots
    <3>1. qtail \in 0..Slots /\ Slots \in Nat \ {0}
      BY <1>0, Zenon
    <3> HIDE DEF d
    <3> QED
      BY <1>2, <2>1, <2>2, <2>3, <3>1
  <2> QED
    BY <2>4, <2>5, Zenon DEF SlotOf
<1>9. Placed(w, r)'
  <2>1. head' - qtail' + accepted' - Len(received)' - Is(r, {"read"})' \in {-Slots, 0, Slots}
    <3>1. head - qtail + accepted - Len(received) \in {-Slots, 0, Slots}
      BY <1>6, <1>0, SMTT(30) DEF Placed
    <3>2. head' - qtail' + accepted' - Len(received)' - Is(r, {"read"})'
             = head - qtail + accepted - Len(received)
      BY <1>1, <1>6, <1>0
    <3> QED
      BY <3>1, <3>2, Zenon
  <2> QED
    BY <1>1, <1>4, <1>8, <2>1, <1>0, Zenon DEF Placed, SlotOf
<1>10. Stored(w, r)' /\ InOrder'
  BY <1>1, <1>4, <1>0, Zenon DEF Stored, SlotOf, InOrder
<1> QED
  BY <1>5, <1>7, <1>9, <1>10, Zenon DEF AQInv

\* deque(): what the reader finds in the slot is the next node.
LEMMA DequeReads ==
    ASSUME NEW w, NEW r, OnePair(w, r), AQInv(w, r), Goes(r, "read", "release"),
           received' = Append(received, q[at[r].pos]),
           UNCHANGED <<q, head, qtail, readableCnt, writeableCnt, accepted>>
    PROVE  AQInv(w, r)'
<1>0. /\ AQTypeOK(w, r) /\ Accounted(w, r) /\ Placed(w, r) /\ Stored(w, r) /\ InOrder
      /\ w # r /\ Slots \in Nat \ {0}
      /\ accepted \in Nat /\ received \in Seq(Nat) /\ Len(received) \in Nat
      /\ readableCnt \in Int /\ writeableCnt \in Int
      /\ qtail \in 0..Slots /\ head \in 0..Slots
  BY ReaderFacts, Zenon
<1> DEFINE n == Len(received) + 1
<1>1. "release" \in DequePcs
  BY Zenon DEF DequePcs
<1>2. Moved(r, w, "read", "release")
  BY <1>1, <1>0, ReaderGoes, Zenon
<1>3. at[r].pc = "read" /\ at'[r].pc = "release" /\ WriterKept(w)
  BY <1>1, ReaderCounted, Zenon
<1>4. /\ at'[w] = at[w]
      /\ at' \in [{w, r} -> [pc : QueuePcs \cup DequePcs, pos : 0..Slots - 1, node : Nat]]
  BY <1>2, Zenon DEF Moved
<1>5. /\ Is(r, {"refused", "wrap", "take", "read"}) = 1
      /\ Is(r, {"refused", "wrap", "take", "read"})' = 0
      /\ Is(r, {"release"}) = 0 /\ Is(r, {"release"})' = 1
      /\ Is(r, {"wrap", "take", "read"}) = 1 /\ Is(r, {"wrap", "take", "read"})' = 0
      /\ Is(r, {"read"}) = 1 /\ Is(r, {"read"})' = 0
  BY <1>3, Zenon DEF Is
<1>6. /\ Len(received) + 1 <= accepted - Is(w, {"fill", "publish"})
      /\ Is(w, {"fill", "publish"}) \in {0, 1}
      /\ accepted \in Nat /\ Len(received) \in Nat /\ received \in Seq(Nat)
  BY <1>3, <1>5, <1>0, Zenon DEF Accounted, WriterKept
<1>7. n \in Len(received) + 1..accepted /\ n \in Nat
  BY <1>6
<1>8. ~ (n = accepted /\ at[w].pc = "fill")
  BY <1>6 DEF Is
<1>9. q[at[r].pos] = n
  <2>1. at[r].pos = SlotOf(n, accepted, qtail)
    BY <1>3, <1>0, Zenon DEF Placed
  <2>2. Stored(w, r)
    BY <1>0, Zenon
  <2>3. q[SlotOf(n, accepted, qtail)] = n
    BY <1>7, <1>8, <2>2, Zenon DEF Stored
  <2> QED
    BY <2>1, <2>3, Zenon
<1> HIDE DEF n
<1>10. received' = Append(received, n)
  BY <1>9, Zenon
<1>11. /\ received' \in Seq(Nat) /\ Len(received') = n
       /\ \A i \in 1..Len(received) : received'[i] = received[i]
       /\ received'[n] = n
  BY <1>6, <1>7, <1>10 DEF n
<1>12. n = Len(received) + 1
  BY Zenon DEF n
<1>13. AQTypeOK(w, r)'
  BY <1>1, <1>3, <1>4, <1>11, <1>0, ZenonT(60) DEF AQTypeOK
<1>14. Accounted(w, r)'
  BY <1>3, <1>5, <1>6, <1>11, <1>12, <1>0, SMTT(30) DEF Accounted, WriterKept
<1>15. Placed(w, r)'
  <2>1. head' - qtail' + accepted' - Len(received)' - Is(r, {"read"})' \in {-Slots, 0, Slots}
    <3>1. head - qtail + accepted - Len(received) - 1 \in {-Slots, 0, Slots}
      BY <1>5, <1>0, Zenon DEF Placed
    <3>2. head' - qtail' + accepted' - Len(received)' - Is(r, {"read"})'
             = head - qtail + accepted - Len(received) - 1
      BY <1>5, <1>6, <1>11, <1>12, <1>0
    <3> QED
      BY <3>1, <3>2, Zenon
  <2> QED
    BY <1>3, <1>4, <2>1, <1>0, Zenon DEF Placed, SlotOf
<1>16. Stored(w, r)'
  <2>1. ASSUME NEW m \in n + 1..accepted
        PROVE  (m = accepted /\ at[w].pc = "fill") \/ q[SlotOf(m, accepted, qtail)] = m
    <3>1. m \in Len(received) + 1..accepted
      BY <1>6, <1>7, <1>12
    <3>2. Stored(w, r)
      BY <1>0, Zenon
    <3> QED
      BY <3>1, <3>2, Zenon DEF Stored
  <2> QED
    BY <1>4, <1>11, <2>1, Zenon DEF Stored, SlotOf
<1>17. InOrder'
  <2>1. ASSUME NEW i \in 1..n PROVE received'[i] = i
    <3>1. i = n \/ i \in 1..Len(received)
      BY <1>6, <1>12
    <3>2. InOrder
      BY <1>0, Zenon
    <3> QED
      BY <1>11, <3>1, <3>2, Zenon DEF InOrder
  <2> QED
    BY <1>11, <2>1, Zenon DEF InOrder
<1> QED
  BY <1>13, <1>14, <1>15, <1>16, <1>17, Zenon DEF AQInv

\* Every atomic operation of the two threads keeps the invariant.
LEMMA ArrayStep ==
    ASSUME NEW w, NEW r, OnePair(w, r), AQInv(w, r), [AQNext]_aqVars
    PROVE  AQInv(w, r)'
<1>1. ASSUME NEW t \in Writers, queue_claim(t) \/ queue_refused(t) \/ queue_wrap(t)
                                  \/ queue_take(t) \/ queue_fill(t) \/ queue_publish(t)
      PROVE  AQInv(w, r)'
  <2>1. t = w
    BY Zenon DEF OnePair
  <2> QED
    BY <1>1, <2>1, QueueClaims, QueueWraps, QueueTakes, QueueFills, Zenon
<1>2. ASSUME NEW t \in Readers, deque_claim(t) \/ deque_refused(t) \/ deque_wrap(t)
                                  \/ deque_take(t) \/ deque_read(t)
      PROVE  AQInv(w, r)'
  <2>1. t = r
    BY Zenon DEF OnePair
  <2>2. CASE deque_read(r)
    BY <2>2, DequeReads, DequeReleases, Zenon DEF deque_read
  <2> QED
    BY <1>2, <2>1, <2>2, DequeClaims, DequeWraps, DequeTakes, Zenon
<1>3. CASE UNCHANGED aqVars
  BY <1>3, Zenon DEF aqVars, AQInv, AQTypeOK, Accounted, Placed, Stored, InOrder, Is, SlotOf
<1> QED
  BY <1>1, <1>2, <1>3, Zenon DEF AQNext

\* A new queue is empty, and both threads are outside.
LEMMA ArrayInit == ASSUME NEW w, NEW r, OnePair(w, r), AQInit PROVE AQInv(w, r)
<1>1. AQTypeOK(w, r)
  BY DEF AQInit, OnePair, AQTypeOK, QueuePcs, DequePcs, Empty
<1>2. at[w].pc = "outside" /\ at[r].pc = "outside" /\ received = <<>> /\ Len(received) = 0
  BY Zenon DEF AQInit, OnePair
<1>3. /\ readableCnt = 0 /\ writeableCnt = Slots /\ accepted = 0 /\ head = 0 /\ qtail = 0
      /\ Slots \in Nat
  BY Zenon DEF AQInit, OnePair
<1>4. Accounted(w, r) /\ Placed(w, r)
  <2>1. \A pcs : "outside" \notin pcs => Is(w, pcs) = 0 /\ Is(r, pcs) = 0
    BY <1>2, Zenon DEF Is
  <2>2. /\ Is(w, {"fill", "publish"}) = 0 /\ Is(w, {"refused", "wrap", "take"}) = 0
        /\ Is(w, {"wrap", "take"}) = 0 /\ Is(r, {"refused", "wrap", "take", "read"}) = 0
        /\ Is(r, {"release"}) = 0 /\ Is(r, {"wrap", "take", "read"}) = 0 /\ Is(r, {"read"}) = 0
    BY <2>1, Zenon
  <2>3. Accounted(w, r)
    BY <1>2, <1>3, <2>2 DEF Accounted
  <2>4. Placed(w, r)
    BY <1>2, <1>3, <2>2 DEF Placed
  <2> QED
    BY <2>3, <2>4, Zenon
<1>5. Stored(w, r) /\ InOrder
  BY <1>2, <1>3 DEF Stored, InOrder
<1> QED
  BY <1>1, <1>4, <1>5, Zenon DEF AQInv

\* lockFreeQueue with one writer and one reader, and any number of slots: deque() returns
\* exactly the nodes queue() took, in their order, at every interleaving of their atomic
\* operations.
THEOREM ArrayQueueOrdered ==
    ASSUME NEW w, NEW r, OnePair(w, r)
    PROVE  AQSpec => []ArrayQueueExact
<1>1. AQInit => AQInv(w, r)
  BY ArrayInit, Zenon
<1>2. AQInv(w, r) /\ [AQNext]_aqVars => AQInv(w, r)'
  BY ArrayStep, Zenon
<1>3. AQInv(w, r) => ArrayQueueExact
  <2> SUFFICES ASSUME AQInv(w, r), NEW i \in DOMAIN received
               PROVE  i <= accepted /\ received[i] = i
    BY Zenon DEF ArrayQueueExact
  <2>1. i \in 1..Len(received) /\ Len(received) \in Nat /\ accepted \in Nat
    BY ReaderFacts, SMTT(30)
  <2>2. Len(received) <= accepted
    <3>1. Is(r, {"wrap", "take", "read"}) \in {0, 1} /\ Is(w, {"fill", "publish"}) \in {0, 1}
      BY Zenon DEF Is
    <3> QED
      BY <2>1, <3>1, ReaderFacts, SMTT(30) DEF Accounted
  <2>3. InOrder
    BY ReaderFacts, Zenon
  <2> QED
    BY <2>1, <2>2, <2>3 DEF InOrder
<1> QED
  BY <1>1, <1>2, <1>3, PTL DEF AQSpec

-----------------------------------------------------------------------------
(***************************************************************************)
(* FastCache.                                                              *)
(***************************************************************************)

\* An entry of the cache: its value, or none, and its expiration.
Items == [data : SUBSET Values, expiration : Int]

\* The types of the variables of the cache.
FCTypeOK ==
    /\ now \in Nat
    /\ container \in [Keys -> Items]
    /\ sweeper \in [now_time : Nat, shard : 1..Shards + 2]
    /\ run_flag \in BOOLEAN

\* The invariant: the clock of a round is never ahead of the clock.
FCInv == FCTypeOK /\ sweeper.now_time <= now /\ RoundComplete

\* A call puts an item that expires now or later, or takes one out: the round in progress
\* has nothing to do with it.
LEMMA PutsKeeps ==
    ASSUME FCInv, NEW k \in Keys, NEW item \in Items,
           item = Absent \/ item.expiration >= now, Puts(k, item)
    PROVE  FCInv'
<1>1. FCTypeOK /\ sweeper.now_time <= now /\ RoundComplete
  BY Zenon DEF FCInv
<1>2. container' = [container EXCEPT ![k] = item] /\ UNCHANGED <<now, sweeper, run_flag>>
  BY Zenon DEF Puts
<1>3. FCTypeOK' /\ sweeper'.now_time <= now'
  BY <1>1, <1>2, Zenon DEF FCTypeOK
<1>4. now \in Nat /\ sweeper.now_time \in Nat /\ item.expiration \in Int
  BY <1>1, Zenon DEF FCTypeOK, Items
<1>5. ~expired(item, sweeper.now_time)
  BY <1>1, <1>4 DEF expired
<1>6. ASSUME NEW j \in Keys, ShardOf[j] < sweeper.shard
      PROVE  ~expired(container'[j], sweeper.now_time)
  <2>1. ~expired(container[j], sweeper.now_time)
    BY <1>1, <1>6, Zenon DEF RoundComplete
  <2>2. container'[j] = IF j = k THEN item ELSE container[j]
    BY <1>1, <1>2, Zenon DEF FCTypeOK
  <2> QED
    BY <1>5, <2>1, <2>2, Zenon
<1>7. RoundComplete'
  BY <1>2, <1>6, Zenon DEF RoundComplete, expired
<1> QED
  BY <1>3, <1>7, Zenon DEF FCInv

\* An item is taken out.
LEMMA RemovesKeep ==
    ASSUME FCInv, NEW k \in Keys, del(k) \/ get(k)
    PROVE  FCInv'
<1>1. Absent \in Items
  BY DEF Absent, Items
<1> QED
  BY <1>1, PutsKeeps, Zenon DEF del, get

\* When what is put now for d seconds expires.
LEMMA ExpiresLater ==
    ASSUME FCInv, NEW k \in Keys, NEW d \in Durations
    PROVE  container[k] \in Items /\ now + d \in Int /\ now + d >= now
<1>1. now \in Nat /\ d \in Nat /\ container[k] \in Items
  BY CacheAssumption, Zenon DEF FCInv, FCTypeOK
<1> QED
  BY <1>1

\* An item, expired or not, is renewed.
LEMMA RenewKeeps ==
    ASSUME FCInv, NEW k \in Keys, NEW d \in Durations, new_expire(k, d)
    PROVE  FCInv'
<1> DEFINE item == [container[k] EXCEPT !.expiration = now + d]
<1>1. item \in Items /\ item.expiration = now + d
  BY ExpiresLater, Zenon DEF Items
<1>2. Puts(k, item)
  BY Zenon DEF new_expire
<1> QED
  BY <1>1, <1>2, ExpiresLater, PutsKeeps, Zenon

\* An item is set, or appended to.
LEMMA StoresKeep ==
    ASSUME FCInv, NEW k \in Keys, NEW v \in Values, NEW d \in Durations,
           set(k, v, d) \/ append(k, v, d)
    PROVE  FCInv'
<1> DEFINE more == [data |-> container[k].data \cup {v}, expiration |-> now + d]
<1>1. CacheItem(v, d) \in Items /\ CacheItem(v, d).expiration = now + d
  BY ExpiresLater, Zenon DEF CacheItem, Items
<1>2. more \in Items /\ more.expiration = now + d
  BY ExpiresLater, Zenon DEF Items
<1>3. Puts(k, CacheItem(v, d)) \/ Puts(k, more)
  BY Zenon DEF set, append
<1> HIDE DEF more
<1> QED
  BY <1>1, <1>2, <1>3, ExpiresLater, PutsKeeps, Zenon

\* The thread goes through one more shard.
LEMMA SweepShardKeeps ==
    ASSUME FCInv, sweep_shard
    PROVE  FCInv'
<1> DEFINE s == sweeper.shard
           t == sweeper.now_time
<1>1. /\ s \in 1..Shards /\ container' = del_expired_keys(s, t)
      /\ sweeper' = [sweeper EXCEPT !.shard = s + 1] /\ UNCHANGED <<now, run_flag>>
  BY Zenon DEF sweep_shard
<1>2. FCTypeOK /\ t <= now /\ Shards \in Nat /\ ShardOf \in [Keys -> 1..Shards]
  BY CacheAssumption, Zenon DEF FCInv
<1>3. sweeper'.shard = s + 1 /\ sweeper'.now_time = t /\ s + 1 \in 1..Shards + 2
  BY <1>1, <1>2 DEF FCTypeOK
<1>4. \A k \in Keys : container'[k] = IF ShardOf[k] = s /\ expired(container[k], t)
                                      THEN Absent ELSE container[k]
  BY <1>1, Zenon DEF del_expired_keys
<1>5. sweeper' \in [now_time : Nat, shard : 1..Shards + 2]
  BY <1>1, <1>2, <1>3, Zenon DEF FCTypeOK
<1>6. container' \in [Keys -> Items]
  BY <1>1, <1>2 DEF FCTypeOK, del_expired_keys, Absent, Items
<1>7. FCTypeOK' /\ sweeper'.now_time <= now'
  BY <1>1, <1>2, <1>3, <1>5, <1>6, Zenon DEF FCTypeOK
<1>8. ASSUME NEW k \in Keys, ShardOf[k] < s + 1
      PROVE  ~expired(container'[k], t)
  <2>1. CASE ShardOf[k] = s
    BY <1>4, <2>1, Zenon DEF expired
  <2>2. CASE ShardOf[k] # s
    <3>1. ShardOf[k] < s
      BY <1>1, <1>2, <1>8, <2>2
    <3> QED
      BY <1>4, <2>2, <3>1, Zenon DEF FCInv, RoundComplete
  <2> QED
    BY <2>1, <2>2, Zenon
<1>9. RoundComplete'
  <2> HIDE DEF s, t
  <2> QED
    BY <1>3, <1>8, Zenon DEF RoundComplete, expired
<1> QED
  BY <1>7, <1>9, Zenon DEF FCInv

\* Every step of the cache keeps the invariant.
LEMMA CacheStep == ASSUME FCInv, [FCNext]_fcVars PROVE FCInv'
<1>1. /\ FCTypeOK /\ sweeper.now_time <= now /\ RoundComplete
      /\ Shards \in Nat /\ ShardOf \in [Keys -> 1..Shards]
  BY CacheAssumption, Zenon DEF FCInv
<1>2. CASE Tick
  <2>1. now' = now + 1 /\ UNCHANGED <<container, sweeper, run_flag>>
    BY <1>2, Zenon DEF Tick
  <2> QED
    BY <1>1, <2>1 DEF FCInv, FCTypeOK, RoundComplete, expired
<1>3. CASE destroy \/ UNCHANGED fcVars
  <2>1. UNCHANGED <<now, container, sweeper>> /\ run_flag' \in BOOLEAN
    BY <1>1, <1>3, Zenon DEF destroy, fcVars, FCTypeOK
  <2> QED
    BY <1>1, <2>1, Zenon DEF FCInv, FCTypeOK, RoundComplete, expired
<1>4. CASE sweep_begin
  <2>1. sweeper' = [now_time |-> now, shard |-> 1] /\ UNCHANGED <<now, container, run_flag>>
    BY <1>4, Zenon DEF sweep_begin
  <2>2. FCTypeOK' /\ sweeper'.now_time <= now'
    BY <1>1, <2>1 DEF FCTypeOK
  <2>3. RoundComplete'
    BY <1>1, <2>1 DEF RoundComplete
  <2> QED
    BY <2>2, <2>3, Zenon DEF FCInv
<1>5. CASE sweep_end
  <2>1. /\ sweeper.shard = Shards + 1 /\ sweeper' = [sweeper EXCEPT !.shard = Shards + 2]
        /\ UNCHANGED <<now, container, run_flag>>
    BY <1>5, Zenon DEF sweep_end, Asleep, Gone
  <2>2. sweeper'.shard = Shards + 2 /\ sweeper'.now_time = sweeper.now_time
    BY <1>1, <2>1, Zenon DEF FCTypeOK
  <2>3. FCTypeOK' /\ sweeper'.now_time <= now'
    BY <1>1, <2>1, <2>2 DEF FCTypeOK
  <2>4. \A k \in Keys : ShardOf[k] < sweeper.shard
    BY <1>1, <2>1
  <2>5. RoundComplete'
    BY <1>1, <2>1, <2>2, <2>4, Zenon DEF RoundComplete, expired
  <2> QED
    BY <2>3, <2>5, Zenon DEF FCInv
<1> QED
  BY <1>2, <1>3, <1>4, <1>5, SweepShardKeeps, RemovesKeep, RenewKeeps, StoresKeep, Zenon DEF FCNext

\* A new cache is empty, and no round is under way.
LEMMA CacheInit == ASSUME FCInit PROVE FCInv
<1>1. FCTypeOK
  BY CacheAssumption DEF FCInit, FCTypeOK, Items, Absent, Asleep
<1>2. RoundComplete
  BY Zenon DEF FCInit, RoundComplete, expired
<1>3. sweeper.now_time <= now
  BY DEF FCInit
<1> QED
  BY <1>1, <1>2, <1>3, Zenon DEF FCInv

\* The inductive invariant of the cache holds always.
LEMMA CacheInvariant == FCSpec => []FCInv
<1>1. FCInit => FCInv
  BY CacheInit, Zenon
<1>2. FCInv /\ [FCNext]_fcVars => FCInv'
  BY CacheStep, Zenon
<1> QED
  BY <1>1, <1>2, PTL DEF FCSpec

\* For any number of keys and shards and any expirations: whatever callers put, renew and
\* append while expired_check_func is on its way, the shards it has been through hold nothing
\* that had expired when its round began.
THEOREM RoundsComplete == FCSpec => []RoundComplete
<1>1. FCInv => RoundComplete
  BY Zenon DEF FCInv
<1> QED
  BY <1>1, CacheInvariant, PTL

\* expired_check_func removes only what get() would no longer return, although it compares
\* with the clock of the beginning of its round.
THEOREM RemovesOnlyExpired == FCSpec => OnlyExpiredRemoved
<1>1. ASSUME FCInv, sweep_shard, NEW k \in Keys, container'[k] # container[k]
      PROVE  get_data(k) = {}
  <2>1. container'[k] = IF ShardOf[k] = sweeper.shard /\ expired(container[k], sweeper.now_time)
                        THEN Absent ELSE container[k]
    BY <1>1, Zenon DEF sweep_shard, del_expired_keys
  <2>2. expired(container[k], sweeper.now_time)
    BY <1>1, <2>1, Zenon
  <2>3. now \in Nat /\ sweeper.now_time \in Nat /\ container[k].expiration \in Int
        /\ sweeper.now_time <= now
    BY <1>1, Zenon DEF FCInv, FCTypeOK, Items
  <2>4. expired(container[k], now)
    BY <2>2, <2>3 DEF expired
  <2> QED
    BY <2>4, Zenon DEF get_data
<1>2. FCInv /\ [FCNext]_fcVars => [SweepKeeps]_fcVars
  BY <1>1, Zenon DEF SweepKeeps
<1> QED
  BY <1>2, CacheInvariant, PTL DEF FCSpec, OnlyExpiredRemoved

-----------------------------------------------------------------------------
(***************************************************************************)
(* ByteBuffer.                                                             *)
(***************************************************************************)

\* A vector buf with the positions r and w has the bytes d between the positions.
Shows(buf, r, w, d) ==
    /\ buf \in Seq(Nat) /\ d \in Seq(Nat) /\ r \in Nat /\ w \in Nat
    /\ r <= w /\ w <= Len(buf) /\ Len(d) = w - r
    /\ \A i \in 1..Len(d) : d[i] = buf[r + i]

\* A function on 1..n is a sequence of length n.
LEMMA AsSeq ==
    ASSUME NEW n \in Nat, NEW f, f = [i \in 1..n |-> f[i]], \A i \in 1..n : f[i] \in Nat
    PROVE  f \in Seq(Nat) /\ Len(f) = n
OBVIOUS

\* c is buf with str copied to position pos on.
CopyOf(c, buf, pos, str) ==
    /\ c \in Seq(Nat) /\ Len(c) = Len(buf)
    /\ \A i \in 1..Len(buf) : i <= pos => c[i] = buf[i]
    /\ \A i \in 1..Len(str) : c[pos + i] = str[i]

\* std::copy into a place that is large enough writes str there and nothing else.
LEMMA CopiedIs ==
    ASSUME NEW buf \in Seq(Nat), NEW pos \in Nat, NEW str \in Seq(Nat), pos + Len(str) <= Len(buf)
    PROVE  CopyOf(Copied(buf, pos, str), buf, pos, str)
<1> DEFINE c == Copied(buf, pos, str)
<1>1. c = [i \in 1..Len(buf) |-> IF i \in pos + 1..pos + Len(str) THEN str[i - pos] ELSE buf[i]]
  BY Zenon DEF Copied
<1>2. \A i \in 1..Len(buf) : i \in pos + 1..pos + Len(str) => i - pos \in 1..Len(str)
  OBVIOUS
<1>3. \A i \in 1..Len(buf) : c[i] \in Nat
  BY <1>1, <1>2, SMTT(30)
<1>4. c \in Seq(Nat) /\ Len(c) = Len(buf)
  BY <1>1, <1>3, AsSeq
<1>5. \A i \in 1..Len(buf) : i <= pos => c[i] = buf[i]
  BY <1>1
<1>6. ASSUME NEW i \in 1..Len(str) PROVE c[pos + i] = str[i]
  <2>1. pos + i \in 1..Len(buf) /\ pos + i \in pos + 1..pos + Len(str) /\ (pos + i) - pos = i
    OBVIOUS
  <2> QED
    BY <1>1, <2>1, Zenon
<1> QED
  BY <1>4, <1>5, <1>6, Zenon DEF CopyOf

\* Sequences of the same length with the same elements are equal.
LEMMA SameSeq ==
    ASSUME NEW c \in Seq(Nat), NEW e \in Seq(Nat), Len(c) = Len(e), \A i \in 1..Len(c) : c[i] = e[i]
    PROVE  c = e
BY SMTT(30)

\* c is d with str behind it.
Concat(c, d, str) ==
    /\ c \in Seq(Nat) /\ Len(c) = Len(d) + Len(str)
    /\ \A i \in 1..Len(d) : c[i] = d[i]
    /\ \A i \in 1..Len(str) : c[Len(d) + i] = str[i]

\* What \o is, element by element.
LEMMA ConcatIs ==
    ASSUME NEW d \in Seq(Nat), NEW str \in Seq(Nat)
    PROVE  Concat(d \o str, d, str)
BY DEF Concat

\* t is what follows the first m of f.
Rest(t, f, m) == t \in Seq(Nat) /\ Len(t) = Len(f) - m /\ \A i \in 1..Len(f) - m : t[i] = f[m + i]

\* What is left of a sequence without its first m elements.
LEMMA RestIs ==
    ASSUME NEW f \in Seq(Nat), NEW m \in 0..Len(f)
    PROVE  Rest(SubSeq(f, m + 1, Len(f)), f, m)
BY DEF Rest

\* s is the first m of f.
Start(s, f, m) == s \in Seq(Nat) /\ Len(s) = m /\ \A i \in 1..m : s[i] = f[i]

\* The first m elements of a sequence.
LEMMA StartIs ==
    ASSUME NEW f \in Seq(Nat), NEW m \in 0..Len(f)
    PROVE  Start(SubSeq(f, 1, m), f, m)
BY DEF Start

\* s is what lies in f behind its first m and within its first n.
Part(s, f, m, n) == s \in Seq(Nat) /\ Len(s) = n - m /\ \A i \in 1..n - m : s[i] = f[m + i]

\* The elements m + 1 .. n of a sequence.
LEMMA PartIs ==
    ASSUME NEW f \in Seq(Nat), NEW m \in Nat, NEW n \in Nat, m <= n, n <= Len(f)
    PROVE  Part(SubSeq(f, m + 1, n), f, m, n)
BY DEF Part

\* A sequence cut in two and put behind another, piece by piece.
LEMMA Pieces ==
    ASSUME NEW d \in Seq(Nat), NEW f \in Seq(Nat), NEW m \in 0..Len(f), NEW s, NEW t, NEW b, NEW c, NEW e,
           Start(s, f, m), Rest(t, f, m), Concat(b, d, s), Concat(c, b, t), Concat(e, d, f)
    PROVE  c = e
<1>0. Len(d) \in Nat /\ Len(c) \in Nat /\ m \in Nat
  BY DEF Concat
<1> USE DEF Start, Rest, Concat
<1>1. Len(c) = Len(e) /\ Len(b) = Len(d) + m
  OBVIOUS
<1>2. ASSUME NEW i \in 1..Len(c) PROVE c[i] = e[i]
  <2>1. CASE i \in 1..Len(d)
    <3>1. i \in 1..Len(b)
      BY <2>1, <1>1
    <3> QED
      BY <2>1, <3>1, Zenon
  <2>2. CASE i \in Len(d) + 1..Len(d) + m
    <3>1. PICK j \in 1..m : i = Len(d) + j
      <4>1. i - Len(d) \in 1..m /\ i = Len(d) + (i - Len(d))
        BY <2>2
      <4> QED
        BY <4>1, Zenon
    <3>2. i \in 1..Len(b) /\ j \in 1..Len(f) /\ j \in 1..Len(s)
      BY <1>1, <3>1
    <3>3. c[i] = b[i] /\ b[Len(d) + j] = s[j] /\ s[j] = f[j]
      BY <3>2, Zenon
    <3>4. e[Len(d) + j] = f[j]
      BY <3>2, Zenon
    <3> QED
      BY <3>1, <3>3, <3>4, Zenon
  <2>3. CASE i \in Len(d) + m + 1..Len(c)
    <3>1. PICK j \in 1..Len(t) : i = Len(b) + j
      <4>1. i - Len(b) \in 1..Len(t) /\ i = Len(b) + (i - Len(b))
        BY <1>1, <2>3, SMTT(30)
      <4> QED
        BY <4>1, Zenon
    <3>2. m + j \in 1..Len(f) /\ i = Len(d) + (m + j) /\ j \in 1..Len(f) - m
      BY <1>1, <3>1
    <3>3. c[i] = t[j] /\ t[j] = f[m + j]
      BY <3>1, <3>2, ZenonT(60)
    <3>4. e[Len(d) + (m + j)] = f[m + j]
      BY <3>2, Zenon
    <3> QED
      BY <3>2, <3>3, <3>4, Zenon
  <2> HIDE DEF Start, Rest, Concat
  <2> QED
    BY <1>0, <2>1, <2>2, <2>3
<1> QED
  BY <1>1, <1>2, SameSeq, Zenon

\* s and t are the two parts of f, to be put behind d.
Cut(d, f, m, s, t) == s \in Seq(Nat) /\ Len(s) = m /\ t \in Seq(Nat) /\ (d \o s) \o t = d \o f

\* A sequence cut after m elements, behind d.
LEMMA CutIs ==
    ASSUME NEW d \in Seq(Nat), NEW f \in Seq(Nat), NEW m \in 0..Len(f)
    PROVE  Cut(d, f, m, SubSeq(f, 1, m), SubSeq(f, m + 1, Len(f)))
<1> DEFINE s == SubSeq(f, 1, m)
           t == SubSeq(f, m + 1, Len(f))
<1>1. Start(s, f, m) /\ Rest(t, f, m)
  BY StartIs, RestIs, Zenon
<1>2. s \in Seq(Nat) /\ Len(s) = m /\ t \in Seq(Nat)
  BY <1>1, Zenon DEF Start, Rest
<1> HIDE DEF s, t
<1> DEFINE b == d \o s
           c == b \o t
           e == d \o f
<1>3. Concat(b, d, s) /\ Concat(e, d, f)
  BY <1>2, ConcatIs, Zenon
<1>4. b \in Seq(Nat)
  BY <1>3, Zenon DEF Concat
<1> HIDE DEF b
<1>5. Concat(c, b, t)
  BY <1>2, <1>4, ConcatIs, Zenon
<1> HIDE DEF c, e
<1>6. c = e
  BY <1>1, <1>3, <1>5, Pieces, Zenon
<1> QED
  <2>1. Cut(d, f, m, s, t)
    BY <1>2, <1>6, Zenon DEF b, c, e, Cut
  <2> QED
    BY <2>1, Zenon DEF s, t

\* resize() in MakeSpace_.
LEMMA GrowShows ==
    ASSUME NEW buf, NEW r, NEW w, NEW d, Shows(buf, r, w, d), NEW n \in Nat, Len(buf) <= n,
           NEW g, g = [i \in 1..n |-> IF i <= Len(buf) THEN buf[i] ELSE Zero]
    PROVE  Shows(g, r, w, d) /\ Len(g) = n
<1> USE DEF Shows
<1>1. \A i \in 1..n : g[i] \in Nat
  BY DEF Zero
<1>2. g \in Seq(Nat) /\ Len(g) = n
  BY <1>1, AsSeq, Zenon
<1>3. ASSUME NEW i \in 1..Len(d) PROVE d[i] = g[r + i]
  <2>1. r + i \in 1..n /\ r + i <= Len(buf)
    BY SMTT(30)
  <2> QED
    BY <2>1, Zenon
<1> QED
  BY <1>2, <1>3

\* The other way of MakeSpace_: what can be read moves to the front.
LEMMA MoveShows ==
    ASSUME NEW buf, NEW r, NEW w, NEW d, Shows(buf, r, w, d)
    PROVE  LET g == Copied(buf, 0, SubSeq(buf, r + 1, w))
           IN  Shows(g, 0, w - r, d) /\ Len(g) = Len(buf)
<1> DEFINE s == SubSeq(buf, r + 1, w)
           g == Copied(buf, 0, s)
<1>0. /\ buf \in Seq(Nat) /\ d \in Seq(Nat) /\ r \in Nat /\ w \in Nat
      /\ r <= w /\ w <= Len(buf) /\ Len(d) = w - r
      /\ \A i \in 1..Len(d) : d[i] = buf[r + i]
  BY Zenon DEF Shows
<1>1. s \in Seq(Nat) /\ Len(s) = w - r /\ \A i \in 1..w - r : s[i] = buf[r + i]
  BY <1>0, PartIs, Zenon DEF Part
<1> HIDE DEF s
<1>2. 0 + Len(s) <= Len(buf)
  BY <1>0, <1>1
<1>3. CopyOf(g, buf, 0, s)
  BY <1>0, <1>1, <1>2, CopiedIs, Zenon
<1> HIDE DEF g
<1>4. g \in Seq(Nat) /\ Len(g) = Len(buf) /\ \A i \in 1..Len(s) : g[0 + i] = s[i]
  BY <1>3, Zenon DEF CopyOf
<1>5. w - r \in Nat /\ 0 <= w - r /\ w - r <= Len(g) /\ Len(d) = (w - r) - 0
  BY <1>0, <1>4
<1>6. \A i \in 1..Len(d) : d[i] = g[0 + i]
  BY <1>0, <1>1, <1>4, Zenon
<1>7. Shows(g, 0, w - r, d)
  BY <1>0, <1>4, <1>5, <1>6, Zenon DEF Shows
<1> QED
  BY <1>4, <1>7, Zenon DEF g, s

\* Bytes written behind the end, where there is room for them.
LEMMA PutShows ==
    ASSUME NEW buf, NEW r, NEW w, NEW d, Shows(buf, r, w, d),
           NEW str \in Seq(Nat), w + Len(str) <= Len(buf)
    PROVE  Shows(Copied(buf, w, str), r, w + Len(str), d \o str)
<1> USE DEF Shows
<1> DEFINE g == Copied(buf, w, str)
           c == d \o str
<1>1. /\ g \in Seq(Nat) /\ Len(g) = Len(buf)
      /\ \A i \in 1..Len(buf) : i <= w => g[i] = buf[i]
      /\ \A i \in 1..Len(str) : g[w + i] = str[i]
  <2>1. CopyOf(g, buf, w, str)
    BY CopiedIs, Zenon
  <2> QED
    BY <2>1, Zenon DEF CopyOf
<1>2. /\ c \in Seq(Nat) /\ Len(c) = Len(d) + Len(str)
      /\ \A i \in 1..Len(d) : c[i] = d[i]
      /\ \A i \in 1..Len(str) : c[Len(d) + i] = str[i]
  BY ConcatIs, Zenon DEF Concat
<1> HIDE DEF g, c
<1>3. ASSUME NEW i \in 1..Len(c) PROVE c[i] = g[r + i]
  <2>1. CASE i <= Len(d)
    <3>1. i \in 1..Len(d) /\ r + i \in 1..Len(buf) /\ r + i <= w
      BY <1>2, <2>1
    <3> QED
      BY <1>1, <1>2, <3>1, Zenon
  <2>2. CASE i > Len(d)
    <3>1. PICK j \in 1..Len(str) : i = Len(d) + j
      <4>1. i - Len(d) \in 1..Len(str) /\ i = Len(d) + (i - Len(d))
        BY <1>2, <2>2
      <4> QED
        BY <4>1, Zenon
    <3>2. r + i = w + j
      BY <3>1
    <3> QED
      BY <1>1, <1>2, <3>1, <3>2
  <2> QED
    BY <1>2, <2>1, <2>2
<1>4. w + Len(str) \in Nat /\ r <= w + Len(str) /\ w + Len(str) <= Len(g) /\ Len(c) = (w + Len(str)) - r
  BY <1>1, <1>2
<1>5. Shows(g, r, w + Len(str), c)
  BY <1>1, <1>2, <1>3, <1>4, Zenon
<1> QED
  BY <1>5, Zenon DEF g, c

\* The three fields of a Buffer.
Holds(b, d) ==
    /\ b = [buffer |-> b.buffer, readPos |-> b.readPos, writePos |-> b.writePos]
    /\ Shows(b.buffer, b.readPos, b.writePos, d)

\* EnsureWriteable makes room for len bytes and keeps what is to be read.
LEMMA EnsureHolds ==
    ASSUME NEW b, NEW d, Holds(b, d), NEW len \in Nat
    PROVE  LET e == EnsureWriteable(b, len)
           IN  Holds(e, d) /\ e.writePos + len <= Len(e.buffer)
<1>1. PICK buf, r, w : /\ b = [buffer |-> buf, readPos |-> r, writePos |-> w]
                       /\ Shows(buf, r, w, d)
  BY Zenon DEF Holds
<1>2. r \in Nat /\ w \in Nat /\ r <= w /\ Len(buf) \in Nat /\ w <= Len(buf)
  BY <1>1 DEF Shows
<1> DEFINE e == EnsureWriteable(b, len)
<1>3. CASE Len(buf) - w >= len
  <2>1. e = b
    BY <1>1, <1>2, <1>3 DEF EnsureWriteable, WritableBytes
  <2> QED
    BY <1>1, <1>2, <1>3, <2>1
<1>4. CASE Len(buf) - w < len /\ Len(buf) - w + r < len
  <2> DEFINE g == [i \in 1..w + len + 1 |-> IF i <= Len(buf) THEN buf[i] ELSE Zero]
  <2>1. e = [buffer |-> g, readPos |-> r, writePos |-> w]
    BY <1>1, <1>2, <1>4, Zenon DEF EnsureWriteable, MakeSpace_, WritableBytes, PrependableBytes
  <2>2. w + len + 1 \in Nat /\ Len(buf) <= w + len + 1
    BY <1>2, <1>4, SMTT(30)
  <2>3. Shows(g, r, w, d) /\ Len(g) = w + len + 1
    BY <1>1, <2>2, GrowShows, SMTT(30)
  <2> HIDE DEF g
  <2> QED
    BY <1>2, <2>1, <2>3 DEF Holds
<1>5. CASE Len(buf) - w < len /\ Len(buf) - w + r >= len
  <2> DEFINE g == Copied(buf, 0, SubSeq(buf, r + 1, w))
  <2>1. e = [buffer |-> g, readPos |-> 0, writePos |-> w - r]
    BY <1>1, <1>2, <1>5, SMTT(30) DEF EnsureWriteable, MakeSpace_, WritableBytes, PrependableBytes, ReadableBytes
  <2>2. Shows(g, 0, w - r, d) /\ Len(g) = Len(buf)
    BY <1>1, MoveShows, Zenon
  <2> HIDE DEF g
  <2> QED
    BY <1>2, <1>5, <2>1, <2>2 DEF Holds
<1> QED
  BY <1>2, <1>3, <1>4, <1>5

\* Append puts str behind what is to be read.
LEMMA AppendHolds ==
    ASSUME NEW b, NEW d, Holds(b, d), NEW str \in Seq(Nat)
    PROVE  Holds(Append_(b, str), d \o str)
<1> DEFINE e == EnsureWriteable(b, Len(str))
<1>1. Holds(e, d) /\ e.writePos + Len(str) <= Len(e.buffer)
  BY EnsureHolds
<1>2. Append_(b, str) = [e EXCEPT !.buffer = Copied(@, e.writePos, str), !.writePos = @ + Len(str)]
  BY Zenon DEF Append_
<1> HIDE DEF e
<1>3. PICK buf, r, w : /\ e = [buffer |-> buf, readPos |-> r, writePos |-> w]
                       /\ Shows(buf, r, w, d) /\ w + Len(str) <= Len(buf)
  BY <1>1, Zenon DEF Holds
<1>4. Append_(b, str) = [buffer |-> Copied(buf, w, str), readPos |-> r, writePos |-> w + Len(str)]
  BY <1>2, <1>3, Zenon
<1>5. Shows(Copied(buf, w, str), r, w + Len(str), d \o str)
  BY <1>3, PutShows, Zenon
<1> QED
  BY <1>4, <1>5 DEF Holds

-----------------------------------------------------------------------------
\* The bytes that come next.
LEMMA FreshBytes ==
    ASSUME MaxLength \in Nat, due \in Seq(Nat), NEW n \in Nat
    PROVE  Fresh(n) \in Seq(Nat) /\ Len(Fresh(n)) = n
<1> DEFINE last == IF due = <<>> THEN 0 ELSE due[Len(due)]
<1>1. last \in Nat
  OBVIOUS
<1> HIDE DEF last
<1>2. Fresh(n) = [i \in 1..n |-> ((last + i - 1) % Turns) + 1]
  BY Zenon DEF Fresh, last
<1>3. Turns \in Nat /\ Turns > 0
  BY DEF Turns
<1>4. \A i \in 1..n : ((last + i - 1) % Turns) + 1 \in Nat
  BY <1>1, <1>3
<1> QED
  BY <1>2, <1>4, AsSeq, ZenonT(60)

\* What lies between readPos and writePos is what is due.
BBInv == Shows(buffer, readPos, writePos, due)

\* The empty buffer satisfies the invariant.
LEMMA BBInitially ==
    ASSUME BBInit
    PROVE  BBInv
<1>1. \A i \in 1..FirstSize : buffer[i] \in Nat
  BY Zenon DEF BBInit, Zero
<1>2. buffer \in Seq(Nat) /\ Len(buffer) = FirstSize
  BY BufferAssumption, <1>1, AsSeq, Zenon DEF BBInit
<1> QED
  BY BufferAssumption, <1>2 DEF BBInit, BBInv, Shows

\* Becomes takes the three fields.
LEMMA BecomesHolds ==
    ASSUME NEW b, NEW d, Holds(b, d), Becomes(b), due' = d
    PROVE  BBInv'
BY Zenon DEF Becomes, Holds, BBInv

\* ReadFd, when the overflow area was used: the fields of the buffer after the
\* assignment.
LEMMA Filled ==
    ASSUME NEW v, NEW r, NEW w, NEW g, NEW l,
           NEW b, b = [buffer |-> v, readPos |-> r, writePos |-> w],
           NEW c, c = [b EXCEPT !.buffer = g, !.writePos = l]
    PROVE  c = [buffer |-> g, readPos |-> r, writePos |-> l]
BY Zenon

\* The invariant, said of the record of the three variables.
LEMMA TheHolds ==
    ASSUME BBInv
    PROVE  Holds(The, due)
BY Zenon DEF BBInv, Holds, The

\* Append keeps the invariant.
LEMMA BBAppends ==
    ASSUME BBInv, NEW n \in 0..MaxLength, Appends(n)
    PROVE  BBInv'
<1> DEFINE f == Fresh(n)
<1>1. f \in Seq(Nat)
  BY BufferAssumption, FreshBytes DEF BBInv, Shows
<1>2. Becomes(Append_(The, f)) /\ due' = due \o f
  BY Zenon DEF Appends
<1> HIDE DEF f
<1>3. Holds(Append_(The, f), due \o f)
  BY <1>1, TheHolds, AppendHolds, Zenon
<1> QED
  BY <1>2, <1>3, BecomesHolds, Zenon

\* ReadFd keeps the invariant, with and without its overflow area.
LEMMA BBReadFd ==
    ASSUME BBInv, NEW n \in 0..MaxLength, ReadFd(n)
    PROVE  BBInv'
<1> DEFINE f == Fresh(n)
           m == Len(buffer) - writePos
<1>0. buffer \in Seq(Nat) /\ due \in Seq(Nat) /\ writePos \in Nat /\ m \in Nat /\ writePos + m = Len(buffer)
  BY DEF BBInv, Shows
<1>1. f \in Seq(Nat) /\ Len(f) = n
  BY BufferAssumption, <1>0, FreshBytes
<1>2. /\ due' = due \o f
      /\ IF n <= m
         THEN Becomes([The EXCEPT !.buffer = Copied(@, writePos, f), !.writePos = @ + n])
         ELSE Becomes(Append_([The EXCEPT !.buffer = Copied(@, writePos, SubSeq(f, 1, m)),
                                          !.writePos = Len(buffer)],
                              SubSeq(f, m + 1, n)))
  BY Zenon DEF ReadFd, WritableBytes, The
<1> HIDE DEF f, m
<1>3. CASE n <= m
  <2>1. Shows(Copied(buffer, writePos, f), readPos, writePos + n, due \o f)
    BY <1>0, <1>1, <1>3, PutShows DEF BBInv
  <2>2. /\ buffer' = Copied(buffer, writePos, f) /\ readPos' = readPos /\ writePos' = writePos + n
    BY <1>2, <1>3, Zenon DEF Becomes, The
  <2> QED
    BY <1>2, <2>1, <2>2, Zenon DEF BBInv
<1>4. CASE n > m
  <2> DEFINE s == SubSeq(f, 1, m)
             t == SubSeq(f, m + 1, n)
             b == [The EXCEPT !.buffer = Copied(@, writePos, s), !.writePos = Len(buffer)]
  <2>1. s \in Seq(Nat) /\ Len(s) = m /\ t \in Seq(Nat) /\ (due \o s) \o t = due \o f
    <3>1. m \in 0..Len(f)
      BY <1>0, <1>1, <1>4
    <3>2. s = SubSeq(f, 1, m) /\ t = SubSeq(f, m + 1, Len(f))
      BY <1>1, Zenon
    <3> HIDE DEF s, t
    <3>3. Cut(due, f, m, SubSeq(f, 1, m), SubSeq(f, m + 1, Len(f)))
      BY <1>0, <1>1, <3>1, CutIs, Zenon
    <3>4. Cut(due, f, m, s, t)
      BY <3>2, <3>3, Zenon
    <3> QED
      BY <3>4, Zenon DEF Cut
  <2>2. Becomes(Append_(b, t))
    BY <1>0, <1>2, <1>4
  <2> HIDE DEF s, t
  <2>3. Shows(Copied(buffer, writePos, s), readPos, Len(buffer), due \o s)
    <3>1. Shows(buffer, readPos, writePos, due) /\ writePos + Len(s) = Len(buffer) /\ Len(buffer) \in Nat
      BY <1>0, <2>1 DEF BBInv
    <3>2. writePos + Len(s) <= Len(buffer)
      BY <3>1
    <3>3. Shows(Copied(buffer, writePos, s), readPos, writePos + Len(s), due \o s)
      BY <2>1, <3>1, <3>2, PutShows, Zenon
    <3> QED
      BY <3>1, <3>3, Zenon
  <2>4. b = [buffer |-> Copied(buffer, writePos, s), readPos |-> readPos, writePos |-> Len(buffer)]
    <3>1. The = [buffer |-> buffer, readPos |-> readPos, writePos |-> writePos]
      BY Zenon DEF The
    <3>2. The.buffer = buffer
      BY <3>1, Zenon
    <3>3. b = [The EXCEPT !.buffer = Copied(buffer, writePos, s), !.writePos = Len(buffer)]
      BY <3>2, Zenon
    <3> HIDE DEF b
    <3> QED
      BY <3>1, <3>3, Filled, Zenon
  <2>5. Holds(b, due \o s)
    BY <2>3, <2>4, Zenon DEF Holds
  <2> HIDE DEF b
  <2>6. Holds(Append_(b, t), (due \o s) \o t)
    BY <2>1, <2>5, AppendHolds, Zenon
  <2> QED
    BY <1>2, <2>1, <2>2, <2>6, BecomesHolds, Zenon
<1> QED
  BY <1>0, <1>3, <1>4

\* Retrieve keeps the invariant.
LEMMA BBRetrieves ==
    ASSUME BBInv, NEW n \in 0..MaxLength, Retrieve(n)
    PROVE  BBInv'
<1>0. /\ buffer \in Seq(Nat) /\ due \in Seq(Nat) /\ readPos \in Nat /\ writePos \in Nat
      /\ readPos <= writePos /\ writePos <= Len(buffer) /\ Len(due) = writePos - readPos
      /\ \A i \in 1..Len(due) : due[i] = buffer[readPos + i]
  BY Zenon DEF BBInv, Shows
<1>1. /\ n <= writePos - readPos /\ readPos' = readPos + n /\ due' = SubSeq(due, n + 1, Len(due))
      /\ buffer' = buffer /\ writePos' = writePos
  BY Zenon DEF Retrieve, ReadableBytes, The
<1> DEFINE d == SubSeq(due, n + 1, Len(due))
<1>2. d \in Seq(Nat) /\ Len(d) = Len(due) - n /\ \A i \in 1..Len(due) - n : d[i] = due[n + i]
  <2>1. n \in 0..Len(due)
    BY BufferAssumption, <1>0, <1>1
  <2> QED
    BY <1>0, <2>1, RestIs, Zenon DEF Rest
<1> HIDE DEF d
<1>3. \A i \in 1..Len(due) - n : d[i] = buffer[(readPos + n) + i]
  <2> SUFFICES ASSUME NEW i \in 1..Len(due) - n PROVE d[i] = buffer[(readPos + n) + i]
    BY Zenon
  <2>0. n \in Nat /\ Len(due) \in Nat /\ readPos \in Nat
    BY BufferAssumption, <1>0
  <2>1. n + i \in 1..Len(due) /\ readPos + (n + i) = (readPos + n) + i
    BY <2>0
  <2> QED
    BY <1>0, <1>2, <2>1, Zenon
<1>4. Shows(buffer, readPos + n, writePos, d)
  BY BufferAssumption, <1>0, <1>1, <1>2, <1>3 DEF Shows
<1> QED
  BY <1>1, <1>4, Zenon DEF BBInv, d

\* RetrieveAll keeps the invariant.
LEMMA BBRetrieveAll ==
    ASSUME BBInv, RetrieveAll
    PROVE  BBInv'
<1>1. \A i \in 1..Len(buffer) : buffer'[i] \in Nat
  BY Zenon DEF RetrieveAll, Zero
<1>2. Len(buffer) \in Nat
  BY DEF BBInv, Shows
<1>3. buffer' \in Seq(Nat) /\ Len(buffer') = Len(buffer)
  BY <1>1, <1>2, AsSeq DEF RetrieveAll
<1> QED
  BY <1>2, <1>3 DEF RetrieveAll, BBInv, Shows

(* What can be read from a Buffer is what was put in and not taken out, in its order, through  *)
(* every move to the front and every growth of MakeSpace_ and every ReadFd that fills both     *)
(* vectors, whatever the sizes of the first buffer and of the second.                          *)
THEOREM BufferKeepsBytes == BBSpec => []BufferExact
<1>1. BBInit => BBInv
  BY BBInitially, Zenon
<1>2. BBInv /\ [BBNext]_bbVars => BBInv'
  <2> SUFFICES ASSUME BBInv, [BBNext]_bbVars PROVE BBInv'
    BY Zenon
  <2>1. CASE BBNext
    BY <2>1, BBAppends, BBReadFd, BBRetrieves, BBRetrieveAll, Zenon DEF BBNext
  <2>2. CASE UNCHANGED bbVars
    BY <2>2, Zenon DEF bbVars, BBInv
  <2> QED
    BY <2>1, <2>2, Zenon
<1>3. BBInv => BufferExact
  <2> SUFFICES ASSUME BBInv PROVE BufferExact
    BY Zenon
  <2> DEFINE s == SubSeq(buffer, readPos + 1, writePos)
  <2>1. /\ buffer \in Seq(Nat) /\ due \in Seq(Nat) /\ readPos \in Nat /\ writePos \in Nat
        /\ readPos <= writePos /\ writePos <= Len(buffer) /\ Len(due) = writePos - readPos
        /\ \A i \in 1..Len(due) : due[i] = buffer[readPos + i]
    BY Zenon DEF BBInv, Shows
  <2>2. /\ s \in Seq(Nat) /\ Len(s) = writePos - readPos
        /\ \A i \in 1..writePos - readPos : s[i] = buffer[readPos + i]
    BY <2>1, PartIs, Zenon DEF Part
  <2> HIDE DEF s
  <2>3. s = due
    BY <2>1, <2>2
  <2> QED
    BY <2>1, <2>3, Zenon DEF BufferExact, s
<1> QED
  BY <1>1, <1>2, <1>3, PTL DEF BBSpec
=============================================================================
