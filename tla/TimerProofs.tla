---------------------------- MODULE TimerProofs ----------------------------
(***************************************************************************)
(* Proofs about the heap of deadlines and about the earlier server that     *)
(* closes idle connections with it (HeapTimer, EpollServer).                *)
(***************************************************************************)
EXTENDS EpollServer, WellFoundedInduction, TLAPS

(***************************************************************************)
(* Loops.  Iterates(body, start) is a recursive function: it exists, and    *)
(* what its steps keep holds of all its values.                             *)
(***************************************************************************)

\* A set of numbers that is not empty has a least one.
LEMMA LeastNat ==
    ASSUME NEW T, T \subseteq Nat, T # {}
    PROVE  \E m \in T : \A k \in T : m <= k
<1> DEFINE Below == {p \in Nat \X Nat : p[1] < p[2]}
<1>0. IsWellFoundedOn(Below, Nat)
  BY NatLessThanWellFounded, Zenon DEF OpToRel
<1>1. \E x \in T : \A y \in T : ~ (<<y, x>> \in Below)
  BY <1>0, WFMin, Zenon
<1>2. ASSUME NEW x \in T, NEW y \in T, ~ (<<y, x>> \in Below) PROVE x <= y
  BY <1>2
<1>3. QED
  BY <1>1, <1>2, Zenon

-----------------------------------------------------------------------------
\* The first n iterations of a loop.
Runs_(g, n, S, F, a) ==
    /\ g \in [0..n -> S] /\ g[0] = a
    /\ \A k \in 0..n - 1 : g[k + 1] = F[g[k]]

\* A loop with a body that is a function of its states can be run n times.
LEMMA RunsExist ==
    ASSUME NEW S, NEW F \in [S -> S], NEW a \in S, NEW n \in Nat
    PROVE  \E g : Runs_(g, n, S, F, a)
<1> DEFINE T == {m \in Nat : ~\E g : Runs_(g, m, S, F, a)}
<1> SUFFICES ASSUME T # {} PROVE FALSE
  BY Zenon
<1>1. PICK m \in T : \A k \in T : m <= k
  BY LeastNat, Zenon
<1>2. CASE m = 0
  <2>1. Runs_([k \in 0..0 |-> a], 0, S, F, a)
    BY DEF Runs_
  <2> QED
    BY <1>1, <1>2, <2>1, Zenon
<1>3. CASE m # 0
  <2>1. m - 1 \in Nat /\ m - 1 \notin T
    BY <1>1, <1>3
  <2>2. PICK g : Runs_(g, m - 1, S, F, a)
    BY <2>1, Zenon
  <2> DEFINE f == [k \in 0..m |-> IF k = m THEN F[g[m - 1]] ELSE g[k]]
  <2>3. /\ g \in [0..m - 1 -> S] /\ g[0] = a
        /\ \A k \in 0..(m - 1) - 1 : g[k + 1] = F[g[k]]
    BY <2>2, Zenon DEF Runs_
  <2>4. f \in [0..m -> S]
    BY <1>1, <1>3, <2>3
  <2>5. f[0] = a
    BY <1>1, <1>3, <2>3
  <2>6. ASSUME NEW k \in 0..m - 1 PROVE f[k + 1] = F[f[k]]
    <3>1. CASE k = m - 1
      BY <1>1, <1>3, <2>3, <3>1
    <3>2. CASE k # m - 1
      BY <1>1, <1>3, <2>3, <3>2
    <3> QED
      BY <3>1, <3>2, Zenon
  <2>7. Runs_(f, m, S, F, a)
    BY <2>4, <2>5, <2>6, Zenon DEF Runs_
  <2> QED
    BY <1>1, <2>7, Zenon
<1> QED
  BY <1>2, <1>3, Zenon

\* There is one run only: a longer one passes through the same states.
LEMMA RunsAgree ==
    ASSUME NEW S, NEW F \in [S -> S], NEW a \in S, NEW n \in Nat, NEW m \in Nat, n <= m,
           NEW g, Runs_(g, n, S, F, a), NEW f, Runs_(f, m, S, F, a)
    PROVE  g[n] = f[n]
<1> DEFINE D == {k \in 0..n : g[k] # f[k]}
<1>0. g[0] = a /\ f[0] = a /\ (\A k \in 0..n - 1 : g[k + 1] = F[g[k]]) /\ \A k \in 0..m - 1 : f[k + 1] = F[f[k]]
  BY Zenon DEF Runs_
<1>1. SUFFICES ASSUME D # {} PROVE FALSE
  OBVIOUS
<1>2. PICK k \in D : \A l \in D : k <= l
  <2>1. D \subseteq Nat
    OBVIOUS
  <2> QED
    BY <1>1, <2>1, LeastNat, Zenon
<1>3. k # 0
  BY <1>0, <1>2, Zenon
<1>4. k - 1 \in 0..n /\ k - 1 \notin D /\ k - 1 \in 0..n - 1 /\ k - 1 \in 0..m - 1 /\ (k - 1) + 1 = k
  BY <1>2, <1>3
<1>5. g[k - 1] = f[k - 1]
  BY <1>4, Zenon
<1>6. g[k] = F[g[k - 1]] /\ f[k] = F[f[k - 1]]
  BY <1>0, <1>4, Zenon
<1> QED
  BY <1>2, <1>5, <1>6, Zenon

\* What the iterations of a loop over the states S are.
LEMMA IteratesStep ==
    ASSUME NEW S, NEW F \in [S -> S], NEW a \in S
    PROVE  /\ Iterates(F, a)[0] = a
           /\ \A k \in Nat : Iterates(F, a)[k + 1] = F[Iterates(F, a)[k]]
<1> DEFINE Run(n) == CHOOSE g : Runs_(g, n, S, F, a)
           G == [n \in Nat |-> Run(n)[n]]
<1>1. \A n \in Nat : Runs_(Run(n), n, S, F, a)
  <2>1. ASSUME NEW n \in Nat PROVE Runs_(Run(n), n, S, F, a)
    <3>1. \E g : Runs_(g, n, S, F, a)
      BY RunsExist, Zenon
    <3> QED
      BY <3>1, Zenon
  <2> QED
    BY <2>1, Zenon
<1>2. G[0] = a
  BY <1>1, Zenon DEF Runs_
<1>3. ASSUME NEW k \in Nat, k # 0 PROVE G[k] = F[G[k - 1]]
  <2>0. k - 1 \in Nat /\ k - 1 <= k /\ k - 1 \in 0..k - 1 /\ (k - 1) + 1 = k
    BY <1>3
  <2>1. Runs_(Run(k), k, S, F, a) /\ Runs_(Run(k - 1), k - 1, S, F, a)
    BY <1>1, <2>0, Zenon
  <2>2. Run(k - 1)[k - 1] = Run(k)[k - 1]
    <3> HIDE DEF Run
    <3> QED
      BY <2>0, <2>1, RunsAgree
  <2>3. Run(k)[(k - 1) + 1] = F[Run(k)[k - 1]]
    BY <2>0, <2>1, Zenon DEF Runs_
  <2>4. G[k] = Run(k)[k] /\ G[k - 1] = Run(k - 1)[k - 1]
    BY <2>0, Zenon
  <2> QED
    BY <2>0, <2>2, <2>3, <2>4, Zenon
<1> DEFINE Equation(f) == f = [k \in Nat |-> IF k = 0 THEN a ELSE F[f[k - 1]]]
<1>4. Equation(G)
  <2> DEFINE E == [k \in Nat |-> IF k = 0 THEN a ELSE F[G[k - 1]]]
  <2> HIDE DEF Run
  <2>0. G = [k \in Nat |-> G[k]]
    BY Zenon
  <2> HIDE DEF G
  <2>1. G = [k \in Nat |-> G[k]] /\ E = [k \in Nat |-> E[k]]
    BY <2>0, Zenon
  <2>2. \A k \in Nat : E[k] = G[k]
    BY <1>2, <1>3, Zenon
  <2>3. G = E
    <3> HIDE DEF E
    <3> QED
      BY <2>1, <2>2, Zenon
  <2> QED
    BY <2>3, Zenon
<1>5. Iterates(F, a) = CHOOSE f : Equation(f)
  BY Zenon DEF Iterates
<1>6. Equation(Iterates(F, a))
  BY <1>4, <1>5, Zenon
<1>7. Iterates(F, a)[0] = a
  BY <1>6, Zenon
<1>8. ASSUME NEW k \in Nat PROVE Iterates(F, a)[k + 1] = F[Iterates(F, a)[k]]
  <2>0. k + 1 \in Nat /\ k + 1 # 0 /\ (k + 1) - 1 = k
    OBVIOUS
  <2> HIDE DEF Equation
  <2>1. Iterates(F, a)[k + 1] = F[Iterates(F, a)[(k + 1) - 1]]
    BY <1>6, <2>0, Zenon DEF Equation
  <2> QED
    BY <2>0, <2>1, Zenon
<1> QED
  BY <1>7, <1>8, Zenon

\* An invariant of a loop: I[k] are the states it may be in after k iterations.
LEMMA IteratesKeep ==
    ASSUME NEW S, NEW F \in [S -> S], NEW a \in S,
           NEW I, a \in I[0], \A k \in Nat : \A s \in I[k] : s \in S /\ F[s] \in I[k + 1]
    PROVE  \A k \in Nat : Iterates(F, a)[k] \in I[k]
<1> DEFINE it == Iterates(F, a)
           D == {k \in Nat : it[k] \notin I[k]}
<1>0. it[0] = a /\ \A k \in Nat : it[k + 1] = F[it[k]]
  BY IteratesStep
<1> HIDE DEF it
<1>1. SUFFICES ASSUME D # {} PROVE FALSE
  BY Zenon DEF it
<1>2. PICK k \in D : \A l \in D : k <= l
  <2>1. D \subseteq Nat
    BY Zenon
  <2> QED
    BY <1>1, <2>1, LeastNat, Zenon
<1>3. k # 0
  BY <1>0, <1>2, Zenon
<1>4. k - 1 \in Nat /\ k - 1 \notin D /\ (k - 1) + 1 = k
  BY <1>2, <1>3
<1>5. it[k - 1] \in I[k - 1]
  BY <1>4, Zenon
<1>6. F[it[k - 1]] \in I[(k - 1) + 1] /\ it[(k - 1) + 1] = F[it[k - 1]]
  BY <1>0, <1>4, <1>5, Zenon
<1> QED
  BY <1>2, <1>4, <1>6, Zenon
-----------------------------------------------------------------------------
(***************************************************************************)
(* The order of the deadlines, on the array of deadlines alone.            *)
(***************************************************************************)

\* Half of a place: its parent.
LEMMA Halves ==
    ASSUME NEW k \in Nat
    PROVE  /\ k \div 2 \in Nat
           /\ k >= 2 => k \div 2 >= 1 /\ k \div 2 < k
           /\ k < 2 => k \div 2 = 0
           /\ k = 2 * (k \div 2) \/ k = 2 * (k \div 2) + 1
  OBVIOUS

\* The deadlines of the first n nodes are in order.
Ordered(e, n) == \A k \in 2..n : e[k \div 2] <= e[k]

\* They are, but for the node at i, which may be due before its parent.
RiseOrder(e, n, i) ==
    /\ \A k \in 2..n : k # i => e[k \div 2] <= e[k]
    /\ i >= 2 => \A k \in 2..n : k \div 2 = i => e[i \div 2] <= e[k]

\* They are, but for the node at i, which may be due after its children, and before its
\* parent if it is still where it was.
DownOrder(e, n, i, start) ==
    /\ \A k \in 2..n : k # i /\ k \div 2 # i => e[k \div 2] <= e[k]
    /\ i >= 2 => \A k \in 2..n : k \div 2 = i => e[i \div 2] <= e[k]
    /\ i >= 2 /\ i # start => e[i \div 2] <= e[i]

\* An array with two of its places exchanged.
Exchanged(e, i, j) == [e EXCEPT ![i] = e[j], ![j] = e[i]]

\* siftup_ exchanges a node with its parent: the array is in order but for the parent's
\* place.
LEMMA Rises ==
    ASSUME NEW N \in Nat, NEW n \in 0..N, NEW e \in [1..N -> Int], NEW i \in 2..n,
           NEW j, j = i \div 2, e[i] <= e[j], RiseOrder(e, n, i)
    PROVE  RiseOrder(Exchanged(e, i, j), n, j)
<1> DEFINE f == Exchanged(e, i, j)
<1>0. j \in 1..N /\ j < i /\ i \in 1..N /\ i # j /\ j \in Nat
  BY Halves
<1>1. f \in [1..N -> Int] /\ f[i] = e[j] /\ f[j] = e[i] /\ \A k \in 1..N : k # i /\ k # j => f[k] = e[k]
  BY <1>0, Zenon DEF Exchanged
<1>2. /\ \A k \in 2..n : k # i => e[k \div 2] <= e[k]
      /\ \A k \in 2..n : k \div 2 = i => e[j] <= e[k]
      /\ e[i] <= e[j]
  BY DEF RiseOrder
<1> HIDE DEF f
<1>3. ASSUME NEW k \in 2..n, k # j PROVE f[k \div 2] <= f[k]
  <2>0. k \div 2 \in 1..N /\ k \div 2 < k /\ k \in 1..N
    BY Halves
  <2>1. CASE k = i
    BY <1>0, <1>1, <1>2, <2>1, Zenon
  <2>2. CASE k # i /\ k \div 2 = i
    BY <1>0, <1>1, <1>2, <1>3, <2>0, <2>2, Zenon
  <2>3. CASE k # i /\ k \div 2 = j
    <3>1. f[k] = e[k] /\ e[j] <= e[k] /\ e[j] \in Int /\ e[k] \in Int /\ e[i] \in Int
      BY <1>0, <1>1, <1>2, <1>3, <2>0, <2>3, Zenon
    <3> QED
      BY <1>1, <1>2, <2>3, <3>1
  <2>4. CASE k # i /\ k \div 2 # i /\ k \div 2 # j
    BY <1>0, <1>1, <1>2, <1>3, <2>0, <2>4, Zenon
  <2> QED
    BY <2>1, <2>2, <2>3, <2>4, Zenon
<1>4. ASSUME j >= 2, NEW k \in 2..n, k \div 2 = j PROVE f[j \div 2] <= f[k]
  <2>0. j \div 2 \in 1..N /\ j \div 2 < j /\ k \in 1..N /\ j < k /\ j \in 2..n
    BY <1>0, <1>4, Halves
  <2>1. e[j \div 2] <= e[j] /\ f[j \div 2] = e[j \div 2] /\ e[j \div 2] \in Int /\ e[j] \in Int
    <3>1. e[j \div 2] <= e[j]
      BY <1>0, <1>2, <2>0, Zenon
    <3>2. j \div 2 # i /\ j \div 2 # j
      BY <1>0, <2>0
    <3> QED
      BY <1>0, <1>1, <2>0, <3>1, <3>2, Zenon
  <2>2. CASE k = i
    BY <1>1, <2>1, <2>2, Zenon
  <2>3. CASE k # i
    <3>1. f[k] = e[k] /\ e[j] <= e[k] /\ e[k] \in Int
      <4>1. e[k \div 2] <= e[k]
        BY <1>2, <2>3, Zenon
      <4>2. k # j
        BY <1>0, <2>0
      <4> QED
        BY <1>1, <1>4, <2>0, <2>3, <4>1, <4>2, Zenon
    <3> QED
      BY <2>1, <3>1
  <2> QED
    BY <2>2, <2>3, Zenon
<1> QED
  BY <1>3, <1>4, Zenon DEF RiseOrder, f

\* siftup_ stops: the array is in order.
LEMMA RiseEnds ==
    ASSUME NEW N \in Nat, NEW n \in 0..N, NEW e \in [1..N -> Int], NEW i \in 1..N,
           RiseOrder(e, n, i), i = 1 \/ e[i \div 2] <= e[i]
    PROVE  Ordered(e, n)
  BY DEF RiseOrder, Ordered

\* siftdown_ exchanges a node with its smaller child: the array is in order but for the
\* child's place.
LEMMA Sinks ==
    ASSUME NEW N \in Nat, NEW n \in 0..N, NEW e \in [1..N -> Int], NEW i \in 1..n, NEW start,
           NEW j \in 2..n, j \div 2 = i, \A k \in 2..n : k \div 2 = i => e[j] <= e[k],
           e[j] <= e[i], DownOrder(e, n, i, start)
    PROVE  DownOrder(Exchanged(e, i, j), n, j, start)
<1> DEFINE f == Exchanged(e, i, j)
<1>0. j \in 1..N /\ i < j /\ i \in 1..N /\ i # j /\ j \in Nat /\ i \in Nat
  BY Halves
<1>1. f \in [1..N -> Int] /\ f[i] = e[j] /\ f[j] = e[i] /\ \A k \in 1..N : k # i /\ k # j => f[k] = e[k]
  BY <1>0, Zenon DEF Exchanged
<1>2. /\ \A k \in 2..n : k # i /\ k \div 2 # i => e[k \div 2] <= e[k]
      /\ i >= 2 => \A k \in 2..n : k \div 2 = i => e[i \div 2] <= e[k]
  BY Zenon DEF DownOrder
<1> HIDE DEF f
<1>3. ASSUME NEW k \in 2..n, k # j, k \div 2 # j PROVE f[k \div 2] <= f[k]
  <2>0. k \div 2 \in 1..N /\ k \div 2 < k /\ k \in 1..N
    BY Halves
  <2>1. CASE k = i
    BY <1>0, <1>1, <1>2, <1>3, <2>0, <2>1
  <2>2. CASE k \div 2 = i
    BY <1>0, <1>1, <1>3, <2>0, <2>2, Zenon
  <2>3. CASE k # i /\ k \div 2 # i
    BY <1>0, <1>1, <1>2, <1>3, <2>0, <2>3, Zenon
  <2> QED
    BY <2>1, <2>2, <2>3, Zenon
<1>4. ASSUME NEW k \in 2..n, k \div 2 = j PROVE f[j \div 2] <= f[k]
  <2>0. k \in 1..N /\ j < k
    BY <1>0, <1>4, Halves
  <2> QED
    BY <1>0, <1>1, <1>2, <1>4, <2>0, Zenon
<1>5. f[j \div 2] <= f[j]
  BY <1>1, Zenon
<1> QED
  BY <1>3, <1>4, <1>5, Zenon DEF DownOrder, f

\* A node that has stopped going down.
LEMMA SinkEnds ==
    ASSUME NEW N \in Nat, NEW n \in 0..N, NEW e \in [1..N -> Int], NEW i \in 1..n, NEW start,
           \A k \in 2..n : k \div 2 = i => e[i] <= e[k], DownOrder(e, n, i, start)
    PROVE  IF i = start THEN RiseOrder(e, n, i) ELSE Ordered(e, n)
<1>1. \A k \in 2..n : k # i => e[k \div 2] <= e[k]
  BY Zenon DEF DownOrder
<1>2. CASE i = start
  BY <1>1, <1>2, Zenon DEF DownOrder, RiseOrder
<1>3. CASE i # start
  BY <1>1, <1>3 DEF DownOrder, Ordered
<1> QED
  BY <1>2, <1>3, Zenon

\* One node has another deadline.
LEMMA OtherDeadline ==
    ASSUME NEW N \in Nat, NEW n \in 0..N, NEW e \in [1..N -> Int], NEW f, NEW i \in 1..n,
           \A k \in 1..n : k # i => f[k] = e[k], Ordered(e, n)
    PROVE  DownOrder(f, n, i, i)
<1>1. ASSUME NEW k \in 2..n, k # i, k \div 2 # i PROVE f[k \div 2] <= f[k]
  <2>1. k \div 2 \in 1..n /\ k \in 1..n
    BY Halves
  <2> QED
    BY <1>1, <2>1, Zenon DEF Ordered
<1>2. ASSUME i >= 2, NEW k \in 2..n, k \div 2 = i PROVE f[i \div 2] <= f[k]
  <2>1. i \div 2 \in 1..n /\ i \div 2 < i /\ i < k /\ k \in 1..n /\ i \in 2..n
    BY <1>2, Halves
  <2>2. e[i \div 2] <= e[i] /\ e[i] <= e[k]
    BY <1>2, <2>1, Zenon DEF Ordered
  <2>3. e[i \div 2] \in Int /\ e[i] \in Int /\ e[k] \in Int /\ f[i \div 2] = e[i \div 2] /\ f[k] = e[k]
    BY <2>1
  <2> QED
    BY <2>2, <2>3
<1> QED
  BY <1>1, <1>2, Zenon DEF DownOrder
-----------------------------------------------------------------------------
(***************************************************************************)
(* The places of the ids, and SwapNode_.                                   *)
(***************************************************************************)

\* Every id is found where it is.
Places(a, r) ==
    /\ \A id \in DOMAIN r : r[id] \in DOMAIN a /\ a[r[id]].id = id
    /\ \A i \in DOMAIN a : a[i].id \in DOMAIN r /\ r[a[i].id] = i

\* N nodes of the set S, and each has a deadline.
NodeArray(a, N, S) == a \in [1..N -> S] /\ \A s \in S : s.expires \in Int

\* The deadlines of an array of nodes.
Deadlines(a) == [k \in DOMAIN a |-> a[k].expires]

\* A timer of N nodes.
IsTimer(h, N) ==
    /\ N \in Nat /\ h = [heap |-> h.heap, ref |-> h.ref, ok |-> h.ok]
    /\ h.heap = [k \in 1..N |-> h.heap[k]] /\ \A k \in 1..N : h.heap[k].expires \in Int
    /\ h.ref \in [DOMAIN h.ref -> 1..N]
    /\ Places(h.heap, h.ref)

\* The timers with the nodes of h, of which the first n may be in other places.
Arrangements(h, N, n) ==
    {g \in [heap : [1..N -> NodesOf(h)], ref : [DOMAIN h.ref -> 1..N], ok : {h.ok}] :
        Places(g.heap, g.ref) /\ \A k \in n + 1..N : g.heap[k] = h.heap[k]}

\* Two nodes change places, and their ids with them.
LEMMA PlacesExchanged ==
    ASSUME NEW N \in Nat, NEW S, NEW a \in [1..N -> S], NEW D, NEW r \in [D -> 1..N], Places(a, r),
           NEW i \in 1..N, NEW j \in 1..N, i # j
    PROVE  Places(Exchanged(a, i, j), [r EXCEPT ![a[j].id] = i, ![a[i].id] = j])
<1> DEFINE b == Exchanged(a, i, j)
           q == [r EXCEPT ![a[j].id] = i, ![a[i].id] = j]
<1>0. /\ \A id \in D : r[id] \in 1..N /\ a[r[id]].id = id
      /\ \A k \in 1..N : a[k].id \in D /\ r[a[k].id] = k
  BY Zenon DEF Places
<1>1. /\ DOMAIN b = 1..N /\ b[i] = a[j] /\ b[j] = a[i] /\ \A k \in 1..N : k # i /\ k # j => b[k] = a[k]
  BY Zenon DEF Exchanged
<1>2. a[i].id # a[j].id /\ a[i].id \in D /\ a[j].id \in D
  BY <1>0, Zenon
<1>3. /\ DOMAIN q = D /\ q[a[j].id] = i /\ q[a[i].id] = j
      /\ \A id \in D : id # a[i].id /\ id # a[j].id => q[id] = r[id]
  BY <1>2, Zenon
<1> HIDE DEF b, q
<1>4. ASSUME NEW id \in D PROVE q[id] \in 1..N /\ b[q[id]].id = id
  <2>1. CASE id = a[i].id
    BY <1>1, <1>3, <2>1, Zenon
  <2>2. CASE id = a[j].id
    BY <1>1, <1>3, <2>2, Zenon
  <2>3. CASE id # a[i].id /\ id # a[j].id
    <3>1. r[id] # i /\ r[id] # j
      BY <1>0, <2>3, Zenon
    <3>2. r[id] \in 1..N /\ a[r[id]].id = id
      BY <1>0, Zenon
    <3>3. q[id] = r[id]
      BY <1>3, <2>3, Zenon
    <3>4. b[r[id]] = a[r[id]]
      BY <1>1, <3>1, <3>2, Zenon
    <3> QED
      BY <3>2, <3>3, <3>4, Zenon
  <2> QED
    BY <2>1, <2>2, <2>3, Zenon
<1>5. ASSUME NEW k \in 1..N PROVE b[k].id \in D /\ q[b[k].id] = k
  <2>1. CASE k = i
    BY <1>1, <1>2, <1>3, <2>1, Zenon
  <2>2. CASE k = j
    BY <1>1, <1>2, <1>3, <2>2, Zenon
  <2>3. CASE k # i /\ k # j
    <3>1. a[k].id # a[i].id /\ a[k].id # a[j].id
      BY <1>0, <2>3, ZenonT(60)
    <3>2. a[k].id \in D /\ r[a[k].id] = k
      BY <1>0, Zenon
    <3>3. q[a[k].id] = r[a[k].id]
      BY <1>3, <3>1, <3>2, Zenon
    <3>4. b[k] = a[k]
      BY <1>1, <2>3, Zenon
    <3> QED
      BY <3>2, <3>3, <3>4, Zenon
  <2> QED
    BY <2>1, <2>2, <2>3, Zenon
<1> QED
  BY <1>1, <1>3, <1>4, <1>5, Zenon DEF Places, b, q

\* Exchanging two nodes exchanges their deadlines.
LEMMA DeadlinesExchanged ==
    ASSUME NEW N \in Nat, NEW S, NEW a, NodeArray(a, N, S),
           NEW i \in 1..N, NEW j \in 1..N, i # j
    PROVE  /\ Deadlines(a) \in [1..N -> Int]
           /\ Exchanged(a, i, j) \in [1..N -> S]
           /\ Deadlines(Exchanged(a, i, j)) = Exchanged(Deadlines(a), i, j)
<1>0. a \in [1..N -> S] /\ \A s \in S : s.expires \in Int
  BY Zenon DEF NodeArray
<1>1. Deadlines(a) \in [1..N -> Int]
  BY <1>0, Zenon DEF Deadlines
<1> DEFINE b == Exchanged(a, i, j)
<1>2. b \in [1..N -> S] /\ b[i] = a[j] /\ b[j] = a[i] /\ \A k \in 1..N : k # i /\ k # j => b[k] = a[k]
  BY <1>0, Zenon DEF Exchanged
<1> HIDE DEF b
<1> DEFINE d == Deadlines(b)
           f == Exchanged(Deadlines(a), i, j)
<1>3. d = [k \in 1..N |-> d[k]] /\ \A k \in 1..N : d[k] = b[k].expires
  BY <1>2, Zenon DEF Deadlines
<1>4. f = [k \in 1..N |-> f[k]]
  BY <1>1, Zenon DEF Exchanged
<1>5. f[i] = a[j].expires /\ f[j] = a[i].expires /\ \A k \in 1..N : k # i /\ k # j => f[k] = a[k].expires
  BY <1>0, <1>1, Zenon DEF Exchanged, Deadlines
<1> HIDE DEF d, f
<1>6. \A k \in 1..N : d[k] = f[k]
  BY <1>2, <1>3, <1>5
<1>7. d = f
  BY <1>3, <1>4, <1>6, Zenon
<1> QED
  BY <1>1, <1>2, <1>7, Zenon DEF d, f, b

\* SwapNode_ on an arrangement of the nodes of h.
LEMMA SwapArranges ==
    ASSUME NEW h, NEW N, IsTimer(h, N), NEW n \in 0..N, NEW g \in Arrangements(h, N, n),
           NEW i \in 1..n, NEW j \in 1..n, i # j
    PROVE  /\ SwapNode_(g, i, j) \in Arrangements(h, N, n)
           /\ Deadlines(g.heap) \in [1..N -> Int]
           /\ Deadlines(SwapNode_(g, i, j).heap) = Exchanged(Deadlines(g.heap), i, j)
<1> DEFINE S == NodesOf(h)
<1>0. N \in Nat /\ n \in Nat /\ n <= N /\ i \in 1..N /\ j \in 1..N
  BY DEF IsTimer
<1>1. \A s \in S : s.expires \in Int
  BY Zenon DEF IsTimer, NodesOf
<1>2. /\ g.heap \in [1..N -> S] /\ g.ref \in [DOMAIN h.ref -> 1..N] /\ g.ok = h.ok
      /\ Places(g.heap, g.ref) /\ \A k \in n + 1..N : g.heap[k] = h.heap[k]
  BY Zenon DEF Arrangements
<1> DEFINE s == SwapNode_(g, i, j)
<1>3. s.heap = Exchanged(g.heap, i, j) /\ s.ok = g.ok
      /\ s.ref = [g.ref EXCEPT ![g.heap[j].id] = i, ![g.heap[i].id] = j]
      /\ s = [heap |-> s.heap, ref |-> s.ref, ok |-> s.ok]
  BY Zenon DEF SwapNode_, Exchanged
<1> HIDE DEF S, s
<1>4. Places(s.heap, s.ref)
  <2> DEFINE a == g.heap
             r == g.ref
             D == DOMAIN h.ref
  <2>1. a \in [1..N -> S] /\ r \in [D -> 1..N] /\ Places(a, r)
    BY <1>2, Zenon
  <2> HIDE DEF a, r, D
  <2>2. Places(Exchanged(a, i, j), [r EXCEPT ![a[j].id] = i, ![a[i].id] = j])
    BY <1>0, <2>1, PlacesExchanged, Zenon
  <2> QED
    BY <1>3, <2>2, Zenon DEF a, r
<1>5. /\ Deadlines(g.heap) \in [1..N -> Int] /\ s.heap \in [1..N -> S]
      /\ Deadlines(s.heap) = Exchanged(Deadlines(g.heap), i, j)
  <2> DEFINE a == g.heap
  <2>1. NodeArray(a, N, S)
    BY <1>1, <1>2, Zenon DEF NodeArray
  <2> HIDE DEF a
  <2>2. /\ Deadlines(a) \in [1..N -> Int] /\ Exchanged(a, i, j) \in [1..N -> S]
        /\ Deadlines(Exchanged(a, i, j)) = Exchanged(Deadlines(a), i, j)
    BY <1>0, <2>1, DeadlinesExchanged
  <2> QED
    BY <1>3, <2>2, Zenon DEF a
<1>6. s.ref \in [DOMAIN h.ref -> 1..N]
  BY <1>0, <1>2, <1>3, Zenon
<1>7. \A k \in n + 1..N : s.heap[k] = h.heap[k]
  BY <1>0, <1>2, <1>3 DEF Exchanged
<1>8. s \in Arrangements(h, N, n)
  BY <1>2, <1>3, <1>4, <1>5, <1>6, <1>7, Zenon DEF Arrangements, S
<1> QED
  BY <1>5, <1>8, Zenon DEF s

\* The states of a loop over h.
LEMMA CursorsAre ==
    ASSUME NEW h, NEW N, IsTimer(h, N)
    PROVE  /\ Cursors(h) = [h : [heap : [1..N -> NodesOf(h)], ref : [DOMAIN h.ref -> 1..N], ok : {h.ok}], i : 1..N]
           /\ \A i \in 1..N : Cursor(h, i) \in Cursors(h)
           /\ \A n \in 0..N : h \in Arrangements(h, N, n)
<1>0. /\ DOMAIN h.heap = 1..N /\ h.heap = [k \in 1..N |-> h.heap[k]] /\ h.ref \in [DOMAIN h.ref -> 1..N]
      /\ h = [heap |-> h.heap, ref |-> h.ref, ok |-> h.ok]
      /\ Places(h.heap, h.ref)
  BY Zenon DEF IsTimer
<1>1. Cursors(h) = [h : [heap : [1..N -> NodesOf(h)], ref : [DOMAIN h.ref -> 1..N], ok : {h.ok}], i : 1..N]
  BY <1>0, Zenon DEF Cursors
<1>2. \A k \in 1..N : h.heap[k] \in NodesOf(h)
  BY <1>0, Zenon DEF NodesOf
<1>3. h.heap \in [1..N -> NodesOf(h)]
  BY <1>0, <1>2, Zenon
<1>4. h \in [heap : [1..N -> NodesOf(h)], ref : [DOMAIN h.ref -> 1..N], ok : {h.ok}]
  BY <1>0, <1>3, Zenon
<1>5. \A i \in 1..N : Cursor(h, i) \in Cursors(h)
  BY <1>1, <1>4, Zenon DEF Cursor
<1>6. \A n \in 0..N : h \in Arrangements(h, N, n)
  BY <1>0, <1>4, Zenon DEF Arrangements
<1> QED
  BY <1>1, <1>5, <1>6, Zenon

\* An exchange in any state of a loop, whether it is an arrangement or not.
LEMMA SwapCursor ==
    ASSUME NEW h, NEW N, IsTimer(h, N), NEW c \in Cursors(h), NEW i \in 1..N, NEW j \in 1..N
    PROVE  Cursor(SwapNode_(c.h, i, j), j) \in Cursors(h)
<1> DEFINE S == NodesOf(h)
           s == SwapNode_(c.h, i, j)
<1>1. Cursors(h) = [h : [heap : [1..N -> S], ref : [DOMAIN h.ref -> 1..N], ok : {h.ok}], i : 1..N]
  BY CursorsAre, Zenon
<1>2. c.h.heap \in [1..N -> S] /\ c.h.ref \in [DOMAIN h.ref -> 1..N] /\ c.h.ok = h.ok
  <2> HIDE DEF S
  <2> DEFINE R == [heap : [1..N -> S], ref : [DOMAIN h.ref -> 1..N], ok : {h.ok}]
  <2>1. c.h \in R
    <3>1. Cursors(h) = [h : R, i : 1..N]
      BY <1>1, Zenon
    <3> HIDE DEF R
    <3> QED
      BY <3>1
  <2> QED
    BY <2>1, Zenon
<1>3. s.heap = [c.h.heap EXCEPT ![i] = c.h.heap[j], ![j] = c.h.heap[i]] /\ s.ok = c.h.ok
      /\ s.ref = [c.h.ref EXCEPT ![c.h.heap[j].id] = i, ![c.h.heap[i].id] = j]
      /\ s = [heap |-> s.heap, ref |-> s.ref, ok |-> s.ok]
  BY Zenon DEF SwapNode_
<1> HIDE DEF s, S
<1>4. s.heap \in [1..N -> S] /\ s.ref \in [DOMAIN h.ref -> 1..N]
  <2>1. s.heap \in [1..N -> S]
    BY <1>2, <1>3
  <2>2. s.ref \in [DOMAIN h.ref -> 1..N]
    BY <1>2, <1>3, Zenon
  <2> QED
    BY <2>1, <2>2, Zenon
<1>5. s \in [heap : [1..N -> S], ref : [DOMAIN h.ref -> 1..N], ok : {h.ok}]
  BY <1>2, <1>3, <1>4, Zenon
<1> QED
  BY <1>1, <1>5, Zenon DEF Cursor, s
-----------------------------------------------------------------------------
(***************************************************************************)
(* siftup_: the node at i goes up, and all others are in order.            *)
(***************************************************************************)

\* The deadlines of a timer whose nodes were exchanged are numbers.
LEMMA ArrangedDeadlines ==
    ASSUME NEW h, NEW N, IsTimer(h, N), NEW n, NEW g \in Arrangements(h, N, n)
    PROVE  /\ Deadlines(g.heap) \in [1..N -> Int]
           /\ \A k \in 1..N : Deadlines(g.heap)[k] = g.heap[k].expires
<1> DEFINE b == g.heap
<1>1. b \in [1..N -> NodesOf(h)]
  BY Zenon DEF Arrangements
<1>2. \A t \in NodesOf(h) : t.expires \in Int
  BY Zenon DEF IsTimer, NodesOf
<1> HIDE DEF b
<1>3. Deadlines(b) \in [1..N -> Int] /\ \A k \in 1..N : Deadlines(b)[k] = b[k].expires
  BY <1>1, <1>2, Zenon DEF Deadlines
<1> QED
  BY <1>3, Zenon DEF b

\* A node that has stopped going up.
Risen(c) == c.i \div 2 = 0 \/ Earlier(c.h, c.i \div 2, c.i)

\* The states the loop of siftup_ may be in after k iterations.
Rising(h, N, n, start, k) ==
    {c \in Cursors(h) : /\ c.h \in Arrangements(h, N, n) /\ c.i \in 1..start
                        /\ RiseOrder(Deadlines(c.h.heap), n, c.i)
                        /\ Risen(c) \/ c.i <= start - k}

\* The body of siftup_'s loop keeps its loop invariant.
LEMMA StepUp ==
    ASSUME NEW h, NEW N, IsTimer(h, N), NEW n \in 0..N, NEW start \in 1..n, NEW k \in Nat,
           NEW c \in Rising(h, N, n, start, k)
    PROVE  step_up(c) \in Rising(h, N, n, start, k + 1)
<1>0. N \in Nat
  BY Zenon DEF IsTimer
<1> DEFINE g == c.h
           i == c.i
           j == i \div 2
<1>1. c \in Cursors(h) /\ g \in Arrangements(h, N, n) /\ i \in 1..start /\ RiseOrder(Deadlines(g.heap), n, i)
      /\ (Risen(c) \/ i <= start - k)
  BY Zenon DEF Rising
<1>2. CASE Risen(c)
  <2>1. step_up(c) = c
    BY <1>2, Zenon DEF Risen, step_up
  <2> QED
    BY <1>1, <1>2, <2>1, Zenon DEF Rising
<1>3. CASE ~Risen(c)
  <2>0. start \in Nat /\ start <= N /\ i <= start - k /\ i \in Nat
    BY <1>0, <1>1, <1>3
  <2>1. j # 0 /\ ~Earlier(g, j, i)
    BY <1>3, Zenon DEF Risen
  <2> DEFINE s == SwapNode_(g, i, j)
  <2>2. step_up(c) = Cursor(s, j)
    BY <2>1, Zenon DEF step_up
  <2>3. i \in 2..n /\ j \in 1..n /\ j < i /\ j \in 1..start /\ j <= start - (k + 1) /\ i \in 1..N /\ j \in 1..N /\ i \in 1..n /\ i # j
    BY <1>0, <1>1, <2>0, <2>1, Halves
  <2>4. /\ s \in Arrangements(h, N, n)
        /\ Deadlines(g.heap) \in [1..N -> Int]
        /\ Deadlines(s.heap) = Exchanged(Deadlines(g.heap), i, j)
    <3> HIDE DEF g, i, j
    <3> QED
      BY <1>1, <2>3, SwapArranges DEF s
  <2>6. Deadlines(g.heap)[i] <= Deadlines(g.heap)[j]
    <3>1. Deadlines(g.heap)[i] = g.heap[i].expires /\ Deadlines(g.heap)[j] = g.heap[j].expires
      BY <1>1, <2>3, ArrangedDeadlines
    <3>2. Deadlines(g.heap)[i] \in Int /\ Deadlines(g.heap)[j] \in Int
      BY <2>3, <2>4, Zenon
    <3> QED
      BY <2>1, <3>1, <3>2 DEF Earlier
  <2>7. RiseOrder(Deadlines(s.heap), n, j)
    <3> DEFINE e == Deadlines(g.heap)
    <3>1. e \in [1..N -> Int] /\ RiseOrder(e, n, i) /\ e[i] <= e[j]
      BY <1>1, <2>4, <2>6, Zenon
    <3> HIDE DEF e
    <3>2. RiseOrder(Exchanged(e, i, j), n, j)
      BY <1>0, <2>3, <3>1, Rises, Zenon
    <3> QED
      BY <2>4, <3>2, Zenon DEF e
  <2>8. Cursor(s, j) \in Cursors(h)
    BY <1>1, <2>3, SwapCursor, Zenon
  <2>9. Cursor(s, j).h = s /\ Cursor(s, j).i = j
    BY Zenon DEF Cursor
  <2> HIDE DEF s, j
  <2> QED
    BY <2>2, <2>3, <2>4, <2>7, <2>8, <2>9, Zenon DEF Rising
<1> QED
  BY <1>2, <1>3, Zenon

\* The loop of siftup_ ends with the nodes in order.
LEMMA RiseOrders ==
    ASSUME NEW h, NEW N, IsTimer(h, N), NEW n \in 0..N, NEW i \in 1..n,
           RiseOrder(Deadlines(h.heap), n, i)
    PROVE  rise(h, i).h \in Arrangements(h, N, n) /\ Ordered(Deadlines(rise(h, i).h.heap), n)
<1>0. N \in Nat /\ i \in 1..N /\ i \in Nat
  BY DEF IsTimer
<1> DEFINE S == Cursors(h)
           F == [c \in S |-> step_up(c)]
           a == Cursor(h, i)
           I == [k \in Nat |-> Rising(h, N, n, i, k)]
<1>1. a \in S /\ a.h = h /\ a.i = i /\ h \in Arrangements(h, N, n)
  BY <1>0, CursorsAre, Zenon DEF Cursor
<1>2. F \in [S -> S]
  <2>1. ASSUME NEW c \in S PROVE step_up(c) \in S
    <3>1. c.i \in 1..N
      <4>1. Cursors(h) = [h : [heap : [1..N -> NodesOf(h)], ref : [DOMAIN h.ref -> 1..N], ok : {h.ok}], i : 1..N]
        BY CursorsAre, Zenon
      <4> QED
        BY <4>1
    <3>2. CASE c.i \div 2 = 0 \/ Earlier(c.h, c.i \div 2, c.i)
      BY <3>2, Zenon DEF step_up
    <3>3. CASE ~(c.i \div 2 = 0 \/ Earlier(c.h, c.i \div 2, c.i))
      <4>1. c.i \div 2 \in 1..N
        BY <1>0, <3>1, <3>3, Halves
      <4>2. step_up(c) = Cursor(SwapNode_(c.h, c.i, c.i \div 2), c.i \div 2)
        BY <3>3, Zenon DEF step_up
      <4> QED
        BY <3>1, <4>1, <4>2, SwapCursor, Zenon
    <3> QED
      BY <3>2, <3>3, Zenon
  <2> QED
    BY <2>1, Zenon
<1>3. a \in I[0]
  <2>1. i <= i - 0 /\ i \in 1..i
    BY <1>0
  <2>2. a \in Rising(h, N, n, i, 0)
    BY <1>1, <2>1, Zenon DEF Rising
  <2> QED
    BY <2>2, Zenon
<1>4. ASSUME NEW k \in Nat, NEW s \in I[k] PROVE s \in S /\ F[s] \in I[k + 1]
  <2>1. s \in Rising(h, N, n, i, k)
    BY <1>4, Zenon
  <2>2. s \in S
    BY <2>1, Zenon DEF Rising
  <2>3. step_up(s) \in Rising(h, N, n, i, k + 1)
    BY <2>1, StepUp, Zenon
  <2>4. k + 1 \in Nat
    OBVIOUS
  <2>5. F[s] = step_up(s) /\ I[k + 1] = Rising(h, N, n, i, k + 1)
    BY <2>2, <2>4, Zenon
  <2> QED
    BY <2>2, <2>3, <2>5, Zenon
<1>5. rise(h, i) = Iterates(F, a)[i]
  BY Zenon DEF rise
<1>6. \A k \in Nat : Iterates(F, a)[k] \in I[k]
  <2> HIDE DEF S, F, a, I
  <2> QED
    BY <1>1, <1>2, <1>3, <1>4, IteratesKeep, Zenon
<1> DEFINE c == rise(h, i)
<1>7. c \in Rising(h, N, n, i, i)
  BY <1>0, <1>5, <1>6, Zenon
<1> HIDE DEF c
<1>8. /\ c.h \in Arrangements(h, N, n) /\ c.i \in 1..i /\ RiseOrder(Deadlines(c.h.heap), n, c.i)
      /\ Risen(c) \/ c.i <= i - i
  BY <1>7, Zenon DEF Rising
<1>9. Risen(c) /\ c.i \in 1..N
  BY <1>0, <1>8
<1>10. Ordered(Deadlines(c.h.heap), n)
  <2> DEFINE b == c.h.heap
             e == Deadlines(b)
  <2>2. e \in [1..N -> Int] /\ \A k \in 1..N : e[k] = b[k].expires
    BY <1>8, ArrangedDeadlines
  <2>3. c.i = 1 \/ e[c.i \div 2] <= e[c.i]
    <3>1. CASE c.i = 1
      BY <3>1, Zenon
    <3>2. CASE c.i # 1
      <4>1. c.i \div 2 \in 1..N /\ c.i \div 2 # 0
        BY <1>0, <1>9, <3>2, Halves
      <4>2. b[c.i \div 2].expires < b[c.i].expires
        BY <1>9, <4>1, Zenon DEF Risen, Earlier
      <4>3. e[c.i \div 2] = b[c.i \div 2].expires /\ e[c.i] = b[c.i].expires /\ e[c.i \div 2] \in Int /\ e[c.i] \in Int
        BY <1>9, <2>2, <4>1, Zenon
      <4> HIDE DEF e, b
      <4> QED
        BY <4>2, <4>3
    <3> QED
      BY <3>1, <3>2, Zenon
  <2>4. RiseOrder(e, n, c.i)
    BY <1>8, Zenon
  <2> HIDE DEF e, b
  <2>5. Ordered(e, n)
    BY <1>0, <1>9, <2>2, <2>3, <2>4, RiseEnds, Zenon
  <2> QED
    BY <2>5, Zenon DEF e, b
<1> QED
  BY <1>8, <1>10, Zenon DEF c
-----------------------------------------------------------------------------
(***************************************************************************)
(* siftdown_: the node at i goes down, and all others are in order.        *)
(***************************************************************************)

\* A node that has stopped going down.
Sunk(c, n) == 2 * c.i > n \/ Earlier(c.h, c.i, smaller_child(c.h, c.i, n))

\* The states the loop of siftdown_ may be in after k iterations.
Sinking(h, N, n, start, k) ==
    {c \in Cursors(h) : /\ c.h \in Arrangements(h, N, n) /\ c.i \in start..n
                        /\ DownOrder(Deadlines(c.h.heap), n, c.i, start)
                        /\ c.i = start => c.h = h
                        /\ Sunk(c, n) \/ c.i >= start + k}

\* The smaller child is one of the two there are.
LEMMA ChildIs ==
    ASSUME NEW h, NEW i, NEW n
    PROVE  smaller_child(h, i, n) = 2 * i \/ (smaller_child(h, i, n) = 2 * i + 1 /\ 2 * i + 1 <= n)
<1>1. CASE 2 * i + 1 <= n /\ Earlier(h, 2 * i + 1, 2 * i)
  BY <1>1, Zenon DEF smaller_child
<1>2. CASE ~(2 * i + 1 <= n /\ Earlier(h, 2 * i + 1, 2 * i))
  <2>1. smaller_child(h, i, n) = 2 * i
    BY <1>2, Zenon DEF smaller_child
  <2> QED
    BY <2>1, Zenon
<1> QED
  BY <1>1, <1>2, Zenon

\* No child is due before the one siftdown_ takes.
LEMMA SmallerChild ==
    ASSUME NEW h, NEW N, IsTimer(h, N), NEW n \in 0..N, NEW g \in Arrangements(h, N, n), NEW i \in 1..n, 2 * i <= n
    PROVE  LET j == smaller_child(g, i, n)
               e == Deadlines(g.heap)
           IN  j \in 2..n /\ j \div 2 = i /\ i < j /\ \A k \in 2..n : k \div 2 = i => e[j] <= e[k]
<1> DEFINE e == Deadlines(g.heap)
<1>0. N \in Nat
  BY Zenon DEF IsTimer
<1>1. e \in [1..N -> Int] /\ \A k \in 1..N : e[k] = g.heap[k].expires
  BY ArrangedDeadlines
<1>2. \A k \in 1..N : \A l \in 1..N : Earlier(g, k, l) <=> e[k] < e[l]
  BY <1>1, Zenon DEF Earlier
<1> HIDE DEF e
<1>3. \A k \in 2..n : k \div 2 = i => k = 2 * i \/ k = 2 * i + 1
  BY <1>0, Halves
<1>4. 2 * i \in 1..N /\ 2 * i \in 2..n /\ (2 * i) \div 2 = i /\ (2 * i + 1) \div 2 = i /\ i < 2 * i /\ i < 2 * i + 1
  BY <1>0
<1>5. CASE 2 * i + 1 <= n /\ Earlier(g, 2 * i + 1, 2 * i)
  <2>1. smaller_child(g, i, n) = 2 * i + 1
    BY <1>5, Zenon DEF smaller_child
  <2>2. 2 * i + 1 \in 1..N /\ 2 * i + 1 \in 2..n
    BY <1>0, <1>5
  <2>3. e[2 * i + 1] < e[2 * i] /\ e[2 * i + 1] \in Int /\ e[2 * i] \in Int
    BY <1>1, <1>2, <1>4, <1>5, <2>2, Zenon
  <2>4. \A k \in 2..n : k \div 2 = i => e[2 * i + 1] <= e[k]
    BY <1>3, <2>3
  <2> QED
    BY <1>4, <2>1, <2>2, <2>4, Zenon DEF e
<1>6. CASE ~(2 * i + 1 <= n /\ Earlier(g, 2 * i + 1, 2 * i))
  <2>1. smaller_child(g, i, n) = 2 * i
    BY <1>6, Zenon DEF smaller_child
  <2>2. e[2 * i] \in Int
    BY <1>1, <1>4, Zenon
  <2>3. ASSUME 2 * i + 1 \in 2..n PROVE e[2 * i] <= e[2 * i + 1]
    <3>1. 2 * i + 1 \in 1..N /\ 2 * i + 1 <= n
      BY <1>0, <2>3
    <3>2. ~(e[2 * i + 1] < e[2 * i]) /\ e[2 * i + 1] \in Int
      BY <1>1, <1>2, <1>4, <1>6, <3>1, Zenon
    <3> QED
      BY <2>2, <3>2
  <2>4. \A k \in 2..n : k \div 2 = i => e[2 * i] <= e[k]
    BY <1>3, <2>2, <2>3
  <2> QED
    BY <1>4, <2>1, <2>4, Zenon DEF e
<1> QED
  BY <1>5, <1>6, Zenon

\* The body of siftdown_'s loop keeps its loop invariant.
LEMMA StepDown ==
    ASSUME NEW h, NEW N, IsTimer(h, N), NEW n \in 0..N, NEW start \in 1..n, NEW k \in Nat,
           NEW c \in Sinking(h, N, n, start, k)
    PROVE  step_down(c, n) \in Sinking(h, N, n, start, k + 1)
<1>0. N \in Nat
  BY Zenon DEF IsTimer
<1> DEFINE g == c.h
           i == c.i
           j == smaller_child(g, i, n)
<1>1. c \in Cursors(h) /\ g \in Arrangements(h, N, n) /\ i \in start..n /\ DownOrder(Deadlines(g.heap), n, i, start)
      /\ (i = start => g = h) /\ (Sunk(c, n) \/ i >= start + k)
  BY Zenon DEF Sinking
<1>2. CASE Sunk(c, n)
  <2>1. step_down(c, n) = c
    BY <1>2, Zenon DEF Sunk, step_down
  <2> QED
    BY <1>1, <1>2, <2>1, Zenon DEF Sinking
<1>3. CASE ~Sunk(c, n)
  <2>0. start \in Nat /\ start <= N /\ i >= start + k /\ i \in Nat /\ i \in 1..n
    BY <1>0, <1>1, <1>3
  <2>1. ~(2 * i > n) /\ ~Earlier(g, i, j)
    BY <1>3, Zenon DEF Sunk
  <2> DEFINE s == SwapNode_(g, i, j)
             e == Deadlines(g.heap)
  <2>2. step_down(c, n) = Cursor(s, j)
    BY <2>1, Zenon DEF step_down
  <2>3. j \in 2..n /\ j \div 2 = i /\ i < j /\ \A l \in 2..n : l \div 2 = i => e[j] <= e[l]
    <3>1. 2 * i <= n
      BY <1>0, <2>0, <2>1
    <3> HIDE DEF g, i
    <3> QED
      BY <1>1, <2>0, <3>1, SmallerChild, Zenon DEF e
  <2> HIDE DEF j
  <2>4. j \in start..n /\ j # start /\ j >= start + (k + 1) /\ i \in 1..N /\ j \in 1..N /\ j \in 1..n /\ i # j
    BY <1>0, <2>0, <2>3
  <2>5. /\ s \in Arrangements(h, N, n)
        /\ e \in [1..N -> Int]
        /\ Deadlines(s.heap) = Exchanged(e, i, j)
    <3> HIDE DEF g, i
    <3> QED
      BY <1>1, <2>0, <2>4, SwapArranges DEF s, e
  <2>6. e[j] <= e[i]
    <3>1. e[i] = g.heap[i].expires /\ e[j] = g.heap[j].expires
      BY <1>1, <2>4, ArrangedDeadlines, SMTT(30)
    <3>2. e[i] \in Int /\ e[j] \in Int
      BY <2>4, <2>5, Zenon
    <3>3. ~(e[i] < e[j])
      BY <2>1, <3>1, Zenon DEF Earlier
    <3> HIDE DEF e
    <3> QED
      BY <3>2, <3>3
  <2>7. DownOrder(Deadlines(s.heap), n, j, start)
    <3>1. DownOrder(e, n, i, start)
      BY <1>1, Zenon
    <3> HIDE DEF e
    <3>2. DownOrder(Exchanged(e, i, j), n, j, start)
      BY <1>0, <2>0, <2>3, <2>5, <2>6, <3>1, Sinks, Zenon
    <3> QED
      BY <2>5, <3>2, Zenon
  <2>8. Cursor(s, j) \in Cursors(h)
    BY <1>1, <2>4, SwapCursor, Zenon
  <2>9. Cursor(s, j).h = s /\ Cursor(s, j).i = j
    BY Zenon DEF Cursor
  <2> HIDE DEF s
  <2> QED
    BY <2>2, <2>4, <2>5, <2>7, <2>8, <2>9, Zenon DEF Sinking
<1> QED
  BY <1>2, <1>3, Zenon

\* The loop of siftdown_ ends with the nodes in order, unless the node did not move.
LEMMA SinkOrders ==
    ASSUME NEW h, NEW N, IsTimer(h, N), NEW n \in 0..N, NEW i \in 1..n,
           DownOrder(Deadlines(h.heap), n, i, i)
    PROVE  LET c == siftdown_(h, i, n)
           IN  /\ c.h \in Arrangements(h, N, n) /\ c.i \in i..n
               /\ IF c.i = i THEN c.h = h /\ RiseOrder(Deadlines(h.heap), n, i)
                  ELSE Ordered(Deadlines(c.h.heap), n)
<1>0. N \in Nat /\ i \in 1..N /\ i \in Nat /\ n \in Nat /\ i \in i..n
  BY DEF IsTimer
<1> DEFINE S == Cursors(h)
           F == [c \in S |-> step_down(c, n)]
           a == Cursor(h, i)
           I == [k \in Nat |-> Sinking(h, N, n, i, k)]
<1>1. a \in S /\ a.h = h /\ a.i = i /\ h \in Arrangements(h, N, n)
  BY <1>0, CursorsAre, Zenon DEF Cursor
<1>2. F \in [S -> S]
  <2>1. ASSUME NEW c \in S PROVE step_down(c, n) \in S
    <3> DEFINE j == smaller_child(c.h, c.i, n)
    <3>1. c.i \in 1..N
      <4>1. Cursors(h) = [h : [heap : [1..N -> NodesOf(h)], ref : [DOMAIN h.ref -> 1..N], ok : {h.ok}], i : 1..N]
        BY CursorsAre, Zenon
      <4> QED
        BY <4>1
    <3>2. CASE 2 * c.i > n \/ Earlier(c.h, c.i, j)
      BY <3>2, Zenon DEF step_down
    <3>3. CASE ~(2 * c.i > n \/ Earlier(c.h, c.i, j))
      <4>1. j = 2 * c.i \/ (j = 2 * c.i + 1 /\ 2 * c.i + 1 <= n)
        BY ChildIs, Zenon
      <4> HIDE DEF j
      <4>2. j \in 1..N
        BY <1>0, <3>1, <3>3, <4>1
      <4>3. step_down(c, n) = Cursor(SwapNode_(c.h, c.i, j), j)
        BY <3>3, Zenon DEF step_down, j
      <4> QED
        BY <3>1, <4>2, <4>3, SwapCursor, Zenon
    <3> QED
      BY <3>2, <3>3, Zenon
  <2> QED
    BY <2>1, Zenon
<1>3. a \in I[0]
  <2>1. i >= i + 0
    BY <1>0
  <2>2. a \in Sinking(h, N, n, i, 0)
    BY <1>0, <1>1, <2>1, Zenon DEF Sinking
  <2> QED
    BY <2>2, Zenon
<1>4. ASSUME NEW k \in Nat, NEW s \in I[k] PROVE s \in S /\ F[s] \in I[k + 1]
  <2>1. s \in Sinking(h, N, n, i, k)
    BY <1>4, Zenon
  <2>2. s \in S
    BY <2>1, Zenon DEF Sinking
  <2>3. step_down(s, n) \in Sinking(h, N, n, i, k + 1)
    BY <2>1, StepDown, Zenon
  <2>4. k + 1 \in Nat
    OBVIOUS
  <2>5. F[s] = step_down(s, n) /\ I[k + 1] = Sinking(h, N, n, i, k + 1)
    BY <2>2, <2>4, Zenon
  <2> QED
    BY <2>2, <2>3, <2>5, Zenon
<1> DEFINE c == siftdown_(h, i, n)
<1>5. c = Iterates(F, a)[n]
  BY Zenon DEF siftdown_
<1>6. \A k \in Nat : Iterates(F, a)[k] \in I[k]
  <2> HIDE DEF S, F, a, I
  <2> QED
    BY <1>1, <1>2, <1>3, <1>4, IteratesKeep, Zenon
<1>7. c \in Sinking(h, N, n, i, n)
  BY <1>0, <1>5, <1>6, Zenon
<1> HIDE DEF c
<1> DEFINE e == Deadlines(c.h.heap)
<1>8. /\ c.h \in Arrangements(h, N, n) /\ c.i \in i..n /\ DownOrder(e, n, c.i, i)
      /\ (c.i = i => c.h = h) /\ (Sunk(c, n) \/ c.i >= i + n)
  BY <1>7, Zenon DEF Sinking
<1>9. Sunk(c, n) /\ c.i \in 1..n /\ c.i \in 1..N
  BY <1>0, <1>8
<1>10. e \in [1..N -> Int] /\ \A k \in 1..N : e[k] = c.h.heap[k].expires
  BY <1>8, ArrangedDeadlines
<1>11. \A k \in 2..n : k \div 2 = c.i => e[c.i] <= e[k]
  <2>1. CASE 2 * c.i > n
    <3>1. ASSUME NEW k \in 2..n, k \div 2 = c.i PROVE FALSE
      BY <1>0, <1>9, <2>1, <3>1, Halves
    <3> QED
      BY <3>1, Zenon
  <2>2. CASE ~(2 * c.i > n)
    <3> DEFINE j == smaller_child(c.h, c.i, n)
               g == c.h
               p == c.i
    <3>1. 2 * p <= n /\ p \in 1..n
      BY <1>0, <1>9, <2>2
    <3>2. j \in 2..n /\ \A k \in 2..n : k \div 2 = p => e[j] <= e[k]
      <4>1. g \in Arrangements(h, N, n)
        BY <1>8, Zenon
      <4> HIDE DEF g, p
      <4>2. /\ smaller_child(g, p, n) \in 2..n
            /\ \A k \in 2..n : k \div 2 = p => Deadlines(g.heap)[smaller_child(g, p, n)] <= Deadlines(g.heap)[k]
        BY <3>1, <4>1, SmallerChild, Zenon
      <4> QED
        BY <4>2, Zenon DEF g, p
    <3>3. j \in 1..N
      BY <1>0, <3>2
    <3>4. Earlier(c.h, p, j)
      BY <1>9, <2>2, Zenon DEF Sunk
    <3> HIDE DEF j
    <3>5. e[p] < e[j] /\ e[p] \in Int /\ e[j] \in Int
      BY <1>9, <1>10, <3>3, <3>4, Zenon DEF Earlier
    <3> HIDE DEF e, p
    <3>6. \A k \in 2..n : k \in 1..N
      BY <1>0
    <3>7. ASSUME NEW k \in 2..n, k \div 2 = p PROVE e[p] <= e[k]
      BY <1>10, <3>2, <3>5, <3>6, <3>7
    <3> QED
      BY <3>7, Zenon DEF p
  <2> QED
    BY <2>1, <2>2, Zenon
<1>12. IF c.i = i THEN RiseOrder(e, n, c.i) ELSE Ordered(e, n)
  <2> HIDE DEF e
  <2> QED
    BY <1>0, <1>8, <1>9, <1>10, <1>11, SinkEnds, Zenon
<1>13. CASE c.i = i
  BY <1>8, <1>12, <1>13, Zenon DEF c
<1>14. CASE c.i # i
  BY <1>8, <1>12, <1>14, Zenon DEF c
<1> QED
  BY <1>13, <1>14, Zenon

\* g is h with its first n nodes in order.
Settled(g, h, N, n) ==
    /\ g = [heap |-> g.heap, ref |-> g.ref, ok |-> g.ok]
    /\ g.heap \in [1..N -> NodesOf(h)] /\ g.ref \in [DOMAIN h.ref -> 1..N] /\ Places(g.heap, g.ref)
    /\ \A k \in n + 1..N : g.heap[k] = h.heap[k]
    /\ Ordered(Deadlines(g.heap), n)

\* Nodes that were exchanged until they were in order have settled.
LEMMA ArrangedSettled ==
    ASSUME NEW h, NEW N, NEW n, NEW g \in Arrangements(h, N, n), Ordered(Deadlines(g.heap), n)
    PROVE  Settled(g, h, N, n)
<1>1. /\ g \in [heap : [1..N -> NodesOf(h)], ref : [DOMAIN h.ref -> 1..N], ok : {h.ok}]
      /\ Places(g.heap, g.ref) /\ \A k \in n + 1..N : g.heap[k] = h.heap[k]
  BY Zenon DEF Arrangements
<1>2. g = [heap |-> g.heap, ref |-> g.ref, ok |-> g.ok]
  BY <1>1, Zenon
<1>3. g.heap \in [1..N -> NodesOf(h)] /\ g.ref \in [DOMAIN h.ref -> 1..N]
  BY <1>1, Zenon
<1> QED
  BY <1>1, <1>2, <1>3, Zenon DEF Settled

\* siftup_ brings the nodes in order when only node i may be too low.
LEMMA SiftUp ==
    ASSUME NEW h, NEW N, IsTimer(h, N), NEW n \in 0..N, NEW i \in 1..n,
           RiseOrder(Deadlines(h.heap), n, i), NEW garbage
    PROVE  Settled(siftup_(h, i, garbage), h, N, n)
<1> DEFINE up == rise(h, i)
<1>0. N \in Nat /\ i \in 1..N
  BY DEF IsTimer
<1>1. Settled(up.h, h, N, n)
  BY RiseOrders, ArrangedSettled, Zenon
<1>2. CASE i = 1
  <2>1. h \in Arrangements(h, N, n)
    BY CursorsAre, Zenon
  <2>2. Deadlines(h.heap) \in [1..N -> Int]
    BY <2>1, ArrangedDeadlines, Zenon
  <2>3. Ordered(Deadlines(h.heap), n)
    BY <1>0, <1>2, <2>2, RiseEnds, Zenon
  <2>4. siftup_(h, i, garbage) = h
    BY <1>2, Zenon DEF siftup_
  <2> QED
    BY <2>1, <2>3, <2>4, ArrangedSettled, Zenon
<1>3. CASE i # 1 /\ up.i = 1
  <2> DEFINE u == up.h
             g == Assert_(u, garbage)
  <2>1. siftup_(h, i, garbage) = g
    BY <1>3, Zenon DEF siftup_
  <2>2. u = [heap |-> u.heap, ref |-> u.ref, ok |-> u.ok]
    BY <1>1, Zenon DEF Settled
  <2>3. g.heap = u.heap /\ g.ref = u.ref /\ g = [heap |-> g.heap, ref |-> g.ref, ok |-> g.ok]
    <3> HIDE DEF u
    <3> QED
      BY <2>2 DEF Assert_
  <2> HIDE DEF g
  <2>4. Settled(g, h, N, n)
    BY <1>1, <2>3, Zenon DEF Settled
  <2> QED
    BY <2>1, <2>4, Zenon
<1>4. CASE i # 1 /\ up.i # 1
  BY <1>1, <1>4, Zenon DEF siftup_
<1> QED
  BY <1>2, <1>3, <1>4, Zenon

\* Down, and if that moved nothing up, brings the nodes in order when only node i may
\* be wrong.
LEMMA Settles ==
    ASSUME NEW h, NEW N, IsTimer(h, N), NEW n \in 0..N, NEW i \in 1..n,
           DownOrder(Deadlines(h.heap), n, i, i), NEW garbage
    PROVE  Settled(Settle(h, i, n, garbage), h, N, n)
<1> DEFINE c == siftdown_(h, i, n)
<1>0. N \in Nat /\ i \in Nat
  BY DEF IsTimer
<1>1. /\ c.h \in Arrangements(h, N, n) /\ c.i \in i..n
      /\ IF c.i = i THEN c.h = h /\ RiseOrder(Deadlines(h.heap), n, i)
         ELSE Ordered(Deadlines(c.h.heap), n)
  BY SinkOrders, Zenon
<1> HIDE DEF c
<1>2. CASE c.i = i
  <2>1. c.h = h /\ RiseOrder(Deadlines(h.heap), n, i) /\ ~(c.i > i)
    BY <1>0, <1>1, <1>2
  <2>2. Settle(h, i, n, garbage) = siftup_(h, i, garbage)
    BY <2>1, Zenon DEF Settle, c
  <2> QED
    BY <2>1, <2>2, SiftUp, Zenon
<1>3. CASE c.i # i
  <2>1. Ordered(Deadlines(c.h.heap), n) /\ c.i > i
    BY <1>0, <1>1, <1>3
  <2>2. Settle(h, i, n, garbage) = c.h
    BY <2>1, Zenon DEF Settle, c
  <2> QED
    BY <1>1, <2>1, <2>2, ArrangedSettled, Zenon
<1> QED
  BY <1>2, <1>3, Zenon

\* A timer whose nodes are in order.
Heaped(h, N) == IsTimer(h, N) /\ Ordered(Deadlines(h.heap), N)

\* Bringing the nodes in order makes none and loses none.
LEMMA SettledHeaps ==
    ASSUME NEW h, NEW N, IsTimer(h, N), NEW n, NEW g, Settled(g, h, N, n)
    PROVE  IsTimer(g, N) /\ NodesOf(g) \subseteq NodesOf(h) /\ DOMAIN g.ref = DOMAIN h.ref
<1>1. /\ g = [heap |-> g.heap, ref |-> g.ref, ok |-> g.ok]
      /\ g.heap \in [1..N -> NodesOf(h)] /\ g.ref \in [DOMAIN h.ref -> 1..N] /\ Places(g.heap, g.ref)
  BY Zenon DEF Settled
<1>2. \A t \in NodesOf(h) : t.expires \in Int
  BY Zenon DEF IsTimer, NodesOf
<1>3. N \in Nat
  BY Zenon DEF IsTimer
<1>4. g.heap = [k \in 1..N |-> g.heap[k]] /\ DOMAIN g.heap = 1..N /\ \A k \in 1..N : g.heap[k] \in NodesOf(h)
  BY <1>1, Zenon
<1>5. DOMAIN g.ref = DOMAIN h.ref
  BY <1>1, Zenon
<1>6. NodesOf(g) \subseteq NodesOf(h)
  BY <1>4, Zenon DEF NodesOf
<1> QED
  BY <1>1, <1>2, <1>3, <1>4, <1>5, <1>6, Zenon DEF IsTimer
-----------------------------------------------------------------------------
(***************************************************************************)
(* add(), adjust() and del_() keep the heap.                               *)
(***************************************************************************)

\* The length of a timer's heap.
LEMMA LenIs ==
    ASSUME NEW h, NEW N, IsTimer(h, N)
    PROVE  Len(h.heap) = N /\ DOMAIN h.heap = 1..N
<1> DEFINE a == h.heap
<1>1. N \in Nat /\ a = [k \in 1..N |-> a[k]]
  BY Zenon DEF IsTimer
<1> HIDE DEF a
<1>2. Len(a) = N /\ DOMAIN a = 1..N
  BY <1>1
<1> QED
  BY <1>2, Zenon DEF a

\* What the nodes of g are when the deadline of id became expires.
Renewed(g, h, id, expires) ==
    \A t \in NodesOf(g) : t = [id |-> id, expires |-> expires] \/ (t \in NodesOf(h) /\ t.id # id)

\* When every node is the renewed one or an old one of another id, the timer was
\* renewed.
LEMMA RenewedIs ==
    ASSUME NEW h, NEW g, NEW D, DOMAIN g.heap = D, NEW id, NEW expires,
           \A k \in D : g.heap[k] = [id |-> id, expires |-> expires] \/ (g.heap[k] \in NodesOf(h) /\ g.heap[k].id # id)
    PROVE  Renewed(g, h, id, expires)
<1> SUFFICES ASSUME NEW t \in NodesOf(g)
             PROVE  t = [id |-> id, expires |-> expires] \/ (t \in NodesOf(h) /\ t.id # id)
  BY Zenon DEF Renewed
<1>1. PICK k \in D : t = g.heap[k]
  BY Zenon DEF NodesOf
<1> QED
  BY <1>1, Zenon

\* A node gets another deadline.
LEMMA ExpiringIs ==
    ASSUME NEW h, NEW N, Heaped(h, N), NEW id \in DOMAIN h.ref, NEW expires \in Int
    PROVE  LET i == h.ref[id]
               g == Expiring(h, i, expires)
           IN  /\ IsTimer(g, N) /\ DOMAIN g.ref = DOMAIN h.ref /\ i \in 1..N
               /\ Renewed(g, h, id, expires)
               /\ DownOrder(Deadlines(g.heap), N, i, i)
               /\ h.heap[i].expires <= expires => (i = 1 \/ Deadlines(g.heap)[i \div 2] <= Deadlines(g.heap)[i])
<1> DEFINE i == h.ref[id]
           g == Expiring(h, i, expires)
           node == [id |-> id, expires |-> expires]
<1>1. /\ N \in Nat /\ h = [heap |-> h.heap, ref |-> h.ref, ok |-> h.ok]
      /\ h.heap = [k \in 1..N |-> h.heap[k]] /\ (\A k \in 1..N : h.heap[k].expires \in Int)
      /\ h.ref \in [DOMAIN h.ref -> 1..N] /\ Places(h.heap, h.ref) /\ Ordered(Deadlines(h.heap), N)
  BY Zenon DEF Heaped, IsTimer
<1>2. DOMAIN h.heap = 1..N
  BY <1>1, Zenon
<1>3. i \in 1..N /\ h.heap[i].id = id
  BY <1>1, <1>2, Zenon DEF Places
<1>4. g = [heap |-> [h.heap EXCEPT ![i] = node], ref |-> h.ref, ok |-> h.ok]
  <2>1. g = [h EXCEPT !.heap = [h.heap EXCEPT ![i] = node]]
    BY <1>3, Zenon DEF Expiring
  <2> HIDE DEF g, i, node
  <2> QED
    BY <1>1, <2>1, Zenon
<1>5. g.heap = [h.heap EXCEPT ![i] = node] /\ g.ref = h.ref /\ g = [heap |-> g.heap, ref |-> g.ref, ok |-> g.ok]
  <2> DEFINE b == [h.heap EXCEPT ![i] = node]
  <2>1. g = [heap |-> b, ref |-> h.ref, ok |-> h.ok]
    BY <1>4, Zenon
  <2> HIDE DEF b, g
  <2>2. g.heap = b /\ g.ref = h.ref /\ g = [heap |-> g.heap, ref |-> g.ref, ok |-> g.ok]
    BY <2>1, Zenon
  <2> QED
    BY <2>2, Zenon DEF b
<1> HIDE DEF g, i
<1>6. node.id = id /\ node.expires = expires
  BY Zenon
<1> HIDE DEF node
<1>7. /\ g.heap = [k \in 1..N |-> g.heap[k]] /\ DOMAIN g.heap = 1..N
      /\ g.heap[i] = node /\ \A k \in 1..N : k # i => g.heap[k] = h.heap[k]
  <2> DEFINE a == h.heap
             b == g.heap
  <2>1. a = [k \in 1..N |-> a[k]] /\ b = [a EXCEPT ![i] = node]
    BY <1>1, <1>5, Zenon
  <2> HIDE DEF a, b
  <2>2. b = [k \in 1..N |-> b[k]] /\ DOMAIN b = 1..N /\ b[i] = node /\ \A k \in 1..N : k # i => b[k] = a[k]
    BY <1>3, <2>1, Zenon
  <2> QED
    BY <2>2, Zenon DEF a, b
<1>8. \A k \in 1..N : g.heap[k].id = h.heap[k].id
  BY <1>3, <1>6, <1>7, Zenon
<1>9. Places(g.heap, g.ref)
  <2>1. /\ \A x \in DOMAIN h.ref : h.ref[x] \in 1..N /\ h.heap[h.ref[x]].id = x
        /\ \A k \in 1..N : h.heap[k].id \in DOMAIN h.ref /\ h.ref[h.heap[k].id] = k
    BY <1>1, <1>2, Zenon DEF Places
  <2>2. \A x \in DOMAIN g.ref : g.ref[x] \in DOMAIN g.heap /\ g.heap[g.ref[x]].id = x
    <3>1. ASSUME NEW x \in DOMAIN h.ref PROVE h.ref[x] \in 1..N /\ g.heap[h.ref[x]].id = x
      <4>1. h.ref[x] \in 1..N /\ h.heap[h.ref[x]].id = x
        BY <2>1, Zenon
      <4> QED
        BY <1>8, <4>1, Zenon
    <3> QED
      BY <1>5, <1>7, <3>1, Zenon
  <2>3. \A k \in DOMAIN g.heap : g.heap[k].id \in DOMAIN g.ref /\ g.ref[g.heap[k].id] = k
    BY <1>5, <1>7, <1>8, <2>1, Zenon
  <2> QED
    BY <2>2, <2>3, Zenon DEF Places
<1>10. \A k \in 1..N : g.heap[k].expires \in Int
  BY <1>1, <1>6, <1>7, Zenon
<1>11. IsTimer(g, N) /\ DOMAIN g.ref = DOMAIN h.ref
  BY <1>1, <1>5, <1>7, <1>9, <1>10, Zenon DEF IsTimer
<1>12. Renewed(g, h, id, expires)
  <2>1. \A k \in 1..N : k # i => h.heap[k].id # id
    BY <1>1, <1>2, <1>3, Zenon DEF Places
  <2>2. \A k \in 1..N : h.heap[k] \in NodesOf(h)
    BY <1>2, Zenon DEF NodesOf
  <2>3. ASSUME NEW k \in 1..N PROVE g.heap[k] = node \/ (g.heap[k] \in NodesOf(h) /\ g.heap[k].id # id)
    <3>1. CASE k = i
      BY <1>7, <3>1, Zenon
    <3>2. CASE k # i
      BY <1>7, <2>1, <2>2, <3>2, Zenon
    <3> QED
      BY <3>1, <3>2, Zenon
  <2> QED
    BY <1>7, <2>3, RenewedIs, Zenon DEF node
<1> DEFINE e == Deadlines(h.heap)
           f == Deadlines(g.heap)
<1>13. e \in [1..N -> Int] /\ \A k \in 1..N : e[k] = h.heap[k].expires
  BY <1>1, <1>2, Zenon DEF Deadlines
<1>14. \A k \in 1..N : f[k] = g.heap[k].expires
  BY <1>7, Zenon DEF Deadlines
<1> HIDE DEF e, f
<1>15. \A k \in 1..N : k # i => f[k] = e[k]
  <2>1. ASSUME NEW k \in 1..N, k # i PROVE f[k] = e[k]
    <3>1. f[k] = g.heap[k].expires /\ e[k] = h.heap[k].expires
      BY <1>13, <1>14, Zenon
    <3> QED
      BY <1>7, <2>1, <3>1, Zenon
  <2> QED
    BY <2>1, Zenon
<1>16. Ordered(e, N)
  BY <1>1, Zenon DEF e
<1>17. DownOrder(f, N, i, i)
  <2>1. N \in 0..N
    BY <1>1
  <2> QED
    BY <1>1, <1>3, <1>13, <1>15, <1>16, <2>1, OtherDeadline, Zenon
<1>18. ASSUME h.heap[i].expires <= expires, i # 1 PROVE f[i \div 2] <= f[i]
  <2>1. i \in 2..N /\ i \div 2 \in 1..N /\ i \div 2 # i
    BY <1>1, <1>3, <1>18, Halves
  <2>2. e[i \div 2] <= e[i] /\ f[i \div 2] = e[i \div 2] /\ e[i \div 2] \in Int /\ e[i] \in Int
    BY <1>3, <1>13, <1>15, <1>16, <2>1, Zenon DEF Ordered
  <2>3. e[i] = h.heap[i].expires /\ f[i] = expires
    BY <1>3, <1>6, <1>7, <1>13, <1>14, Zenon
  <2> QED
    BY <1>18, <2>2, <2>3
<1> QED
  BY <1>3, <1>11, <1>12, <1>17, <1>18, Zenon DEF g, i, f

\* adjust() of a node that is there, to a deadline that is not earlier.
LEMMA AdjustHeaps ==
    ASSUME NEW h, NEW N, Heaped(h, N), NEW id \in DOMAIN h.ref, NEW expires \in Int,
           h.heap[h.ref[id]].expires <= expires
    PROVE  LET g == adjust(h, id, expires)
           IN  Heaped(g, N) /\ DOMAIN g.ref = DOMAIN h.ref /\ Renewed(g, h, id, expires)
<1> DEFINE i == h.ref[id]
           x == Expiring(h, i, expires)
           c == siftdown_(x, i, N)
<1>0. N \in Nat /\ N \in 0..N
  BY DEF Heaped, IsTimer
<1>1. /\ IsTimer(x, N) /\ DOMAIN x.ref = DOMAIN h.ref /\ i \in 1..N
      /\ Renewed(x, h, id, expires)
      /\ DownOrder(Deadlines(x.heap), N, i, i)
      /\ (i = 1 \/ Deadlines(x.heap)[i \div 2] <= Deadlines(x.heap)[i])
  BY ExpiringIs, Zenon
<1>2. adjust(h, id, expires) = c.h
  BY LenIs, Zenon DEF adjust, Has, Heaped
<1> HIDE DEF x, i
<1>3. /\ c.h \in Arrangements(x, N, N) /\ c.i \in i..N
      /\ IF c.i = i THEN c.h = x /\ RiseOrder(Deadlines(x.heap), N, i)
         ELSE Ordered(Deadlines(c.h.heap), N)
  BY <1>0, <1>1, SinkOrders, Zenon
<1> HIDE DEF c
<1>4. Ordered(Deadlines(c.h.heap), N)
  <2>1. CASE c.i = i
    <3>1. c.h = x /\ RiseOrder(Deadlines(x.heap), N, i)
      BY <1>3, <2>1, Zenon
    <3>2. Deadlines(x.heap) \in [1..N -> Int]
      BY <1>1, <1>3, <3>1, ArrangedDeadlines, Zenon
    <3>3. Ordered(Deadlines(x.heap), N)
      BY <1>0, <1>1, <3>1, <3>2, RiseEnds, Zenon
    <3> QED
      BY <3>1, <3>3, Zenon
  <2>2. CASE c.i # i
    BY <1>3, <2>2, Zenon
  <2> QED
    BY <2>1, <2>2, Zenon
<1>5. Settled(c.h, x, N, N)
  BY <1>3, <1>4, ArrangedSettled, Zenon
<1>6. IsTimer(c.h, N) /\ NodesOf(c.h) \subseteq NodesOf(x) /\ DOMAIN c.h.ref = DOMAIN x.ref
  BY <1>1, <1>5, SettledHeaps, Zenon
<1> QED
  BY <1>1, <1>2, <1>4, <1>6, Zenon DEF Heaped, Renewed

\* Bringing a renewed timer in order leaves it renewed.
LEMMA SettledRenews ==
    ASSUME NEW h, NEW x, NEW N, IsTimer(x, N), NEW id, NEW expires, Renewed(x, h, id, expires),
           NEW g, Settled(g, x, N, N)
    PROVE  Heaped(g, N) /\ DOMAIN g.ref = DOMAIN x.ref /\ Renewed(g, h, id, expires)
<1>1. IsTimer(g, N) /\ NodesOf(g) \subseteq NodesOf(x) /\ DOMAIN g.ref = DOMAIN x.ref
  BY SettledHeaps, Zenon
<1>2. Ordered(Deadlines(g.heap), N)
  BY Zenon DEF Settled
<1> QED
  BY <1>1, <1>2, Zenon DEF Heaped, Renewed

\* A node behind the last one.
LEMMA PushedIs ==
    ASSUME NEW h, NEW N, Heaped(h, N), NEW id, id \notin DOMAIN h.ref, NEW expires \in Int
    PROVE  LET g == Pushed(h, id, expires)
           IN  /\ IsTimer(g, N + 1) /\ DOMAIN g.ref = DOMAIN h.ref \cup {id}
               /\ Renewed(g, h, id, expires)
               /\ RiseOrder(Deadlines(g.heap), N + 1, N + 1)
<1> DEFINE g == Pushed(h, id, expires)
           node == [id |-> id, expires |-> expires]
<1>1. /\ N \in Nat /\ h = [heap |-> h.heap, ref |-> h.ref, ok |-> h.ok]
      /\ h.heap = [k \in 1..N |-> h.heap[k]] /\ (\A k \in 1..N : h.heap[k].expires \in Int)
      /\ h.ref \in [DOMAIN h.ref -> 1..N] /\ Places(h.heap, h.ref) /\ Ordered(Deadlines(h.heap), N)
  BY Zenon DEF Heaped, IsTimer
<1>2. DOMAIN h.heap = 1..N /\ Len(h.heap) = N
  BY LenIs, Zenon DEF Heaped
<1>3. node.id = id /\ node.expires = expires
  BY Zenon
<1> HIDE DEF node
<1>4. /\ g.heap = Append(h.heap, node)
      /\ g.ref = [x \in DOMAIN h.ref \cup {id} |-> IF x = id THEN N + 1 ELSE h.ref[x]]
      /\ g = [heap |-> g.heap, ref |-> g.ref, ok |-> g.ok]
  BY <1>2, Zenon DEF Pushed, node
<1> HIDE DEF g
<1>5. /\ g.heap = [k \in 1..N + 1 |-> g.heap[k]] /\ DOMAIN g.heap = 1..N + 1
      /\ g.heap[N + 1] = node /\ \A k \in 1..N : g.heap[k] = h.heap[k]
  <2> DEFINE a == h.heap
             b == g.heap
  <2>1. a = [k \in 1..N |-> a[k]] /\ b = Append(a, node)
    BY <1>1, <1>4, Zenon
  <2> HIDE DEF a, b
  <2>2. b = [k \in 1..N + 1 |-> b[k]] /\ DOMAIN b = 1..N + 1 /\ b[N + 1] = node /\ \A k \in 1..N : b[k] = a[k]
    BY <1>1, <2>1
  <2> QED
    BY <2>2, Zenon DEF a, b
<1>6. /\ \A x \in DOMAIN h.ref : h.ref[x] \in 1..N /\ h.heap[h.ref[x]].id = x
      /\ \A k \in 1..N : h.heap[k].id \in DOMAIN h.ref /\ h.ref[h.heap[k].id] = k
  BY <1>1, <1>2, Zenon DEF Places
<1>7. /\ DOMAIN g.ref = DOMAIN h.ref \cup {id} /\ g.ref[id] = N + 1
      /\ \A x \in DOMAIN h.ref : x # id /\ g.ref[x] = h.ref[x]
  BY <1>4, Zenon
<1>8. N + 1 \in Nat /\ N + 1 \in 1..N + 1 /\ 1..N + 1 = 1..N \cup {N + 1}
  BY <1>1
<1>9. g.ref \in [DOMAIN g.ref -> 1..N + 1]
  <2>1. \A x \in DOMAIN g.ref : g.ref[x] \in 1..N + 1
    BY <1>6, <1>7, <1>8, Zenon
  <2>2. g.ref = [x \in DOMAIN g.ref |-> g.ref[x]]
    BY <1>4, <1>7, Zenon
  <2> QED
    BY <2>1, <2>2, Zenon
<1>10. Places(g.heap, g.ref)
  <2>1. ASSUME NEW x \in DOMAIN g.ref PROVE g.ref[x] \in DOMAIN g.heap /\ g.heap[g.ref[x]].id = x
    <3>1. CASE x = id
      BY <1>3, <1>5, <1>7, <1>8, <3>1, Zenon
    <3>2. CASE x \in DOMAIN h.ref
      <4>1. h.ref[x] \in 1..N /\ h.heap[h.ref[x]].id = x
        BY <1>6, <3>2, Zenon
      <4>2. g.ref[x] = h.ref[x]
        BY <1>7, <3>2, Zenon
      <4>3. g.heap[h.ref[x]] = h.heap[h.ref[x]] /\ h.ref[x] \in DOMAIN g.heap
        BY <1>5, <1>8, <4>1, Zenon
      <4> QED
        BY <4>1, <4>2, <4>3, Zenon
    <3> QED
      BY <1>7, <3>1, <3>2, Zenon
  <2>2. ASSUME NEW k \in DOMAIN g.heap PROVE g.heap[k].id \in DOMAIN g.ref /\ g.ref[g.heap[k].id] = k
    <3>1. CASE k = N + 1
      BY <1>3, <1>5, <1>7, <3>1, Zenon
    <3>2. CASE k \in 1..N
      <4>1. h.heap[k].id \in DOMAIN h.ref /\ h.ref[h.heap[k].id] = k
        BY <1>6, <3>2, Zenon
      <4>2. g.ref[h.heap[k].id] = h.ref[h.heap[k].id] /\ h.heap[k].id \in DOMAIN g.ref
        BY <1>7, <4>1, Zenon
      <4>3. g.heap[k] = h.heap[k]
        BY <1>5, <3>2, Zenon
      <4> QED
        BY <4>1, <4>2, <4>3, Zenon
    <3> QED
      BY <1>5, <1>8, <3>1, <3>2, Zenon
  <2> QED
    BY <2>1, <2>2, Zenon DEF Places
<1>11. \A k \in 1..N + 1 : g.heap[k].expires \in Int
  BY <1>1, <1>3, <1>5, <1>8, Zenon
<1>12. IsTimer(g, N + 1)
  BY <1>4, <1>5, <1>8, <1>9, <1>10, <1>11, Zenon DEF IsTimer
<1>13. Renewed(g, h, id, expires)
  <2>1. \A k \in 1..N : h.heap[k].id # id /\ h.heap[k] \in NodesOf(h)
    BY <1>2, <1>6, Zenon DEF NodesOf
  <2>2. \A k \in 1..N + 1 : g.heap[k] = node \/ (g.heap[k] \in NodesOf(h) /\ g.heap[k].id # id)
    BY <1>5, <1>8, <2>1, Zenon
  <2> QED
    BY <1>5, <2>2, RenewedIs, Zenon DEF node
<1> DEFINE e == Deadlines(h.heap)
           f == Deadlines(g.heap)
<1>14. \A k \in 1..N : e[k] = h.heap[k].expires
  BY <1>2, Zenon DEF Deadlines
<1>15. \A k \in 1..N : f[k] = g.heap[k].expires
  BY <1>5, <1>8, Zenon DEF Deadlines
<1> HIDE DEF e, f
<1>16. \A k \in 1..N : f[k] = e[k]
  <2>1. ASSUME NEW k \in 1..N PROVE f[k] = e[k]
    <3>1. f[k] = g.heap[k].expires /\ e[k] = h.heap[k].expires
      BY <1>14, <1>15, Zenon
    <3> QED
      BY <1>5, <3>1, Zenon
  <2> QED
    BY <2>1, Zenon
<1>17. Ordered(e, N)
  BY <1>1, Zenon DEF e
<1>18. ASSUME NEW k \in 2..N + 1, k # N + 1 PROVE f[k \div 2] <= f[k]
  <2>1. k \in 2..N /\ k \in 1..N /\ k \div 2 \in 1..N
    BY <1>1, <1>18, Halves
  <2> QED
    BY <1>16, <1>17, <2>1, Zenon DEF Ordered
<1>19. ASSUME NEW k \in 2..N + 1, k \div 2 = N + 1 PROVE FALSE
  BY <1>1, <1>19, Halves
<1>20. RiseOrder(f, N + 1, N + 1)
  BY <1>18, <1>19, Zenon DEF RiseOrder
<1> QED
  BY <1>7, <1>12, <1>13, <1>20, Zenon DEF g, f

\* add(), of a connection that has no node and of one that has.
LEMMA AddHeaps ==
    ASSUME NEW h, NEW N, Heaped(h, N), NEW id, NEW expires \in Int, NEW garbage
    PROVE  LET g == add(h, id, expires, garbage)
           IN  /\ \E M : Heaped(g, M)
               /\ DOMAIN g.ref = DOMAIN h.ref \cup {id} /\ Renewed(g, h, id, expires)
<1> DEFINE g == add(h, id, expires, garbage)
<1>0. N \in Nat /\ N \in 0..N /\ N + 1 \in 0..N + 1 /\ N + 1 \in 1..N + 1 /\ Len(h.heap) = N
  BY LenIs DEF Heaped, IsTimer
<1>1. CASE id \in DOMAIN h.ref
  <2> DEFINE i == h.ref[id]
             x == Expiring(h, i, expires)
  <2>1. /\ IsTimer(x, N) /\ DOMAIN x.ref = DOMAIN h.ref /\ i \in 1..N
        /\ Renewed(x, h, id, expires)
        /\ DownOrder(Deadlines(x.heap), N, i, i)
    BY <1>1, ExpiringIs, Zenon
  <2>2. g = Settle(x, i, N, garbage)
    BY <1>0, <1>1, Zenon DEF add, Has
  <2> HIDE DEF x, i
  <2>3. Settled(g, x, N, N)
    BY <1>0, <2>1, <2>2, Settles, Zenon
  <2>4. DOMAIN h.ref = DOMAIN h.ref \cup {id}
    BY <1>1, Zenon
  <2> HIDE DEF g
  <2>5. Heaped(g, N) /\ DOMAIN g.ref = DOMAIN x.ref /\ Renewed(g, h, id, expires)
    BY <2>1, <2>3, SettledRenews, Zenon
  <2> QED
    BY <2>1, <2>4, <2>5, Zenon DEF g
<1>2. CASE id \notin DOMAIN h.ref
  <2> DEFINE x == Pushed(h, id, expires)
  <2>1. /\ IsTimer(x, N + 1) /\ DOMAIN x.ref = DOMAIN h.ref \cup {id}
        /\ Renewed(x, h, id, expires) /\ RiseOrder(Deadlines(x.heap), N + 1, N + 1)
    BY <1>2, PushedIs, Zenon
  <2>2. g = siftup_(x, N + 1, garbage)
    BY <1>0, <1>2, Zenon DEF add, Has
  <2> HIDE DEF x
  <2>3. Settled(g, x, N + 1, N + 1)
    BY <1>0, <2>1, <2>2, SiftUp, Zenon
  <2> HIDE DEF g
  <2>4. Heaped(g, N + 1) /\ DOMAIN g.ref = DOMAIN x.ref /\ Renewed(g, h, id, expires)
    BY <2>1, <2>3, SettledRenews, Zenon
  <2> QED
    BY <2>1, <2>4, Zenon DEF g
<1> QED
  BY <1>1, <1>2, Zenon

\* The last node goes.
LEMMA PoppedIs ==
    ASSUME NEW h, NEW N, IsTimer(h, N), N # 0, Ordered(Deadlines(h.heap), N - 1)
    PROVE  LET g == Popped(h)
           IN  /\ Heaped(g, N - 1) /\ NodesOf(g) \subseteq NodesOf(h)
               /\ DOMAIN g.ref = DOMAIN h.ref \ {h.heap[N].id}
<1> DEFINE g == Popped(h)
           last == h.heap[N].id
<1>1. /\ N \in Nat
      /\ h.heap = [k \in 1..N |-> h.heap[k]] /\ (\A k \in 1..N : h.heap[k].expires \in Int)
      /\ h.ref \in [DOMAIN h.ref -> 1..N] /\ Places(h.heap, h.ref)
  BY Zenon DEF IsTimer
<1>2. DOMAIN h.heap = 1..N /\ Len(h.heap) = N
  BY LenIs, Zenon
<1>3. N - 1 \in Nat /\ 1..N - 1 \subseteq 1..N /\ N \in 1..N /\ \A k \in 1..N : k # N => k \in 1..N - 1
  BY <1>1
<1>4. /\ g.heap = SubSeq(h.heap, 1, N - 1) /\ g.ref = [x \in DOMAIN h.ref \ {last} |-> h.ref[x]]
      /\ g = [heap |-> g.heap, ref |-> g.ref, ok |-> g.ok]
  BY <1>2, Zenon DEF Popped
<1> HIDE DEF g, last
<1>5. g.heap = [k \in 1..N - 1 |-> g.heap[k]] /\ DOMAIN g.heap = 1..N - 1 /\ \A k \in 1..N - 1 : g.heap[k] = h.heap[k]
  <2> DEFINE a == h.heap
             b == g.heap
  <2>1. a = [k \in 1..N |-> a[k]] /\ b = SubSeq(a, 1, N - 1)
    BY <1>1, <1>4, Zenon
  <2> HIDE DEF a, b
  <2>2. b = [k \in 1..N - 1 |-> b[k]] /\ DOMAIN b = 1..N - 1 /\ \A k \in 1..N - 1 : b[k] = a[k]
    BY <1>1, <1>3, <2>1
  <2> QED
    BY <2>2, Zenon DEF a, b
<1>6. /\ \A x \in DOMAIN h.ref : h.ref[x] \in 1..N /\ h.heap[h.ref[x]].id = x
      /\ \A k \in 1..N : h.heap[k].id \in DOMAIN h.ref /\ h.ref[h.heap[k].id] = k
  BY <1>1, <1>2, Zenon DEF Places
<1>7. DOMAIN g.ref = DOMAIN h.ref \ {last} /\ \A x \in DOMAIN g.ref : g.ref[x] = h.ref[x]
  BY <1>4, Zenon
<1>8. ASSUME NEW x \in DOMAIN g.ref PROVE g.ref[x] \in 1..N - 1 /\ g.heap[g.ref[x]].id = x
  <2>1. x \in DOMAIN h.ref /\ x # last /\ g.ref[x] = h.ref[x]
    BY <1>7, Zenon
  <2>2. h.ref[x] \in 1..N /\ h.heap[h.ref[x]].id = x
    BY <1>6, <2>1, Zenon
  <2>3. h.ref[x] # N
    BY <2>1, <2>2, Zenon DEF last
  <2>4. h.ref[x] \in 1..N - 1
    BY <1>3, <2>2, <2>3, Zenon
  <2>5. g.heap[h.ref[x]] = h.heap[h.ref[x]]
    BY <1>5, <2>4, Zenon
  <2> QED
    BY <2>1, <2>2, <2>4, <2>5, Zenon
<1>9. ASSUME NEW k \in 1..N - 1 PROVE g.heap[k].id \in DOMAIN g.ref /\ g.ref[g.heap[k].id] = k
  <2>1. k \in 1..N /\ k # N /\ g.heap[k] = h.heap[k]
    <3>1. k \in 1..N /\ k # N
      BY <1>1
    <3> QED
      BY <1>5, <3>1, Zenon
  <2>2. h.heap[k].id \in DOMAIN h.ref /\ h.ref[h.heap[k].id] = k
    BY <1>6, <2>1, Zenon
  <2>3. h.ref[last] = N
    BY <1>3, <1>6, Zenon DEF last
  <2>4. h.heap[k].id # last
    BY <2>1, <2>2, <2>3, Zenon
  <2>5. h.heap[k].id \in DOMAIN g.ref
    BY <1>7, <2>2, <2>4, Zenon
  <2> QED
    BY <1>7, <2>1, <2>2, <2>5, Zenon
<1>10. Places(g.heap, g.ref)
  BY <1>5, <1>8, <1>9, Zenon DEF Places
<1>11. g.ref \in [DOMAIN g.ref -> 1..N - 1]
  <2>1. g.ref = [x \in DOMAIN g.ref |-> g.ref[x]]
    BY <1>4, <1>7, Zenon
  <2> QED
    BY <1>8, <2>1, Zenon
<1>12. \A k \in 1..N - 1 : g.heap[k].expires \in Int
  BY <1>1, <1>3, <1>5, Zenon
<1>13. IsTimer(g, N - 1)
  BY <1>3, <1>4, <1>5, <1>10, <1>11, <1>12, Zenon DEF IsTimer
<1>14. \A k \in 1..N - 1 : g.heap[k] \in NodesOf(h)
  BY <1>2, <1>3, <1>5, Zenon DEF NodesOf
<1>15. NodesOf(g) \subseteq NodesOf(h)
  BY <1>5, <1>14, Zenon DEF NodesOf
<1> DEFINE e == Deadlines(h.heap)
           f == Deadlines(g.heap)
<1>16. \A k \in 1..N - 1 : e[k] = h.heap[k].expires
  BY <1>2, <1>3, Zenon DEF Deadlines
<1>17. \A k \in 1..N - 1 : f[k] = g.heap[k].expires
  BY <1>5, Zenon DEF Deadlines
<1> HIDE DEF e, f
<1>18. \A k \in 1..N - 1 : f[k] = e[k]
  <2>1. ASSUME NEW k \in 1..N - 1 PROVE f[k] = e[k]
    <3>1. f[k] = g.heap[k].expires /\ e[k] = h.heap[k].expires
      BY <1>16, <1>17, Zenon
    <3> QED
      BY <1>5, <3>1, Zenon
  <2> QED
    BY <2>1, Zenon
<1>19. ASSUME NEW k \in 2..N - 1 PROVE f[k \div 2] <= f[k]
  <2>1. k \in 1..N - 1 /\ k \div 2 \in 1..N - 1
    BY <1>1, <1>19, Halves
  <2>2. e[k \div 2] <= e[k]
    BY Zenon DEF Ordered, e
  <2> QED
    BY <1>18, <2>1, <2>2, Zenon
<1> QED
  BY <1>7, <1>13, <1>15, <1>19, Zenon DEF Heaped, Ordered, g, f, last

\* Exchanging nodes makes none and loses none.
LEMMA ArrangedTimer ==
    ASSUME NEW h, NEW N, IsTimer(h, N), NEW n, NEW g \in Arrangements(h, N, n)
    PROVE  IsTimer(g, N) /\ NodesOf(g) \subseteq NodesOf(h) /\ DOMAIN g.ref = DOMAIN h.ref
<1>1. /\ g \in [heap : [1..N -> NodesOf(h)], ref : [DOMAIN h.ref -> 1..N], ok : {h.ok}]
      /\ Places(g.heap, g.ref)
  BY Zenon DEF Arrangements
<1>2. g = [heap |-> g.heap, ref |-> g.ref, ok |-> g.ok]
  BY <1>1, Zenon
<1>3. g.heap \in [1..N -> NodesOf(h)] /\ g.ref \in [DOMAIN h.ref -> 1..N]
  BY <1>1, Zenon
<1>4. g.heap = [k \in 1..N |-> g.heap[k]] /\ DOMAIN g.heap = 1..N /\ \A k \in 1..N : g.heap[k] \in NodesOf(h)
  BY <1>3, Zenon
<1>5. N \in Nat /\ \A t \in NodesOf(h) : t.expires \in Int
  BY Zenon DEF IsTimer, NodesOf
<1>6. DOMAIN g.ref = DOMAIN h.ref
  BY <1>3, Zenon
<1>7. NodesOf(g) \subseteq NodesOf(h)
  BY <1>4, Zenon DEF NodesOf
<1> QED
  BY <1>1, <1>2, <1>3, <1>4, <1>5, <1>6, <1>7, Zenon DEF IsTimer

\* del_() takes the node at i out and nothing else.
LEMMA DelHeaps ==
    ASSUME NEW h, NEW N, Heaped(h, N), NEW i \in 1..N, NEW garbage
    PROVE  LET g == del_(h, i, garbage)
           IN  /\ Heaped(g, N - 1) /\ NodesOf(g) \subseteq NodesOf(h)
               /\ DOMAIN g.ref = DOMAIN h.ref \ {h.heap[i].id}
<1>0. N \in Nat /\ N # 0 /\ N - 1 \in 0..N /\ N \in 0..N /\ IsTimer(h, N) /\ Ordered(Deadlines(h.heap), N)
  BY DEF Heaped, IsTimer
<1>1. Ordered(Deadlines(h.heap), N - 1)
  <2>1. 2..N - 1 \subseteq 2..N
    BY <1>0
  <2> QED
    BY <1>0, <2>1, Zenon DEF Ordered
<1>2. Len(h.heap) = N
  BY <1>0, LenIs, Zenon
<1>3. CASE ~(i < N)
  <2>1. i = N
    BY <1>0, <1>3
  <2>2. del_(h, i, garbage) = Popped(h)
    BY <1>2, <1>3, Zenon DEF del_
  <2> QED
    BY <1>0, <1>1, <2>1, <2>2, PoppedIs, Zenon
<1>4. CASE i < N
  <2> DEFINE s == SwapNode_(h, i, N)
             t == Settle(s, i, N - 1, garbage)
             e == Deadlines(h.heap)
             f == Deadlines(s.heap)
  <2>0. i \in 1..N - 1 /\ N \in 1..N /\ i # N
    BY <1>0, <1>4
  <2>1. del_(h, i, garbage) = Popped(t)
    BY <1>2, <1>4, Zenon DEF del_
  <2>2. h \in Arrangements(h, N, N)
    BY <1>0, CursorsAre, Zenon
  <2>3. /\ s \in Arrangements(h, N, N)
        /\ e \in [1..N -> Int] /\ f = Exchanged(e, i, N)
    <3> HIDE DEF s, e, f
    <3>1. /\ SwapNode_(h, i, N) \in Arrangements(h, N, N)
          /\ Deadlines(h.heap) \in [1..N -> Int]
          /\ Deadlines(SwapNode_(h, i, N).heap) = Exchanged(Deadlines(h.heap), i, N)
      <4>0. IsTimer(h, N) /\ N \in 0..N /\ N \in 1..N /\ i # N
        BY <1>0, <2>0, Zenon
      <4>1. SwapNode_(h, i, N) \in Arrangements(h, N, N)
        BY <4>0, <2>2, SwapArranges, Zenon
      <4>2. Deadlines(h.heap) \in [1..N -> Int]
        BY <4>0, <2>2, ArrangedDeadlines, Zenon
      <4>3. Deadlines(SwapNode_(h, i, N).heap) = Exchanged(Deadlines(h.heap), i, N)
        BY <4>0, <2>2, SwapArranges
      <4> QED
        BY <4>1, <4>2, <4>3, Zenon
    <3> QED
      BY <3>1, Zenon DEF s, e, f
  <2>4. s.heap = Exchanged(h.heap, i, N)
    BY Zenon DEF SwapNode_, Exchanged
  <2> HIDE DEF s
  <2>5. IsTimer(s, N) /\ NodesOf(s) \subseteq NodesOf(h) /\ DOMAIN s.ref = DOMAIN h.ref
    BY <1>0, <2>3, ArrangedTimer, Zenon
  <2>6. s.heap[N] = h.heap[i]
    <3>1. h.heap = [k \in 1..N |-> h.heap[k]]
      BY <1>0, Zenon DEF IsTimer
    <3> QED
      BY <2>0, <2>4, <3>1, Zenon DEF Exchanged
  <2>7. DownOrder(f, N - 1, i, i)
    <3> HIDE DEF e, f
    <3>1. \A k \in 1..N - 1 : k # i => f[k] = e[k]
      BY <1>0, <2>0, <2>3 DEF Exchanged
    <3>2. Ordered(e, N - 1)
      BY <1>1, Zenon DEF e
    <3> QED
      BY <1>0, <2>0, <2>3, <3>1, <3>2, OtherDeadline, Zenon
  <2>8. Settled(t, s, N, N - 1)
    BY <1>0, <2>0, <2>5, <2>7, Settles, Zenon
  <2> HIDE DEF t
  <2>9. IsTimer(t, N) /\ NodesOf(t) \subseteq NodesOf(s) /\ DOMAIN t.ref = DOMAIN s.ref
    BY <2>5, <2>8, SettledHeaps, Zenon
  <2>10. t.heap[N] = s.heap[N] /\ Ordered(Deadlines(t.heap), N - 1)
    <3>1. N \in (N - 1) + 1..N
      BY <1>0
    <3> QED
      BY <2>8, <3>1, Zenon DEF Settled
  <2>11. /\ Heaped(Popped(t), N - 1) /\ NodesOf(Popped(t)) \subseteq NodesOf(t)
         /\ DOMAIN Popped(t).ref = DOMAIN t.ref \ {t.heap[N].id}
    BY <1>0, <2>9, <2>10, PoppedIs, Zenon
  <2> QED
    BY <2>1, <2>5, <2>6, <2>9, <2>10, <2>11, Zenon
<1> QED
  BY <1>3, <1>4, Zenon
-----------------------------------------------------------------------------
(***************************************************************************)
(* The server.                                                             *)
(***************************************************************************)

\* The deadlines of the connections: each is Timeout after the connection was accepted or
\* given to a worker, or later, and none is further away than Timeout.
Deadlined(h, last, now) ==
    \A t \in NodesOf(h) : t.id \in Fds /\ last[t.id] + Timeout <= t.expires /\ t.expires <= now + Timeout

\* The main thread is a record of its three fields.
MainThread(m) == m = [at |-> m.at, batch |-> m.batch, until |-> m.until]

\* The inductive invariant of the earlier server.
ESInv ==
    /\ clock \in Nat /\ active \in [Fds -> Nat] /\ MainThread(main)
    /\ Heaped(timer, Len(timer.heap)) /\ Deadlined(timer, active, clock)
    /\ opened \subseteq DOMAIN timer.ref
    /\ main.at = "timer_close" => timer.heap # <<>>

\* The server that starts satisfies the invariant.
LEMMA ESInvStarts == ESInit => ESInv
<1> SUFFICES ASSUME ESInit PROVE ESInv
  BY Zenon
<1>0. clock = 0 /\ timer = NewTimer /\ opened = {} /\ active = [f \in Fds |-> 0]
      /\ main = [at |-> "tick", batch |-> <<>>, until |-> Forever]
  BY Zenon DEF ESInit
<1>1. clock \in Nat /\ active \in [Fds -> Nat]
  BY <1>0, Zenon
<1>2. MainThread(main) /\ main.at # "timer_close"
  BY <1>0, Zenon DEF MainThread
<1>3. timer.heap = <<>> /\ timer.ref = <<>> /\ timer = [heap |-> timer.heap, ref |-> timer.ref, ok |-> timer.ok]
  BY <1>0, Zenon DEF NewTimer
<1>4. Len(timer.heap) = 0 /\ 0 \in Nat /\ DOMAIN timer.heap = {} /\ DOMAIN timer.ref = {} /\ 1..0 = {}
  BY <1>3
<1>5. timer.heap = [k \in 1..0 |-> timer.heap[k]] /\ timer.ref \in [DOMAIN timer.ref -> 1..0]
  BY <1>3
<1>6. Places(timer.heap, timer.ref)
  BY <1>4, Zenon DEF Places
<1>7. IsTimer(timer, 0)
  BY <1>3, <1>4, <1>5, <1>6, Zenon DEF IsTimer
<1>8. Ordered(Deadlines(timer.heap), 0)
  <2>1. 2..0 = {}
    OBVIOUS
  <2> QED
    BY <2>1, Zenon DEF Ordered
<1>9. Deadlined(timer, active, clock)
  BY <1>4, Zenon DEF Deadlined, NodesOf
<1>10. opened \subseteq DOMAIN timer.ref
  BY <1>0, Zenon
<1> QED
  BY <1>1, <1>2, <1>4, <1>7, <1>8, <1>9, <1>10, Zenon DEF ESInv, Heaped

\* A step that leaves the timer alone.
LEMMA TimerLeft ==
    ASSUME ESInv, timer' = timer, active' = active, opened' \subseteq opened, clock' = clock,
           MainThread(main'), main'.at = "timer_close" => timer.heap # <<>>
    PROVE  ESInv'
  BY Zenon DEF ESInv

\* The clock keeps the invariant.
LEMMA ClockKeeps == ESInv /\ ClockTicks => ESInv'
<1> SUFFICES ASSUME ESInv, ClockTicks PROVE ESInv'
  BY Zenon
<1>1. clock' = clock + 1 /\ clock \in Nat /\ timer' = timer /\ active' = active /\ opened' = opened /\ main' = main
  BY Zenon DEF ClockTicks, ESInv
<1>2. clock' \in Nat
  BY <1>1
<1>3. ASSUME NEW t \in NodesOf(timer) PROVE t.expires <= clock' + Timeout
  <2>1. t.expires <= clock + Timeout
    BY Zenon DEF ESInv, Deadlined
  <2>2. t.expires \in Int
    <3>1. IsTimer(timer, Len(timer.heap))
      BY Zenon DEF ESInv, Heaped
    <3> QED
      BY <3>1, Zenon DEF IsTimer, NodesOf
  <2> QED
    BY <1>1, <2>1, <2>2, EpollAssumption
<1>4. Deadlined(timer, active, clock')
  BY <1>3, Zenon DEF ESInv, Deadlined
<1> QED
  BY <1>1, <1>2, <1>4, Zenon DEF ESInv

\* The main thread goes on to another place.
LEMMA MainGoes ==
    ASSUME ESInv, NEW place, main' = [main EXCEPT !.at = place]
    PROVE  MainThread(main') /\ main'.at = place
<1>1. main = [at |-> main.at, batch |-> main.batch, until |-> main.until]
  BY Zenon DEF ESInv, MainThread
<1>2. main' = [at |-> place, batch |-> main.batch, until |-> main.until]
  BY <1>1, Zenon
<1> QED
  BY <1>2, Zenon DEF MainThread

\* The place of the main thread after an assignment to it.
LEMMA MainGoesOn ==
    ASSUME ESInv, NEW place, NEW batch, main' = [main EXCEPT !.at = place, !.batch = batch]
    PROVE  MainThread(main') /\ main'.at = place
<1>1. main = [at |-> main.at, batch |-> main.batch, until |-> main.until]
  BY Zenon DEF ESInv, MainThread
<1>2. main' = [at |-> place, batch |-> batch, until |-> main.until]
  BY <1>1, Zenon
<1> QED
  BY <1>2, Zenon DEF MainThread

\* An event that is handled leaves the main thread at its place.
LEMMA MainHandles ==
    ASSUME ESInv, Handled
    PROVE  MainThread(main') /\ main'.at = main.at
<1> DEFINE b == Tail(main.batch)
<1>1. main = [at |-> main.at, batch |-> main.batch, until |-> main.until]
  BY Zenon DEF ESInv, MainThread
<1>2. main' = [main EXCEPT !.batch = b]
  BY Zenon DEF Handled
<1> HIDE DEF b
<1>3. main' = [at |-> main.at, batch |-> b, until |-> main.until]
  BY <1>1, <1>2, Zenon
<1> QED
  BY <1>3, Zenon DEF MainThread

\* A main thread that does nothing still has the node it is closing.
LEMMA MainStays ==
    ASSUME ESInv, main' = main
    PROVE  MainThread(main') /\ (main'.at = "timer_close" => timer.heap # <<>>)
  BY Zenon DEF ESInv

\* Close() opens nothing.
LEMMA CloseKeeps ==
    ASSUME NEW f, CloseFd(f) PROVE opened' \subseteq opened /\ f \notin opened'
<1>1. CASE f \notin opened
  BY <1>1, Zenon DEF CloseFd
<1>2. CASE f \in opened
  BY <1>2, Zenon DEF CloseFd
<1> QED
  BY <1>1, <1>2, Zenon

\* The workers keep the invariant: they never touch the timer.
LEMMA WorkerKeeps == ASSUME ESInv, NEW w \in Workers,
                            TakesTask(w) \/ OnRead_(w) \/ OnProcess(w) \/ OnWrite_(w) \/ Rearms(w) \/ CloseConn_(w)
                     PROVE  ESInv'
<1>1. timer' = timer /\ active' = active /\ clock' = clock /\ main' = main
  BY Zenon DEF TakesTask, OnRead_, OnProcess, OnWrite_, Rearms, CloseConn_
<1>2. opened' \subseteq opened
  <2>1. CASE CloseConn_(w)
    BY <2>1, CloseKeeps, Zenon DEF CloseConn_
  <2>2. CASE TakesTask(w) \/ OnRead_(w) \/ OnProcess(w) \/ OnWrite_(w) \/ Rearms(w)
    BY <2>2, Zenon DEF TakesTask, OnRead_, OnProcess, OnWrite_, Rearms
  <2> QED
    BY <2>1, <2>2, Zenon
<1> QED
  BY <1>1, <1>2, MainStays, TimerLeft, Zenon

\* What the timer of the server is.
LEMMA TimerIs ==
    ASSUME ESInv
    PROVE  LET N == Len(timer.heap)
           IN  /\ Heaped(timer, N) /\ N \in Nat /\ DOMAIN timer.heap = 1..N
               /\ \A k \in 1..N : timer.heap[k] \in NodesOf(timer)
               /\ \A x \in DOMAIN timer.ref : timer.ref[x] \in 1..N /\ timer.heap[timer.ref[x]].id = x
               /\ \A t \in NodesOf(timer) : t.id \in DOMAIN timer.ref /\ t.expires \in Int
               /\ timer.heap # <<>> => 1 \in 1..N
<1> DEFINE N == Len(timer.heap)
<1>0. Heaped(timer, N) /\ IsTimer(timer, N)
  BY Zenon DEF ESInv, Heaped
<1> HIDE DEF N
<1>1. N \in Nat /\ (\A k \in 1..N : timer.heap[k].expires \in Int) /\ Places(timer.heap, timer.ref)
      /\ timer.heap = [k \in 1..N |-> timer.heap[k]]
  BY <1>0, Zenon DEF IsTimer
<1>2. DOMAIN timer.heap = 1..N
  BY <1>0, LenIs, Zenon
<1>3. \A k \in 1..N : timer.heap[k] \in NodesOf(timer)
  BY <1>2, Zenon DEF NodesOf
<1>4. \A x \in DOMAIN timer.ref : timer.ref[x] \in 1..N /\ timer.heap[timer.ref[x]].id = x
  BY <1>1, <1>2, Zenon DEF Places
<1>5. \A t \in NodesOf(timer) : t.id \in DOMAIN timer.ref /\ t.expires \in Int
  BY <1>1, <1>2, ZenonT(60) DEF Places, NodesOf
<1>6. ASSUME timer.heap # <<>> PROVE 1 \in 1..N
  <2>1. CASE N = 0
    <3> DEFINE a == timer.heap
    <3>1. a = [k \in 1..0 |-> a[k]]
      BY <1>1, <2>1, Zenon
    <3> HIDE DEF a
    <3>2. a = <<>>
      BY <3>1
    <3> QED
      BY <1>6, <3>2, Zenon DEF a
  <2>2. CASE N # 0
    BY <1>1, <2>2
  <2> QED
    BY <2>1, <2>2, Zenon
<1> QED
  BY <1>0, <1>1, <1>2, <1>3, <1>4, <1>5, <1>6, Zenon DEF N

\* A node was added or moved back for f, which is active now.
LEMMA RenewKeeps ==
    ASSUME ESInv, NEW f \in Fds, NEW M, Heaped(timer', M), Renewed(timer', timer, f, clock + Timeout),
           active' = [active EXCEPT ![f] = clock], clock' = clock,
           opened' \subseteq DOMAIN timer'.ref, MainThread(main'), main'.at # "timer_close"
    PROVE  ESInv'
<1>0. clock \in Nat /\ active \in [Fds -> Nat] /\ Deadlined(timer, active, clock)
  BY Zenon DEF ESInv
<1>1. active' \in [Fds -> Nat] /\ active'[f] = clock /\ \A g \in Fds : g # f => active'[g] = active[g]
  BY <1>0, Zenon
<1>2. Heaped(timer', Len(timer'.heap))
  <2>1. IsTimer(timer', M)
    BY Zenon DEF Heaped
  <2>2. Len(timer'.heap) = M
    BY <2>1, LenIs, Zenon
  <2> QED
    BY <2>2, Zenon
<1>3. ASSUME NEW t \in NodesOf(timer')
      PROVE  t.id \in Fds /\ active'[t.id] + Timeout <= t.expires /\ t.expires <= clock + Timeout
  <2>1. CASE t = [id |-> f, expires |-> clock + Timeout]
    <3>1. t.id = f /\ t.expires = clock + Timeout
      BY <2>1, Zenon
    <3>2. clock + Timeout <= clock + Timeout
      BY <1>0, EpollAssumption
    <3> QED
      BY <1>1, <3>1, <3>2, Zenon
  <2>2. CASE t \in NodesOf(timer) /\ t.id # f
    <3>1. t.id \in Fds /\ active[t.id] + Timeout <= t.expires /\ t.expires <= clock + Timeout
      BY <1>0, <2>2, Zenon DEF Deadlined
    <3>2. active'[t.id] = active[t.id]
      BY <1>1, <2>2, <3>1, Zenon
    <3> QED
      BY <3>1, <3>2, Zenon
  <2> QED
    BY <2>1, <2>2, Zenon DEF Renewed
<1>4. Deadlined(timer', active', clock')
  BY <1>3, Zenon DEF Deadlined
<1> QED
  BY <1>0, <1>1, <1>2, <1>4, Zenon DEF ESInv

\* Accepting a client keeps the invariant: add() gives it a deadline.
LEMMA ListenKeeps == ASSUME ESInv, DealListen_ PROVE ESInv'
<1>1. MainThread(main') /\ main'.at # "timer_close" /\ clock' = clock
  <2>1. Handled /\ main.at = "events" /\ clock' = clock
    BY Zenon DEF DealListen_, Handling
  <2>2. MainThread(main') /\ main'.at = main.at
    BY <2>1, MainHandles, Zenon
  <2>3. "events" # "timer_close"
    BY Zenon
  <2> QED
    BY <2>1, <2>2, <2>3, Zenon
<1>2. CASE UNCHANGED <<timer, opened, watch, active>>
  BY <1>1, <1>2, TimerLeft, Zenon
<1>3. CASE \E f \in Fds \ opened, garbage \in BOOLEAN :
              /\ opened' = opened \cup {f}
              /\ timer' = add(timer, f, clock + Timeout, garbage)
              /\ active' = [active EXCEPT ![f] = clock]
  <2>1. PICK f \in Fds \ opened, garbage \in BOOLEAN :
              /\ opened' = opened \cup {f}
              /\ timer' = add(timer, f, clock + Timeout, garbage)
              /\ active' = [active EXCEPT ![f] = clock]
    BY <1>3, Zenon
  <2>2. clock + Timeout \in Int
    BY EpollAssumption DEF ESInv
  <2>3. Heaped(timer, Len(timer.heap)) /\ opened \subseteq DOMAIN timer.ref
    BY Zenon DEF ESInv
  <2>4. /\ \E M : Heaped(timer', M)
        /\ DOMAIN timer'.ref = DOMAIN timer.ref \cup {f} /\ Renewed(timer', timer, f, clock + Timeout)
    BY <2>1, <2>2, <2>3, AddHeaps, Zenon
  <2>5. PICK M : Heaped(timer', M)
    BY <2>4, Zenon
  <2>6. opened' \subseteq DOMAIN timer'.ref
    BY <2>1, <2>3, <2>4, Zenon
  <2> QED
    BY <1>1, <2>1, <2>4, <2>5, <2>6, RenewKeeps, Zenon
<1> QED
  BY <1>2, <1>3, Zenon DEF DealListen_

\* Giving a connection to a worker keeps the invariant: adjust() finds its node, and
\* moves the deadline back.
LEMMA DealKeeps == ASSUME ESInv, NEW event, NEW op, Deal(event, op) PROVE ESInv'
<1> DEFINE f == Head(main.batch).fd
<1>0. Handled /\ main.at = "events" /\ clock' = clock /\ opened' = opened
      /\ timer' = adjust(timer, f, clock + Timeout) /\ active' = [active EXCEPT ![f] = clock]
  BY Zenon DEF Deal, Handling
<1> HIDE DEF f
<1>1. MainThread(main') /\ main'.at # "timer_close"
  <2>2. MainThread(main') /\ main'.at = main.at
    BY <1>0, MainHandles, Zenon
  <2>3. "events" # "timer_close"
    BY Zenon
  <2> QED
    BY <1>0, <2>2, <2>3, Zenon
<1>2. /\ Heaped(timer, Len(timer.heap)) /\ opened \subseteq DOMAIN timer.ref /\ Deadlined(timer, active, clock)
      /\ clock \in Nat /\ active \in [Fds -> Nat]
  BY Zenon DEF ESInv
<1>3. clock + Timeout \in Int
  BY <1>2, EpollAssumption
<1>4. CASE f \in DOMAIN timer.ref
  <2> DEFINE t == timer.heap[timer.ref[f]]
  <2>1. t \in NodesOf(timer) /\ t.id = f
    BY <1>4, TimerIs, Zenon
  <2>2. f \in Fds /\ t.expires <= clock + Timeout
    BY <1>2, <2>1, Zenon DEF Deadlined
  <2>3. /\ Heaped(timer', Len(timer.heap))
        /\ DOMAIN timer'.ref = DOMAIN timer.ref /\ Renewed(timer', timer, f, clock + Timeout)
    BY <1>0, <1>2, <1>3, <1>4, <2>2, AdjustHeaps, Zenon
  <2>4. opened' \subseteq DOMAIN timer'.ref
    BY <1>0, <1>2, <2>3, Zenon
  <2> QED
    BY <1>0, <1>1, <2>2, <2>3, <2>4, RenewKeeps, Zenon
<1>5. CASE f \notin DOMAIN timer.ref
  <2>1. timer' = [timer EXCEPT !.ok = timer.ok /\ FALSE]
    BY <1>0, <1>5, Zenon DEF adjust, Has, Assert_
  <2>2. timer = [heap |-> timer.heap, ref |-> timer.ref, ok |-> timer.ok]
    BY <1>2, Zenon DEF Heaped, IsTimer
  <2>3. timer'.heap = timer.heap /\ timer'.ref = timer.ref
        /\ timer' = [heap |-> timer'.heap, ref |-> timer'.ref, ok |-> timer'.ok]
    <3> DEFINE o == timer.ok /\ FALSE
    <3>1. timer' = [timer EXCEPT !.ok = o]
      BY <2>1, Zenon
    <3> HIDE DEF o
    <3>2. timer' = [heap |-> timer.heap, ref |-> timer.ref, ok |-> o]
      BY <2>2, <3>1, Zenon
    <3> QED
      BY <3>2, Zenon
  <2>4. Heaped(timer', Len(timer'.heap))
    BY <1>2, <2>3, Zenon DEF Heaped, IsTimer
  <2>5. NodesOf(timer') = NodesOf(timer)
    BY <2>3, Zenon DEF NodesOf
  <2>6. active' \in [Fds -> Nat] /\ \A g \in Fds : g # f => active'[g] = active[g]
    BY <1>0, <1>2, Zenon
  <2>7. ASSUME NEW t \in NodesOf(timer)
        PROVE  t.id \in Fds /\ active'[t.id] + Timeout <= t.expires /\ t.expires <= clock + Timeout
    <3>1. t.id \in Fds /\ active[t.id] + Timeout <= t.expires /\ t.expires <= clock + Timeout
      BY <1>2, Zenon DEF Deadlined
    <3>2. t.id # f
      BY <1>5, TimerIs, Zenon
    <3>3. active'[t.id] = active[t.id]
      BY <2>6, <3>1, <3>2, Zenon
    <3> QED
      BY <3>1, <3>3, Zenon
  <2>8. Deadlined(timer', active', clock')
    BY <1>0, <2>5, <2>7, Zenon DEF Deadlined
  <2> QED
    BY <1>0, <1>1, <1>2, <2>3, <2>4, <2>6, <2>8, ZenonT(60) DEF ESInv
<1> QED
  BY <1>4, <1>5, Zenon

\* Close() and pop() of the timer keep the invariant.
LEMMA CloseByTimerKeeps == ASSUME ESInv, TimerCloses PROVE ESInv'
<1> DEFINE N == Len(timer.heap)
           f == timer.heap[1].id
<1>0. /\ main.at = "timer_close" /\ CloseFd(f) /\ timer' = pop_first(timer)
      /\ main' = [main EXCEPT !.at = "tick"] /\ clock' = clock /\ active' = active
  BY Zenon DEF TimerCloses
<1>1. Heaped(timer, N) /\ 1 \in 1..N
  BY <1>0, TimerIs, Zenon DEF ESInv
<1>2. timer' = del_(timer, 1, TRUE)
  BY <1>0, Zenon DEF pop_first
<1> HIDE DEF N
<1>3. /\ Heaped(timer', N - 1) /\ NodesOf(timer') \subseteq NodesOf(timer)
      /\ DOMAIN timer'.ref = DOMAIN timer.ref \ {f}
  BY <1>1, <1>2, DelHeaps, Zenon
<1>4. Heaped(timer', Len(timer'.heap))
  <2>1. IsTimer(timer', N - 1)
    BY <1>3, Zenon DEF Heaped
  <2>2. Len(timer'.heap) = N - 1
    BY <2>1, LenIs, Zenon
  <2> QED
    BY <1>3, <2>2, Zenon
<1>5. opened' \subseteq opened /\ f \notin opened'
  BY <1>0, CloseKeeps, Zenon
<1>6. opened' \subseteq DOMAIN timer'.ref
  BY <1>3, <1>5, Zenon DEF ESInv
<1>7. Deadlined(timer', active', clock')
  BY <1>0, <1>3, Zenon DEF ESInv, Deadlined
<1>8. MainThread(main') /\ main'.at = "tick"
  BY <1>0, MainGoes, Zenon
<1>9. "tick" # "timer_close"
  BY Zenon
<1> QED
  BY <1>0, <1>4, <1>6, <1>7, <1>8, <1>9, Zenon DEF ESInv

\* The other steps of the main thread keep the invariant.
LEMMA MainKeeps ==
    ASSUME ESInv, TimerFires \/ GetNextTick \/ Wait \/ EventsDone \/ HupFires \/ HupCloses
    PROVE  ESInv'
<1>0. "tick" # "timer_close" /\ "next" # "timer_close" /\ "wait" # "timer_close" /\ "events" # "timer_close" /\ "hup_close" # "timer_close"
  BY Zenon
<1>1. timer' = timer /\ active' = active /\ clock' = clock
  BY Zenon DEF TimerFires, GetNextTick, Wait, EventsDone, HupFires, HupCloses
<1>2. opened' \subseteq opened
  BY CloseKeeps, Zenon DEF TimerFires, GetNextTick, Wait, EventsDone, HupFires, HupCloses
<1>3. CASE TimerFires
  <2>1. main' = [main EXCEPT !.at = "timer_close"] /\ timer.heap # <<>>
    BY <1>3, Zenon DEF TimerFires, IsDue
  <2> QED
    BY <1>1, <1>2, <2>1, MainGoes, TimerLeft, Zenon
<1>4. CASE GetNextTick
  <2>1. CASE main' = [main EXCEPT !.at = "next"]
    BY <1>0, <1>1, <1>2, <2>1, MainGoes, TimerLeft, Zenon
  <2>2. CASE main' = [main EXCEPT !.at = "wait", !.until = NextTick(timer, clock)]
    <3> DEFINE u == NextTick(timer, clock)
    <3>1. main = [at |-> main.at, batch |-> main.batch, until |-> main.until]
      BY Zenon DEF ESInv, MainThread
    <3>2. main' = [at |-> "wait", batch |-> main.batch, until |-> u]
      <4> HIDE DEF u
      <4> QED
        BY <2>2, <3>1, Zenon DEF u
    <3>3. MainThread(main') /\ main'.at = "wait"
      BY <3>2, Zenon DEF MainThread
    <3> QED
      BY <1>0, <1>1, <1>2, <3>3, TimerLeft, Zenon
  <2> QED
    BY <1>4, <2>1, <2>2, Zenon DEF GetNextTick
<1>5. CASE Wait
  <2>1. (\E batch : main' = [main EXCEPT !.at = "events", !.batch = batch]) \/ main' = [main EXCEPT !.at = "tick"]
    BY <1>5, Zenon DEF Wait
  <2>2. MainThread(main') /\ main'.at # "timer_close"
    BY <1>0, <2>1, MainGoes, MainGoesOn, Zenon
  <2> QED
    BY <1>1, <1>2, <2>2, TimerLeft, Zenon
<1>6. CASE EventsDone
  <2>1. main' = [main EXCEPT !.at = "tick"]
    BY <1>6, Zenon DEF EventsDone
  <2> QED
    BY <1>0, <1>1, <1>2, <2>1, MainGoes, TimerLeft, Zenon
<1>7. CASE HupFires
  <2>1. main' = [main EXCEPT !.at = "hup_close"]
    BY <1>7, Zenon DEF HupFires
  <2> QED
    BY <1>0, <1>1, <1>2, <2>1, MainGoes, TimerLeft, Zenon
<1>8. CASE HupCloses
  <2>1. main' = [main EXCEPT !.at = "events", !.batch = Tail(main.batch)]
    BY <1>8, Zenon DEF HupCloses
  <2> QED
    BY <1>0, <1>1, <1>2, <2>1, MainGoesOn, TimerLeft, Zenon
<1> QED
  BY <1>3, <1>4, <1>5, <1>6, <1>7, <1>8, Zenon

\* Every step keeps the invariant.
LEMMA ESInvKept == ESInv /\ [ESNext]_esVars => ESInv'
<1> SUFFICES ASSUME ESInv, [ESNext]_esVars PROVE ESInv'
  BY Zenon
<1>1. CASE ClockTicks
  BY <1>1, ClockKeeps, Zenon
<1>2. CASE Connects \/ \E f \in Fds : Sends(f)
  <2>1. timer' = timer /\ active' = active /\ opened' = opened /\ clock' = clock /\ main' = main
    BY <1>2, Zenon DEF Connects, Sends
  <2> QED
    BY <2>1, MainStays, TimerLeft, Zenon
<1>3. CASE TimerFires \/ GetNextTick \/ Wait \/ EventsDone \/ HupFires \/ HupCloses
  BY <1>3, MainKeeps, Zenon
<1>4. CASE TimerCloses
  BY <1>4, CloseByTimerKeeps, Zenon
<1>5. CASE DealListen_
  BY <1>5, ListenKeeps, Zenon
<1>6. CASE Deals
  BY <1>6, DealKeeps, Zenon DEF Deals
<1>7. CASE \E w \in Workers : \/ TakesTask(w) \/ OnRead_(w) \/ OnProcess(w) \/ OnWrite_(w)
                              \/ Rearms(w) \/ CloseConn_(w)
  BY <1>7, WorkerKeeps, Zenon
<1>8. CASE UNCHANGED esVars
  <2>1. timer' = timer /\ active' = active /\ opened' = opened /\ clock' = clock /\ main' = main
    BY <1>8, Zenon DEF esVars
  <2> QED
    BY <2>1, MainStays, TimerLeft, Zenon
<1> QED
  BY <1>1, <1>2, <1>3, <1>4, <1>5, <1>6, <1>7, <1>8, Zenon DEF ESNext

\* Every open connection of the earlier server has a deadline in the heap, the heap is in
\* order and finds every id: for any number of descriptors, workers and clients.
THEOREM TimersAreKept == ESSpec => []TimersKept
<1>1. ESInv => TimersKept
  <2> SUFFICES ASSUME ESInv PROVE TimersKept
    BY Zenon
  <2> DEFINE N == Len(timer.heap)
  <2>1. IsTimer(timer, N) /\ Ordered(Deadlines(timer.heap), N)
    BY Zenon DEF ESInv, Heaped
  <2>2. N \in Nat /\ DOMAIN timer.heap = 1..N /\ (\A k \in 1..N : timer.heap[k].expires \in Int) /\ Places(timer.heap, timer.ref)
    BY <2>1, TimerIs, Zenon DEF IsTimer
  <2> HIDE DEF N
  <2>3. ASSUME NEW i \in 2..N PROVE ~Earlier(timer, i, i \div 2)
    <3>1. i \in 1..N /\ i \div 2 \in 1..N
      BY <2>2, Halves
    <3>2. Deadlines(timer.heap)[i \div 2] <= Deadlines(timer.heap)[i]
      BY <2>1, Zenon DEF Ordered
    <3>3. timer.heap[i \div 2].expires <= timer.heap[i].expires
      BY <2>2, <3>1, <3>2, Zenon DEF Deadlines
    <3>4. timer.heap[i \div 2].expires \in Int /\ timer.heap[i].expires \in Int
      BY <2>2, <3>1, Zenon
    <3> QED
      BY <3>3, <3>4 DEF Earlier
  <2>4. IsHeap(timer)
    BY <2>2, <2>3, Zenon DEF IsHeap, Places, Has, N
  <2> QED
    BY <2>4, Zenon DEF TimersKept, Has, ESInv
<1> QED
  BY <1>1, ESInvStarts, ESInvKept, PTL DEF ESSpec

\* The timer of the earlier server closes only a connection that was neither accepted nor
\* given to a worker for Timeout.
THEOREM TimerClosesIdle == ESSpec => ClosedOnlyWhenIdle
<1>1. ESInv /\ [ESNext]_esVars => [IdleClosed]_esVars
  <2> SUFFICES ASSUME ESInv, TimerFires PROVE clock - active[timer.heap[1].id] >= Timeout
    BY Zenon DEF IdleClosed
  <2> DEFINE t == timer.heap[1]
  <2>1. timer.heap # <<>> /\ t.expires - clock <= 0
    BY Zenon DEF TimerFires, IsDue
  <2>2. t \in NodesOf(timer) /\ t.expires \in Int
    BY <2>1, TimerIs, Zenon
  <2>3. t.id \in Fds /\ active[t.id] + Timeout <= t.expires
    BY <2>2, Zenon DEF ESInv, Deadlined
  <2>4. active[t.id] \in Nat /\ clock \in Nat
    BY <2>3, Zenon DEF ESInv
  <2> HIDE DEF t
  <2>5. clock - active[t.id] >= Timeout
    BY <2>1, <2>2, <2>3, <2>4, EpollAssumption
  <2> QED
    BY <2>5, Zenon DEF t
<1> QED
  BY <1>1, ESInvStarts, ESInvKept, PTL DEF ESSpec, ClosedOnlyWhenIdle
=============================================================================
