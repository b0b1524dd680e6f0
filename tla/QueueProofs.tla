---------------------------- MODULE QueueProofs -----------------------------
(***************************************************************************)
(* The block queue of the logger and the intrusive list of tasks of the    *)
(* event loop, for any number of threads and nodes.                        *)
(***************************************************************************)
EXTENDS ListQueue, BlockQueue, FiniteSetTheorems,
        WellFoundedInduction, TLAPS

-----------------------------------------------------------------------------
(***************************************************************************)
(* BlockDeque.  No thread sleeps in it while there is something for it to  *)
(* do, for any number of producers and consumers and any capacity.         *)
(***************************************************************************)

\* Where a consumer is with the condition variable.
States == {"outside", "waiting", "notified"}

\* The threads woken for something and not yet through wait().
Woken(f) == Cardinality(In(f, "notified"))

\* Of finitely many threads the woken ones are counted by a natural number.
LEMMA WokenNat ==
    ASSUME NEW S, IsFiniteSet(S), NEW f \in [S -> States]
    PROVE  IsFiniteSet(In(f, "notified")) /\ Woken(f) \in Nat
<1>1. In(f, "notified") \subseteq S
  BY Zenon DEF In
<1>2. IsFiniteSet(In(f, "notified"))
  BY <1>1, FS_Subset, Zenon
<1> QED
  BY <1>2, FS_CardinalityType, Zenon DEF Woken

\* Waking a thread that waits adds one to the woken, and no new one waits.
LEMMA WakesOne ==
    ASSUME NEW S, IsFiniteSet(S), NEW f \in [S -> States], NEW t \in In(f, "waiting"),
           NEW g, g = [f EXCEPT ![t] = "notified"]
    PROVE  /\ g \in [S -> States]
           /\ Woken(g) = Woken(f) + 1
           /\ In(g, "waiting") \subseteq In(f, "waiting")
<1>1. t \in S /\ f[t] = "waiting"
  BY Zenon DEF In
<1>2. g \in [S -> States]
  BY <1>1, Zenon DEF States
<1>3. In(g, "notified") = In(f, "notified") \cup {t}
  BY <1>1, Zenon DEF In
<1>4. t \notin In(f, "notified")
  BY <1>1, Zenon DEF In
<1>5. Woken(g) = Woken(f) + 1
  BY <1>3, <1>4, WokenNat, FS_AddElement, Zenon DEF Woken
<1>6. In(g, "waiting") \subseteq In(f, "waiting")
  BY <1>1, Zenon DEF In
<1> QED
  BY <1>2, <1>5, <1>6, Zenon

\* A thread that was woken and does something else is one woken thread less.
LEMMA LeavesWoken ==
    ASSUME NEW S, IsFiniteSet(S), NEW f \in [S -> States], NEW t \in In(f, "notified"),
           NEW g, In(g, "notified") = In(f, "notified") \ {t}
    PROVE  Woken(g) = Woken(f) - 1
BY WokenNat, FS_RemoveElement DEF Woken

\* A step of a thread that was not woken changes nothing for those that were.
LEMMA OthersWoken ==
    ASSUME NEW S, NEW f \in [S -> States], NEW t \in S, f[t] # "notified",
           NEW s \in {"outside", "waiting"}, NEW g, g = [f EXCEPT ![t] = s]
    PROVE  g \in [S -> States] /\ Woken(g) = Woken(f)
<1>1. g \in [S -> States]
  BY Zenon DEF States
<1>2. In(g, "notified") = In(f, "notified")
  BY Zenon DEF In
<1> QED
  BY <1>1, <1>2, Zenon DEF Woken

\* notify_one(): as long as a thread waits afterwards, one more has been woken.
LEMMA NotifyOne ==
    ASSUME NEW S, IsFiniteSet(S), NEW f \in [S -> States], NEW g, notify_one(f, g)
    PROVE  /\ g \in [S -> States]
           /\ In(g, "waiting") # {} => In(f, "waiting") # {} /\ Woken(g) = Woken(f) + 1
<1>1. CASE In(f, "waiting") = {}
  BY <1>1, Zenon DEF notify_one
<1>2. CASE In(f, "waiting") # {}
  <2>1. PICK t \in In(f, "waiting") : g = [f EXCEPT ![t] = "notified"]
    BY <1>2, Zenon DEF notify_one
  <2> QED
    BY <2>1, <1>2, WakesOne, Zenon
<1> QED
  BY <1>1, <1>2, Zenon

\* A step out of wait() or of pop() leaves no new thread waiting.
LEMMA Outside ==
    ASSUME NEW S, NEW f \in [S -> States], NEW t \in S, NEW g, g = [f EXCEPT ![t] = "outside"]
    PROVE  In(g, "waiting") # {} => In(f, "waiting") # {}
BY Zenon DEF In

-----------------------------------------------------------------------------
\* The invariant: Close() is under way only once isClose_ is set.
BQInv == BQTypeOK /\ NoLostWakeup /\ (closing # "no" => isClose)

\* What the two halves of NoLostWakeup say, for a number of items and the threads of a side.
Served(n, f) == In(f, "waiting") # {} => n <= Woken(f)

\* NoLostWakeup in these terms.
LEMMA ServedMeans ==
    NoLostWakeup <=> (~isClose /\ ~lost => Served(items, con) /\ Served(Capacity - items, pro))
BY Zenon DEF NoLostWakeup, Served, Woken

\* One more thing to do, and one thread notified of it.
LEMMA OneMore ==
    ASSUME NEW S, IsFiniteSet(S), NEW f \in [S -> States], NEW g, notify_one(f, g),
           NEW n \in Int, Served(n, f)
    PROVE  Served(n + 1, g)
<1>1. ASSUME In(g, "waiting") # {}
      PROVE  n + 1 <= Woken(g)
  <2>1. In(f, "waiting") # {} /\ Woken(g) = Woken(f) + 1
    BY <1>1, NotifyOne, Zenon
  <2>2. n <= Woken(f)
    BY <2>1, Zenon DEF Served
  <2>3. Woken(f) \in Nat
    BY WokenNat, Zenon
  <2> QED
    BY <2>1, <2>2, <2>3
<1> QED
  BY <1>1, Zenon DEF Served

\* One thread takes one thing to do and leaves.
LEMMA OneLess ==
    ASSUME NEW S, IsFiniteSet(S), NEW f \in [S -> States], NEW t \in S,
           f[t] \in {"outside", "notified"}, NEW g, g = [f EXCEPT ![t] = "outside"],
           NEW n \in Int, Served(n, f)
    PROVE  g \in [S -> States] /\ Served(n - 1, g)
<1>0. Woken(f) \in Nat
  BY WokenNat, Zenon
<1>1. g \in [S -> States] /\ (Woken(g) = Woken(f) \/ Woken(g) = Woken(f) - 1)
  <2>1. CASE f[t] = "notified"
    <3>1. t \in In(f, "notified") /\ In(g, "notified") = In(f, "notified") \ {t}
      BY <2>1, Zenon DEF In
    <3>2. Woken(g) = Woken(f) - 1
      BY <3>1, LeavesWoken, Zenon
    <3> QED
      BY <3>2, Zenon DEF States
  <2>2. CASE f[t] # "notified"
    BY <2>2, OthersWoken, Zenon
  <2> QED
    BY <2>1, <2>2, Zenon
<1>2. ASSUME In(g, "waiting") # {}
      PROVE  n - 1 <= Woken(g)
  <2>1. n <= Woken(f)
    BY <1>2, Outside, Zenon DEF Served
  <2> QED
    BY <2>1, <1>0, <1>1
<1> QED
  BY <1>1, <1>2, Zenon DEF Served

\* A thread waits because there is nothing to do.
LEMMA NothingToDo ==
    ASSUME NEW S, IsFiniteSet(S), NEW g \in [S -> States]
    PROVE  Served(0, g)
BY WokenNat DEF Served

-----------------------------------------------------------------------------
\* What the invariant gives to a step.
LEMMA Facts ==
    ASSUME BQInv
    PROVE  /\ pro \in [Producers -> States] /\ con \in [Consumers -> States]
           /\ items \in 0..Capacity /\ Capacity \in Nat \ {0}
           /\ IsFiniteSet(Producers) /\ IsFiniteSet(Consumers)
           /\ ~isClose /\ ~lost => Served(items, con) /\ Served(Capacity - items, pro)
BY BlockQueueAssumption, ServedMeans, Zenon DEF BQInv, BQTypeOK, States

\* The invariant after a step, from its parts.
LEMMA Keeps ==
    ASSUME BQTypeOK', closing' # "no" => isClose',
           ~isClose' /\ ~lost' => Served(items', con') /\ Served(Capacity - items', pro')
    PROVE  BQInv'
BY Zenon DEF BQInv, NoLostWakeup, Served, Woken

\* push_back() and push_front(): the producer waits because there is no room, or takes
\* one place and notifies a consumer.
LEMMA PushKeeps ==
    ASSUME BQInv, NEW p \in Producers, push_back(p)
    PROVE  BQInv'
<1>1. BQTypeOK
  BY Zenon DEF BQInv
<1>2. UNCHANGED <<isClose, closing, lost>> /\ pro[p] \in {"outside", "notified"}
  BY Zenon DEF push_back
<1>3. CASE items >= Capacity
  <2>1. pro' = [pro EXCEPT ![p] = "waiting"] /\ UNCHANGED <<items, con>>
    BY <1>3, Zenon DEF push_back
  <2>2. pro' \in [Producers -> States]
    BY Facts, <2>1, Zenon DEF States
  <2>3. Capacity - items' = 0
    BY Facts, <2>1, <1>3
  <2>4. Served(Capacity - items', pro')
    BY Facts, <2>2, <2>3, NothingToDo, Zenon
  <2>5. BQTypeOK'
    BY <1>1, <1>2, <2>1, <2>2, Zenon DEF BQTypeOK, States
  <2> QED
    BY <1>2, <2>1, <2>4, <2>5, Facts, Keeps, Zenon DEF BQInv
<1>4. CASE ~(items >= Capacity)
  <2>1. pro' = [pro EXCEPT ![p] = "outside"] /\ items' = items + 1 /\ notify_one(con, con')
    BY <1>4, Zenon DEF push_back
  <2>2. con' \in [Consumers -> States] /\ pro' \in [Producers -> States]
    BY Facts, <2>1, NotifyOne, Zenon DEF States
  <2>3. items' \in 0..Capacity /\ items \in Int /\ Capacity - items \in Int
    BY Facts, <2>1, <1>4
  <2>4. Capacity - items' = (Capacity - items) - 1
    BY Facts, <2>1
  <2>5. ASSUME ~isClose, ~lost
        PROVE  Served(items', con') /\ Served(Capacity - items', pro')
    <3>0. Served(items, con) /\ Served(Capacity - items, pro)
      BY <2>5, Facts, Zenon
    <3>a. IsFiniteSet(Consumers) /\ con \in [Consumers -> States]
      BY Facts, Zenon
    <3>b. IsFiniteSet(Producers) /\ pro \in [Producers -> States]
      BY Facts, Zenon
    <3>1. Served(items + 1, con')
      BY <3>0, <3>a, <2>1, <2>3, OneMore, Zenon
    <3>2. Served((Capacity - items) - 1, pro')
      <4> DEFINE n == Capacity - items
      <4>1. n \in Int /\ Served(n, pro)
        BY <2>3, <3>0, Zenon
      <4> HIDE DEF n
      <4>2. Served(n - 1, pro')
        BY <4>1, <3>b, <2>1, <1>2, OneLess, Zenon
      <4> QED
        BY <4>2, Zenon DEF n
    <3> QED
      BY <3>1, <3>2, <2>1, <2>4, Zenon
  <2>6. BQTypeOK'
    BY <1>1, <1>2, <2>2, <2>3, Zenon DEF BQTypeOK, States
  <2> QED
    BY <1>2, <2>5, <2>6, Keeps, Zenon DEF BQInv
<1> QED
  BY <1>3, <1>4, Zenon

\* A consumer that takes an item frees a place, and notifies a producer of it.
LEMMA TakesKeeps ==
    ASSUME BQInv, NEW c \in Consumers, con[c] \in {"outside", "notified"}, items # 0, Takes(c)
    PROVE  BQInv'
<1>1. con' = [con EXCEPT ![c] = "outside"] /\ items' = items - 1 /\ notify_one(pro, pro')
      /\ UNCHANGED <<isClose, closing, lost>>
  BY Zenon DEF Takes
<1>2. con' \in [Consumers -> States] /\ pro' \in [Producers -> States]
  BY Facts, <1>1, NotifyOne, Zenon DEF States
<1>3. items' \in 0..Capacity /\ items \in Int /\ Capacity - items \in Int
  BY Facts, <1>1
<1>4. Capacity - items' = (Capacity - items) + 1
  BY Facts, <1>1
<1>5. ASSUME ~isClose, ~lost
      PROVE  Served(items', con') /\ Served(Capacity - items', pro')
  <2>0. Served(items, con) /\ Served(Capacity - items, pro)
    BY <1>5, Facts, Zenon
  <2>a. IsFiniteSet(Consumers) /\ con \in [Consumers -> States]
    BY Facts, Zenon
  <2>b. IsFiniteSet(Producers) /\ pro \in [Producers -> States]
    BY Facts, Zenon
  <2>1. Served(items - 1, con')
    BY <2>0, <2>a, <1>1, <1>3, OneLess, Zenon
  <2>2. Served((Capacity - items) + 1, pro')
    <3> DEFINE n == Capacity - items
    <3>1. n \in Int /\ Served(n, pro)
      BY <1>3, <2>0, Zenon
    <3> HIDE DEF n
    <3>2. Served(n + 1, pro')
      BY <3>1, <2>b, <1>1, OneMore, Zenon
    <3> QED
      BY <3>2, Zenon DEF n
  <2> QED
    BY <2>1, <2>2, <1>1, <1>4, Zenon
<1>6. BQTypeOK'
  BY <1>1, <1>2, <1>3, Zenon DEF BQTypeOK, States, BQInv
<1> QED
  BY <1>1, <1>5, <1>6, Keeps, Zenon DEF BQInv

\* A consumer waits only when the queue is empty.
LEMMA WaitsKeeps ==
    ASSUME BQInv, NEW c \in Consumers, items = 0, Waits(c)
    PROVE  BQInv'
<1>1. con' = [con EXCEPT ![c] = "waiting"] /\ UNCHANGED <<items, isClose, closing, pro, lost>>
  BY Zenon DEF Waits
<1>2. con' \in [Consumers -> States]
  BY Facts, <1>1, Zenon DEF States
<1>3. Served(items', con')
  BY Facts, <1>1, <1>2, NothingToDo, Zenon
<1>4. BQTypeOK'
  BY <1>1, <1>2, Zenon DEF BQTypeOK, States, BQInv
<1> QED
  BY <1>1, <1>3, <1>4, Facts, Keeps, Zenon DEF BQInv

\* wait_for() gives up: either nobody had woken the thread, or there was nothing to take,
\* or the notification it keeps is counted as lost.
LEMMA TimeoutKeeps ==
    ASSUME BQInv, NEW c \in Consumers, pop_timeout(c)
    PROVE  BQInv'
<1>1. /\ con[c] \in {"waiting", "notified"} /\ con' = [con EXCEPT ![c] = "outside"]
      /\ lost' = (lost \/ (con[c] = "notified" /\ items > 0))
      /\ UNCHANGED <<items, isClose, closing, pro>>
  BY Zenon DEF pop_timeout
<1>2. con' \in [Consumers -> States]
  BY Facts, <1>1, Zenon DEF States
<1>3. lost' \in BOOLEAN
  BY <1>1, Zenon DEF BQInv, BQTypeOK
<1>4. BQTypeOK'
  BY <1>1, <1>2, <1>3, Zenon DEF BQTypeOK, States, BQInv
<1>5. ASSUME ~isClose', ~lost'
      PROVE  Served(items', con') /\ Served(Capacity - items', pro')
  <2>1. ~isClose /\ ~lost /\ (con[c] = "notified" => ~(items > 0))
    BY <1>1, <1>5, Zenon
  <2>2. CASE con[c] = "notified"
    <3>1. items' = 0
      BY Facts, <1>1, <2>1, <2>2
    <3>2. Served(items', con')
      BY Facts, <1>2, <3>1, NothingToDo, Zenon
    <3>3. Served(Capacity - items, pro)
      BY Facts, <2>1, Zenon
    <3> QED
      BY <1>1, <3>2, <3>3, Zenon
  <2>3. CASE con[c] # "notified"
    <3>0. con \in [Consumers -> States]
      BY Facts, Zenon
    <3>1. Woken(con') = Woken(con)
      <4>1. In(con', "notified") = In(con, "notified")
        BY <1>1, <2>3, <3>0, Zenon DEF In
      <4> QED
        BY <4>1, Zenon DEF Woken
    <3>2. In(con', "waiting") # {} => In(con, "waiting") # {}
      BY <1>1, <3>0, Zenon DEF In
    <3> QED
      BY Facts, <1>1, <2>1, <3>1, <3>2, Zenon DEF Served
  <2> QED
    BY <2>2, <2>3, Zenon
<1>6. closing' # "no" => isClose'
  BY <1>1, Zenon DEF BQInv
<1> QED
  BY <1>4, <1>5, <1>6, Keeps, Zenon

\* A thread woken for no reason only adds to the woken.
LEMMA MoreWoken ==
    ASSUME NEW S, IsFiniteSet(S), NEW f \in [S -> States], NEW t \in In(f, "waiting"),
           NEW g, g = [f EXCEPT ![t] = "notified"], NEW n \in Int, Served(n, f)
    PROVE  Served(n, g)
<1>1. Woken(g) = Woken(f) + 1 /\ In(g, "waiting") \subseteq In(f, "waiting")
  BY WakesOne, Zenon
<1>2. Woken(f) \in Nat
  BY WokenNat, Zenon
<1> QED
  BY <1>1, <1>2 DEF Served

\* A spurious wakeup, on either side.
LEMMA SpuriousKeeps ==
    ASSUME BQInv, spurious
    PROVE  BQInv'
<1>1. UNCHANGED <<items, isClose, closing, lost>>
  BY Zenon DEF spurious
<1>2. items \in Int /\ Capacity - items \in Int
  BY Facts
<1>3. CASE (\E c \in In(con, "waiting") : con' = [con EXCEPT ![c] = "notified"]) /\ UNCHANGED pro
  <2>1. PICK c \in In(con, "waiting") : con' = [con EXCEPT ![c] = "notified"]
    BY <1>3, Zenon
  <2>2. con' \in [Consumers -> States]
    BY Facts, <2>1, WakesOne, Zenon
  <2>3. Served(items, con) => Served(items, con')
    BY Facts, <1>2, <2>1, MoreWoken, Zenon
  <2>4. BQTypeOK'
    BY <1>1, <1>3, <2>2, Zenon DEF BQTypeOK, States, BQInv
  <2> QED
    BY <1>1, <1>3, <2>3, <2>4, Facts, Keeps, Zenon DEF BQInv
<1>4. CASE (\E p \in In(pro, "waiting") : pro' = [pro EXCEPT ![p] = "notified"]) /\ UNCHANGED con
  <2>1. PICK p \in In(pro, "waiting") : pro' = [pro EXCEPT ![p] = "notified"]
    BY <1>4, Zenon
  <2>2. pro' \in [Producers -> States]
    BY Facts, <2>1, WakesOne, Zenon
  <2>3. Served(Capacity - items, pro) => Served(Capacity - items, pro')
    BY Facts, <1>2, <2>1, MoreWoken, Zenon
  <2>4. BQTypeOK'
    BY <1>1, <1>4, <2>2, Zenon DEF BQTypeOK, States, BQInv
  <2> QED
    BY <1>1, <1>4, <2>3, <2>4, Facts, Keeps, Zenon DEF BQInv
<1> QED
  BY <1>3, <1>4, Zenon DEF spurious

\* flush() wakes a consumer, if one waits.
LEMMA FlushKeeps ==
    ASSUME BQInv, flush
    PROVE  BQInv'
<1>1. notify_one(con, con') /\ UNCHANGED <<items, isClose, closing, pro, lost>>
  BY Zenon DEF flush
<1>2. con' \in [Consumers -> States]
  BY Facts, <1>1, NotifyOne, Zenon
<1>3. items \in Int
  BY Facts
<1>4. ASSUME Served(items, con) PROVE Served(items, con')
  <2>1. CASE In(con, "waiting") = {}
    BY <1>1, <1>4, <2>1, Zenon DEF notify_one
  <2>2. CASE In(con, "waiting") # {}
    <3>1. PICK c \in In(con, "waiting") : con' = [con EXCEPT ![c] = "notified"]
      BY <1>1, <2>2, Zenon DEF notify_one
    <3> QED
      BY Facts, <1>3, <1>4, <3>1, MoreWoken, Zenon
  <2> QED
    BY <2>1, <2>2, Zenon
<1>5. BQTypeOK'
  BY <1>1, <1>2, Zenon DEF BQTypeOK, States, BQInv
<1> QED
  BY <1>1, <1>4, <1>5, Facts, Keeps, Zenon DEF BQInv

\* clear() empties the queue; a producer that waits is not told, which is counted as lost.
LEMMA ClearKeeps ==
    ASSUME BQInv, clear_items
    PROVE  BQInv'
<1>1. /\ items' = 0 /\ lost' = (lost \/ In(pro, "waiting") # {})
      /\ UNCHANGED <<isClose, closing, pro, con>>
  BY Zenon DEF clear_items
<1>2. 0 \in 0..Capacity
  BY Facts
<1>3. lost' \in BOOLEAN
  BY <1>1, Zenon DEF BQInv, BQTypeOK
<1>4. BQTypeOK'
  BY <1>1, <1>2, <1>3, Zenon DEF BQTypeOK, BQInv
<1>5. Served(items', con')
  BY Facts, <1>1, NothingToDo, Zenon
<1>6. ~lost' => Served(Capacity - items', pro')
  BY <1>1, Zenon DEF Served
<1>7. closing' # "no" => isClose'
  BY <1>1, Zenon DEF BQInv
<1> QED
  BY <1>4, <1>5, <1>6, <1>7, Keeps, Zenon

\* After Close() nothing is claimed any more.
LEMMA CloseKeeps ==
    ASSUME BQInv, Close \/ Close_notify
    PROVE  BQInv'
<1>1. CASE Close
  <2>1. 0 \in 0..Capacity
    BY Facts
  <2>2. BQTypeOK'
    BY <1>1, <2>1, Zenon DEF Close, BQTypeOK, BQInv
  <2>3. isClose' = TRUE
    BY <1>1, Zenon DEF Close
  <2> QED
    BY <2>2, <2>3, Keeps, Zenon
<1>2. CASE Close_notify
  <2>1. isClose' = isClose /\ isClose
    BY <1>2, Zenon DEF Close_notify, BQInv
  <2>2. pro' \in [Producers -> States] /\ con' \in [Consumers -> States]
    BY <1>2, Facts, Zenon DEF Close_notify, notify_all, States
  <2>3. BQTypeOK'
    BY <1>2, <2>2, Zenon DEF Close_notify, BQTypeOK, BQInv, States
  <2> QED
    BY <2>1, <2>3, Keeps, Zenon
<1> QED
  BY <1>1, <1>2, Zenon

\* Every step of BlockDeque keeps the invariant.
LEMMA StepKeeps ==
    ASSUME BQInv, [BQNext]_bqVars
    PROVE  BQInv'
<1>1. ASSUME NEW p \in Producers, push_back(p) PROVE BQInv'
  BY <1>1, PushKeeps, Zenon
<1>2. ASSUME NEW c \in Consumers, pop_outside(c) PROVE BQInv'
  BY <1>2, TakesKeeps, WaitsKeeps, Zenon DEF pop_outside
<1>3. ASSUME NEW c \in Consumers, pop_woken(c) PROVE BQInv'
  <2>1. CASE isClose = TRUE
    <3>1. con' = [con EXCEPT ![c] = "outside"] /\ UNCHANGED <<items, isClose, closing, pro, lost>>
      BY <1>3, <2>1, Zenon DEF pop_woken
    <3>2. BQTypeOK'
      BY <3>1, Zenon DEF BQInv, BQTypeOK
    <3> QED
      BY <2>1, <3>1, <3>2, Keeps, Zenon
  <2>2. CASE isClose # TRUE
    <3>1. con[c] = "notified" /\ IF items = 0 THEN Waits(c) ELSE Takes(c)
      BY <1>3, <2>2, Zenon DEF pop_woken, BQInv, BQTypeOK
    <3> QED
      BY <3>1, TakesKeeps, WaitsKeeps, Zenon
  <2> QED
    BY <2>1, <2>2, Zenon
<1>4. ASSUME NEW c \in Consumers, pop_timeout(c) PROVE BQInv'
  BY <1>4, TimeoutKeeps, Zenon
<1>5. CASE UNCHANGED bqVars
  BY <1>5, Zenon DEF bqVars, BQInv, BQTypeOK, NoLostWakeup, In
<1> QED
  BY <1>1, <1>2, <1>3, <1>4, <1>5, SpuriousKeeps, FlushKeeps, ClearKeeps, CloseKeeps, ZenonT(60) DEF BQNext

\* For any number of producers and consumers, with and without timeouts, and any capacity:
\* until Close(), and but for the two cases that lost names, no thread stays in wait() while
\* there are more items (or free places) than threads already woken for them.
THEOREM QueueLosesNoWakeup == BQSpec => []NoLostWakeup
<1>1. BQInit => BQInv
  <2>0. 0 \in 0..Capacity
    BY BlockQueueAssumption
  <2>1. ASSUME BQInit PROVE BQTypeOK /\ isClose = FALSE /\ closing = "no"
    BY <2>0, <2>1, Zenon DEF BQInit, BQTypeOK
  <2>2. ASSUME BQInit PROVE In(con, "waiting") = {} /\ In(pro, "waiting") = {}
    BY <2>2, Zenon DEF BQInit, In
  <2> QED
    BY <2>1, <2>2, Zenon DEF BQInv, NoLostWakeup
<1>2. BQInv /\ [BQNext]_bqVars => BQInv'
  BY StepKeeps, Zenon
<1>3. BQInv => NoLostWakeup
  BY Zenon DEF BQInv
<1> QED
  BY <1>1, <1>2, <1>3, PTL DEF BQSpec

-----------------------------------------------------------------------------
(***************************************************************************)
(* Queue of basic.hpp is a list, for any set of nodes: there is always a   *)
(* sequence of distinct nodes that the pointers spell out, push() appends  *)
(* to it and pop() takes its head.  The sequence is a parameter of the     *)
(* statements rather than a recursive function of the pointers.            *)
(***************************************************************************)

USE QueueAssumption

\* A new Queue is the empty list.
LEMMA InitSpells == Init => TypeOK /\ Spells(<<>>)
  BY DEF Init, TypeOK, Spells, IsInjective, Range

\* Where the nodes of the spelled list are, and that m_before_head is none of them.
LEMMA SpellsFacts ==
    ASSUME NEW s, Spells(s)
    PROVE  /\ s \in Seq(Nodes) /\ Len(s) \in Nat /\ DOMAIN s = 1..Len(s)
           /\ s # <<>> => 1 \in 1..Len(s) /\ Len(s) \in 1..Len(s)
           /\ \A i \in 1..Len(s) : s[i] \in Nodes /\ s[i] \in held
           /\ \A i, j \in 1..Len(s) : s[i] = s[j] => i = j
<1>1. s \in Seq(Nodes) /\ Len(s) \in Nat /\ DOMAIN s = 1..Len(s)
  BY DEF Spells
<1>2. s # <<>> => 1 \in 1..Len(s) /\ Len(s) \in 1..Len(s)
  BY <1>1
<1>3. \A i \in 1..Len(s) : s[i] \in Nodes /\ s[i] \in held
  <2>1. ASSUME NEW i \in 1..Len(s) PROVE s[i] \in Nodes /\ s[i] \in Range(s)
    BY <1>1 DEF Range
  <2>2. QED
    BY <2>1, Zenon DEF Spells
<1>4. \A i, j \in 1..Len(s) : s[i] = s[j] => i = j
  BY <1>1, Zenon DEF Spells, IsInjective
<1>5. QED
  BY <1>1, <1>2, <1>3, <1>4, Zenon

\* push() appends the node to the list, whatever the node's own m_next was.
THEOREM PushAppends ==
    ASSUME TypeOK, NEW s, Spells(s), NEW n \in Nodes, push(n)
    PROVE  Spells(Append(s, n))'
<1> DEFINE t == IF tail = Null THEN Before ELSE tail
           a == Append(s, n)
<1>1. /\ s \in Seq(Nodes) /\ Len(s) \in Nat /\ DOMAIN s = 1..Len(s)
      /\ s # <<>> => 1 \in 1..Len(s) /\ Len(s) \in 1..Len(s)
      /\ \A i, j \in 1..Len(s) : s[i] = s[j] => i = j
  BY SpellsFacts, Zenon
<1>2. /\ a \in Seq(Nodes) /\ Len(a) = Len(s) + 1 /\ a # <<>> /\ DOMAIN a = 1..(Len(s) + 1)
      /\ \A i \in 1..Len(s) : a[i] = s[i]
      /\ a[Len(s) + 1] = n
  BY <1>1
<1>3. \A i \in 1..Len(s) : s[i] \in Nodes /\ s[i] # n /\ s[i] # Before
  BY SpellsFacts DEF push
<1>4. IsInjective(a)
  <2>1. ASSUME NEW i \in 1..(Len(s) + 1), NEW j \in 1..(Len(s) + 1), a[i] = a[j]
        PROVE  i = j
    <3>1. CASE i = Len(s) + 1 \/ j = Len(s) + 1
      BY <1>1, <1>2, <1>3, <2>1, <3>1, SMTT(30)
    <3>2. CASE i # Len(s) + 1 /\ j # Len(s) + 1
      <4>1. i \in 1..Len(s) /\ j \in 1..Len(s)
        BY <1>1, <3>2
      <4>2. QED
        BY <1>1, <1>2, <2>1, <4>1, Zenon
    <3>3. QED
      BY <3>1, <3>2, Zenon
  <2>2. QED
    BY <1>2, <2>1, Zenon DEF IsInjective
<1>5. Range(a) = held'
  <2>1. Range(a) = Range(s) \cup {n}
    BY <1>1, <1>2, SMTT(30) DEF Range
  <2>2. QED
    BY <2>1, Zenon DEF Spells, push
<1>6. t = (IF s = <<>> THEN Before ELSE s[Len(s)])
  BY <1>1, <1>3, ZenonT(60) DEF Spells
<1>7. t \in Nodes \cup {Before} /\ t # n
  BY <1>1, <1>3, <1>6, Zenon
<1>8. link' = [link EXCEPT ![n] = Null, ![t] = n] /\ tail' = n
  BY Zenon DEF push, Linked
<1> HIDE DEF t, a
<1>9. \A m \in Nodes \cup {Before} :
         link'[m] = IF m = t THEN n ELSE IF m = n THEN Null ELSE link[m]
  BY <1>7, <1>8, Zenon DEF TypeOK
<1>10. link'[Before] = a[1]
  <2>1. CASE s = <<>>
    <3>1. t = Before /\ Len(s) = 0
      BY <1>6, <2>1, Zenon
    <3>2. QED
      BY <1>2, <1>9, <3>1
  <2>2. CASE s # <<>>
    <3>1. t # Before /\ a[1] = s[1]
      BY <1>1, <1>2, <1>3, <1>6, <2>2, ZenonT(60)
    <3>2. link[Before] = s[1]
      BY <2>2, Zenon DEF Spells
    <3>3. QED
      BY <1>9, <3>1, <3>2, Zenon
  <2>3. QED
    BY <2>1, <2>2, Zenon
<1>11. ASSUME NEW i \in 1..Len(a)
       PROVE  link'[a[i]] = IF i = Len(a) THEN Null ELSE a[i + 1]
  <2>a. Len(s) \in Nat /\ Len(a) = Len(s) + 1 /\ i \in 1..(Len(s) + 1)
    BY <1>1, <1>2, <1>11, Zenon
  <2>1. CASE i = Len(s) + 1
    BY <1>2, <1>7, <1>9, <2>1, Zenon
  <2>2. CASE i = Len(s)
    <3>1. i \in 1..Len(s) /\ i # Len(a) /\ i + 1 = Len(s) + 1
      BY <2>a, <2>2
    <3>2. s # <<>>
      BY <1>1, <3>1
    <3>3. a[i] = t /\ a[i + 1] = n
      BY <1>2, <1>6, <2>2, <3>1, <3>2, Zenon
    <3>4. QED
      BY <1>7, <1>9, <3>1, <3>3, ZenonT(60)
  <2>3. CASE i # Len(s) /\ i # Len(s) + 1
    <3>1. i \in 1..Len(s) /\ i + 1 \in 1..Len(s) /\ Len(s) \in 1..Len(s) /\ i # Len(a)
      BY <2>a, <2>3
    <3>2. a[i] = s[i] /\ a[i + 1] = s[i + 1] /\ s[i] # n /\ s[i] \in Nodes /\ s[i] # Before
      BY <1>2, <1>3, <3>1, Zenon
    <3>3. s[i] # t
      BY <1>1, <1>6, <2>3, <3>1, <3>2, ZenonT(60)
    <3>4. link[s[i]] = s[i + 1]
      BY <2>3, <3>1, Zenon DEF Spells
    <3>5. QED
      BY <1>9, <3>1, <3>2, <3>3, <3>4, Zenon
  <2>4. QED
    BY <2>1, <2>2, <2>3, Zenon
<1>12. QED
  BY <1>2, <1>4, <1>5, <1>8, <1>10, <1>11, Zenon DEF Spells, a

\* pop() of a list with nodes returns the oldest one and leaves the others.
THEOREM PopTakesHead ==
    ASSUME TypeOK, NEW s, Spells(s), s # <<>>, Unlink
    PROVE  got' = Head(s) /\ Spells(Tail(s))'
<1> DEFINE r == Tail(s)
<1>1. /\ s \in Seq(Nodes) /\ Len(s) \in Nat /\ DOMAIN s = 1..Len(s)
      /\ 1 \in 1..Len(s) /\ Len(s) \in 1..Len(s)
      /\ \A i, j \in 1..Len(s) : s[i] = s[j] => i = j
      /\ \A i \in 1..Len(s) : s[i] \in Nodes /\ s[i] # Before /\ s[i] # Null
  BY SpellsFacts
<1>2. /\ r \in Seq(Nodes) /\ Len(r) = Len(s) - 1 /\ DOMAIN r = 1..(Len(s) - 1)
      /\ \A i \in 1..(Len(s) - 1) : r[i] = s[i + 1]
  BY <1>1
<1>3. Head(s) = s[1]
  BY <1>1
<1>4. link[Before] = s[1] /\ tail = s[Len(s)]
  BY Zenon DEF Spells
<1>5. link[s[1]] = IF Len(s) = 1 THEN Null ELSE s[2]
  <2>1. \A i \in 1..Len(s) : link[s[i]] = IF i = Len(s) THEN Null ELSE s[i + 1]
    BY Zenon DEF Spells
  <2>2. link[s[1]] = IF 1 = Len(s) THEN Null ELSE s[1 + 1]
    BY <1>1, <2>1, Zenon
  <2>3. QED
    BY <2>2
<1>6. /\ link' = [link EXCEPT ![Before] = link[s[1]]]
      /\ tail' = IF link[s[1]] = Null THEN Null ELSE tail
      /\ got' = s[1] /\ held' = held \ {s[1]}
  BY <1>4, Zenon DEF Unlink, TailAfter
<1>7. r = <<>> <=> Len(s) = 1
  <2>1. r \in Seq(Nodes) /\ Len(s) \in Nat /\ Len(r) = Len(s) - 1
    BY <1>1, <1>2, Zenon
  <2> HIDE DEF r
  <2>2. r = <<>> <=> Len(r) = 0
    BY <2>1
  <2>3. QED
    BY <2>1, <2>2
<1> HIDE DEF r
<1>8. IsInjective(r)
  <2>1. ASSUME NEW i \in 1..(Len(s) - 1), NEW j \in 1..(Len(s) - 1), r[i] = r[j]
        PROVE  i = j
    <3>1. i + 1 \in 1..Len(s) /\ j + 1 \in 1..Len(s)
      BY <1>1
    <3>2. i + 1 = j + 1
      BY <1>1, <1>2, <2>1, <3>1
    <3>3. QED
      BY <1>1, <3>2
  <2>2. QED
    BY <1>2, <2>1, Zenon DEF IsInjective
<1>9. Range(r) = held'
  <2>1. ASSUME NEW x \in Range(r) PROVE x \in Range(s) /\ x # s[1]
    <3>1. PICK i \in 1..(Len(s) - 1) : x = r[i]
      BY <1>2, Zenon DEF Range
    <3>2. i + 1 \in 1..Len(s) /\ i + 1 # 1 /\ x = s[i + 1]
      BY <1>1, <1>2, <3>1
    <3>3. QED
      BY <1>1, <3>2, Zenon DEF Range
  <2>2. ASSUME NEW x \in Range(s), x # s[1] PROVE x \in Range(r)
    <3>1. PICK i \in 1..Len(s) : x = s[i]
      BY <1>1, Zenon DEF Range
    <3>2. i # 1
      BY <2>2, <3>1, Zenon
    <3>3. i - 1 \in 1..(Len(s) - 1) /\ (i - 1) + 1 = i
      BY <1>1, <3>2
    <3>4. x = r[i - 1]
      BY <1>2, <3>1, <3>3, Zenon
    <3>5. QED
      BY <1>2, <3>3, <3>4, Zenon DEF Range
  <2>3. Range(s) = held
    BY Zenon DEF Spells
  <2>4. QED
    BY <1>6, <2>1, <2>2, <2>3, Zenon
<1>10. link'[Before] = link[s[1]] /\ \A m \in Nodes : link'[m] = link[m]
  BY <1>6, Zenon DEF TypeOK
<1>11. link'[Before] = IF r = <<>> THEN Null ELSE r[1]
  <2>1. CASE Len(s) = 1
    BY <1>5, <1>7, <1>10, <2>1, Zenon
  <2>2. CASE Len(s) # 1
    <3>1. 1 \in 1..(Len(s) - 1)
      BY <1>1, <2>2
    <3>2. r[1] = s[2]
      BY <1>2, <3>1
    <3>3. QED
      BY <1>5, <1>7, <1>10, <2>2, <3>2, Zenon
  <2>3. QED
    BY <2>1, <2>2, Zenon
<1>12. tail' = IF r = <<>> THEN Null ELSE r[Len(r)]
  <2>1. CASE Len(s) = 1
    BY <1>5, <1>6, <1>7, <2>1, Zenon
  <2>2. CASE Len(s) # 1
    <3>1. 2 \in 1..Len(s) /\ Len(s) - 1 \in 1..(Len(s) - 1) /\ (Len(s) - 1) + 1 = Len(s)
      BY <1>1, <2>2
    <3>2. r[Len(r)] = s[Len(s)]
      BY <1>2, <3>1, Zenon
    <3>3. link[s[1]] # Null
      BY <1>1, <1>5, <2>2, <3>1, Zenon
    <3>4. QED
      BY <1>4, <1>6, <1>7, <2>2, <3>2, <3>3, Zenon
  <2>3. QED
    BY <2>1, <2>2, Zenon
<1>13. ASSUME NEW i \in 1..Len(r)
       PROVE  link'[r[i]] = IF i = Len(r) THEN Null ELSE r[i + 1]
  <2>1. Len(s) \in Nat /\ Len(r) = Len(s) - 1 /\ i \in 1..(Len(s) - 1)
    BY <1>1, <1>2, <1>13, Zenon
  <2>2. i + 1 \in 1..Len(s) /\ (i = Len(r) <=> i + 1 = Len(s))
    BY <2>1
  <2>3. r[i] = s[i + 1] /\ s[i + 1] \in Nodes
    BY <1>1, <1>2, <2>1, <2>2, Zenon
  <2>4. link[s[i + 1]] = IF i + 1 = Len(s) THEN Null ELSE s[(i + 1) + 1]
    BY <2>2, Zenon DEF Spells
  <2>5. i # Len(r) => i + 1 \in 1..(Len(s) - 1)
    BY <2>1
  <2>6. i # Len(r) => r[i + 1] = s[(i + 1) + 1]
    BY <1>2, <2>5, Zenon
  <2>7. QED
    BY <1>10, <2>2, <2>3, <2>4, <2>6, Zenon
<1>14. QED
  BY <1>2, <1>3, <1>6, <1>8, <1>9, <1>11, <1>12, <1>13, ZenonT(60) DEF Spells, r

\* clear() leaves the empty list.
LEMMA ClearEmpties == ASSUME TypeOK, clear PROVE Spells(<<>>)'
  BY DEF TypeOK, clear, Spells, IsInjective, Range

\* The inductive invariant: some sequence is spelled out, and it is no longer
\* than queue_size.
IInv == TypeOK /\ \E s \in Seq(Nodes) : Spells(s) /\ Len(s) <= size

\* Taking out the head keeps the invariant.
LEMMA UnlinkIInv ==
    ASSUME TypeOK, NEW s \in Seq(Nodes), Spells(s), Len(s) <= size,
           link[Before] # Null, Unlink
    PROVE  IInv'
<1>1. s # <<>>
  BY Zenon DEF Spells
<1>2. Spells(Tail(s))'
  BY <1>1, PopTakesHead, Zenon
<1>3. Tail(s) \in Seq(Nodes) /\ Len(Tail(s)) = Len(s) - 1 /\ Len(s) \in Nat \ {0}
  BY <1>1
<1>4. size \in Nat /\ size' = size - 1
  BY Zenon DEF TypeOK, Unlink
<1>5. size' \in Nat /\ Len(Tail(s)) <= size'
  BY <1>3, <1>4
<1>6. link[Before] \in Nodes
  BY Zenon DEF TypeOK
<1>7. /\ link' \in [Nodes \cup {Before} -> Nodes \cup {Null}]
      /\ tail' \in Nodes \cup {Null} /\ got' \in Nodes \cup {Null} /\ held' \in SUBSET Nodes
  BY <1>6, Zenon DEF TypeOK, Unlink, TailAfter
<1>8. TypeOK'
  BY <1>5, <1>7, Zenon DEF TypeOK
<1>9. QED
  BY <1>2, <1>3, <1>5, <1>8, Zenon DEF IInv

\* Every call keeps the invariant.
LEMMA NextIInv == IInv /\ [Next]_vars => IInv'
<1> SUFFICES ASSUME IInv, [Next]_vars PROVE IInv'
  BY Zenon
<1>1. TypeOK
  BY Zenon DEF IInv
<1>2. PICK s \in Seq(Nodes) : Spells(s) /\ Len(s) <= size
  BY Zenon DEF IInv
<1>3. Len(s) \in Nat
  OBVIOUS
<1>4. ASSUME NEW n \in Nodes, push(n) PROVE IInv'
  <2>1. Spells(Append(s, n))'
    BY <1>1, <1>2, <1>4, PushAppends, Zenon
  <2>2. Append(s, n) \in Seq(Nodes) /\ Len(Append(s, n)) = Len(s) + 1
    OBVIOUS
  <2>3. size' = size + 1 /\ size \in Nat
    BY <1>1, <1>4, Zenon DEF push, Counted, TypeOK
  <2>4. size' \in Nat /\ Len(Append(s, n)) <= size'
    BY <1>2, <1>3, <2>2, <2>3
  <2>5. link' \in [Nodes \cup {Before} -> Nodes \cup {Null}]
    BY <1>1, <1>4, Zenon DEF push, Linked, TypeOK
  <2>6. TypeOK'
    BY <1>1, <1>4, <2>4, <2>5, Zenon DEF push, TypeOK
  <2>7. QED
    BY <2>1, <2>2, <2>4, <2>6, Zenon DEF IInv
<1>5. CASE link[Before] # Null /\ Unlink
  BY <1>1, <1>2, <1>5, UnlinkIInv, Zenon
<1>6. ASSUME UNCHANGED <<link, tail, size, held>>, got' \in Nodes \cup {Null} PROVE IInv'
  <2>1. TypeOK' /\ Spells(s)' /\ Len(s) <= size'
    BY <1>1, <1>2, <1>6, Zenon DEF TypeOK, Spells
  <2>2. QED
    BY <2>1, Zenon DEF IInv
<1>7. CASE pop
  BY <1>5, <1>6, <1>7, Zenon DEF pop
<1>8. CASE pop_nocheck
  BY <1>5, <1>8, Zenon DEF pop_nocheck
<1>9. CASE clear
  <2>1. Spells(<<>>)'
    BY <1>1, <1>9, ClearEmpties, Zenon
  <2>2. TypeOK' /\ size' \in Nat
    BY <1>1, <1>9, Zenon DEF clear, TypeOK
  <2>3. <<>> \in Seq(Nodes) /\ Len(<<>>) = 0
    OBVIOUS
  <2>4. Len(<<>>) <= size'
    BY <2>2, <2>3
  <2>5. QED
    BY <2>1, <2>2, <2>3, <2>4, Zenon DEF IInv
<1>10. CASE UNCHANGED vars
  BY <1>1, <1>6, <1>10, Zenon DEF vars, TypeOK
<1>11. QED
  BY <1>4, <1>7, <1>8, <1>9, <1>10, Zenon DEF Next

\* The invariant says what ListSound says.
LEMMA IInvListSound == IInv => ListSound
<1> SUFFICES ASSUME IInv PROVE ListSound
  BY Zenon
<1>1. PICK s \in Seq(Nodes) : Spells(s) /\ Len(s) <= size
  BY Zenon DEF IInv
<1>2. Len(s) \in 0..size
  BY <1>1 DEF IInv, TypeOK
<1>3. s \in [1..Len(s) -> held]
  BY <1>1, SpellsFacts
<1>4. QED
  BY <1>1, <1>2, <1>3, Zenon DEF ListSound

\* The invariant holds always.
LEMMA SpecIInv == Spec => []IInv
<1>1. Init => IInv
  <2>1. <<>> \in Seq(Nodes) /\ Len(<<>>) = 0
    OBVIOUS
  <2>2. Init => size = 0
    BY Zenon DEF Init
  <2>3. QED
    <3>1. Len(<<>>) <= 0
      BY <2>1
    <3>2. ASSUME Init PROVE Len(<<>>) <= size /\ TypeOK /\ Spells(<<>>)
      BY InitSpells, <2>2, <3>1, <3>2, Zenon
    <3>3. QED
      BY <2>1, <3>2, Zenon DEF IInv
<1>2. QED
  BY <1>1, NextIInv, PTL DEF Spec

\* queue_size never falls below zero, for any number of nodes.
THEOREM TypeCorrect == Spec => []TypeOK
<1>1. IInv => TypeOK
  BY Zenon DEF IInv
<1>2. QED
  BY SpecIInv, <1>1, PTL

\* Whatever the callers do, the list holds exactly the nodes they pushed and have
\* not got back, each once, and m_tail is its end.
THEOREM ListCorrect == Spec => []ListSound
  BY SpecIInv, IInvListSound, PTL

-----------------------------------------------------------------------------
(***************************************************************************)
(* The list implements the first-in first-out queue: the walk along the    *)
(* pointers, a recursive function, is the sequence that they spell out.    *)
(***************************************************************************)

\* Every non-empty set of natural numbers has a least element: the form of induction
\* used below.
LEMMA LeastNat ==
    ASSUME NEW T, T \subseteq Nat, T # {}
    PROVE  \E m \in T : \A k \in T : m <= k
<1> DEFINE Below == {p \in Nat \X Nat : p[1] < p[2]}
<1>0. IsWellFoundedOn(Below, Nat)
  BY NatLessThanWellFounded, Zenon DEF OpToRel
<1>1. \E x \in T : \A y \in T : ~ (<<y, x>> \in Below)
  BY <1>0, WFMin, Zenon
<1>2. ASSUME NEW x \in T, NEW y \in T, ~ (<<y, x>> \in Below) PROVE x <= y
  BY <1>2
<1>3. QED
  BY <1>1, <1>2, Zenon

\* The walk along the pointers L: at step k - 1 in a, one step further in the result.
Walks(f, L) ==
    f = [k \in 0..Cardinality(Nodes) |->
           IF k = 0 THEN Before ELSE IF f[k - 1] = Null THEN Null ELSE L[f[k - 1]]]

\* What the pointers say of the list s.
Linking(L, s) ==
    /\ L[Before] = IF s = <<>> THEN Null ELSE s[1]
    /\ \A i \in 1..Len(s) : L[s[i]] = IF i = Len(s) THEN Null ELSE s[i + 1]

\* Where the walk is after k steps.
Along(s) == [k \in 0..Cardinality(Nodes) |->
               IF k = 0 THEN Before ELSE IF k <= Len(s) THEN s[k] ELSE Null]

\* Stepping along a sequence of nodes is a walk of the links that spell it.
LEMMA AlongWalks ==
    ASSUME NEW s \in Seq(Nodes), NEW L, Linking(L, s), Len(s) <= Cardinality(Nodes)
    PROVE  Walks(Along(s), L)
<1> DEFINE N == Cardinality(Nodes)
           g == Along(s)
<1>1. N \in Nat /\ Len(s) \in Nat
  BY FS_CardinalityType
<1>2. s = <<>> <=> Len(s) = 0
  OBVIOUS
<1>3. \A k \in 0..N : g[k] = IF k = 0 THEN Before ELSE IF k <= Len(s) THEN s[k] ELSE Null
  BY Zenon DEF Along
<1>4. \A i \in 1..Len(s) : s[i] \in Nodes
  OBVIOUS
<1>x. DOMAIN g = 0..N /\ g = [k \in 0..N |-> g[k]]
  BY Zenon DEF Along
<1> HIDE DEF g, N
<1>5. ASSUME NEW k \in 0..N, k # 0
      PROVE  g[k] = IF g[k - 1] = Null THEN Null ELSE L[g[k - 1]]
  <2>1. k - 1 \in 0..N
    BY <1>1, <1>5
  <2>2. CASE k = 1
    <3>1. g[k - 1] = Before /\ Before # Null
      BY <1>3, <2>1, <2>2
    <3>2. g[k] = IF s = <<>> THEN Null ELSE s[1]
      BY <1>1, <1>2, <1>3, <2>2
    <3>3. QED
      BY <3>1, <3>2, Zenon DEF Linking
  <2>3. CASE k # 1 /\ k - 1 <= Len(s)
    <3>1. k - 1 \in 1..Len(s) /\ (k - 1) + 1 = k /\ (k - 1 = Len(s) <=> ~ (k <= Len(s)))
      BY <1>1, <1>5, <2>3
    <3>2. g[k - 1] = s[k - 1] /\ s[k - 1] # Null
      BY <1>3, <1>4, <2>1, <3>1
    <3>3. L[s[k - 1]] = IF k - 1 = Len(s) THEN Null ELSE s[k]
      BY <3>1, Zenon DEF Linking
    <3>4. g[k] = IF k <= Len(s) THEN s[k] ELSE Null
      BY <1>3, <1>5, Zenon
    <3>5. QED
      BY <3>1, <3>2, <3>3, <3>4, Zenon
  <2>4. CASE k # 1 /\ ~ (k - 1 <= Len(s))
    <3>1. ~ (k <= Len(s)) /\ k - 1 # 0
      BY <1>1, <1>5, <2>4
    <3>2. QED
      BY <1>3, <1>5, <2>1, <2>4, <3>1, Zenon
  <2>5. QED
    BY <2>2, <2>3, <2>4, Zenon
<1>6. g[0] = Before
  BY <1>1, <1>3
<1>7. g = [k \in 0..N |-> IF k = 0 THEN Before ELSE IF g[k - 1] = Null THEN Null ELSE L[g[k - 1]]]
  BY <1>x, <1>5, <1>6, Zenon
<1>8. QED
  BY <1>7, Zenon DEF Walks, g, N

\* The links allow one walk only.
LEMMA OneWalk ==
    ASSUME NEW L, NEW f, NEW g, Walks(f, L), Walks(g, L)
    PROVE  f = g
<1> DEFINE N == Cardinality(Nodes)
           T == {k \in 0..N : f[k] # g[k]}
<1>1. N \in Nat
  BY FS_CardinalityType, Zenon
<1>2. /\ DOMAIN f = 0..N /\ f = [k \in 0..N |-> f[k]]
      /\ DOMAIN g = 0..N /\ g = [k \in 0..N |-> g[k]]
  BY Zenon DEF Walks
<1>3. \A k \in 0..N : f[k] = IF k = 0 THEN Before ELSE IF f[k - 1] = Null THEN Null ELSE L[f[k - 1]]
  BY Zenon DEF Walks
<1>4. \A k \in 0..N : g[k] = IF k = 0 THEN Before ELSE IF g[k - 1] = Null THEN Null ELSE L[g[k - 1]]
  BY Zenon DEF Walks
<1> HIDE DEF N
<1>5. T = {}
  <2> SUFFICES ASSUME T # {} PROVE FALSE
    BY Zenon
  <2>1. T \subseteq Nat
    BY <1>1
  <2>2. PICK m \in T : \A k \in T : m <= k
    <3> HIDE DEF T
    <3> QED BY <2>1, LeastNat, Zenon
  <2>3. m \in 0..N /\ f[m] # g[m] /\ m # 0
    BY <1>1, <1>3, <1>4, Zenon
  <2>4. m - 1 \in 0..N /\ ~ (m <= m - 1)
    BY <1>1, <2>3
  <2>5. f[m - 1] = g[m - 1]
    BY <2>2, <2>4, Zenon
  <2>6. QED
    BY <1>3, <1>4, <2>3, <2>5
<1>6. \A k \in 0..N : f[k] = g[k]
  BY <1>5, Zenon
<1>7. QED
  BY <1>2, <1>6, Zenon

\* The walk of count() meets the nodes of the list and then stays at null.
LEMMA WalkIsAlong ==
    ASSUME NEW s \in Seq(Nodes), NEW L, Linking(L, s), Len(s) <= Cardinality(Nodes),
           NEW nth, nth = CHOOSE f : Walks(f, L)
    PROVE  nth = Along(s)
<1>1. Walks(Along(s), L)
  BY AlongWalks, Zenon
<1>2. Walks(nth, L)
  BY <1>1, Zenon
<1> QED
  BY <1>1, <1>2, OneWalk, Zenon

\* The numbers from 1 to n are n.
LEMMA IntervalSize == ASSUME NEW n \in Nat PROVE Cardinality(1..n) = n
<1>1. Cardinality(1..n) = IF 1 > n THEN 0 ELSE n - 1 + 1
  BY FS_Interval
<1> QED
  BY <1>1

\* A list of distinct nodes is no longer than there are nodes.
LEMMA NoLonger ==
    ASSUME NEW s \in Seq(Nodes), IsInjective(s)
    PROVE  Len(s) \in Nat /\ Len(s) <= Cardinality(Nodes)
<1>1. Len(s) \in Nat /\ DOMAIN s = 1..Len(s) /\ s \in [1..Len(s) -> Nodes]
  OBVIOUS
<1>2. s \in Injection(1..Len(s), Nodes)
  BY <1>1, Zenon DEF Injection, IsInjective
<1>3. Cardinality(1..Len(s)) = Len(s)
  BY <1>1, IntervalSize, Zenon
<1> QED
  BY <1>1, <1>2, <1>3, FS_Injection

\* What count() and the walk find is the list.
LEMMA AlongSpells ==
    ASSUME NEW s \in Seq(Nodes), Len(s) <= Cardinality(Nodes)
    PROVE  [k \in 1..Cardinality({k \in 1..Cardinality(Nodes) : Along(s)[k] # Null}) |->
               Along(s)[k]] = s
<1>1. Cardinality(Nodes) \in Nat /\ Len(s) \in Nat
  BY FS_CardinalityType
<1>2. \A k \in 1..Cardinality(Nodes) : Along(s)[k] = IF k <= Len(s) THEN s[k] ELSE Null
  BY <1>1 DEF Along
<1>3. \A k \in 1..Len(s) : s[k] # Null /\ k \in 1..Cardinality(Nodes)
  BY <1>1
<1>4. {k \in 1..Cardinality(Nodes) : Along(s)[k] # Null} = 1..Len(s)
  BY <1>1, <1>2, <1>3
<1>5. Cardinality(1..Len(s)) = Len(s)
  BY <1>1, IntervalSize, ZenonT(60)
<1>6. \A k \in 1..Len(s) : Along(s)[k] = s[k]
  BY <1>2, <1>3
<1>7. s = [k \in 1..Len(s) |-> s[k]]
  OBVIOUS
<1> QED
  BY <1>4, <1>5, <1>6, <1>7, Zenon

\* The nodes that the walk along the pointers meets are the list they spell out, before
\* and after a step.
LEMMA ContentsIs == ASSUME NEW s, Spells(s) PROVE Contents = s
<1>1. s \in Seq(Nodes) /\ Len(s) <= Cardinality(Nodes) /\ Linking(link, s)
  BY NoLonger, Zenon DEF Spells, Linking
<1>2. Nth = CHOOSE f : Walks(f, link)
  BY Zenon DEF Nth, Walks
<1>3. Nth = Along(s)
  BY <1>1, <1>2, WalkIsAlong, Zenon
<1> QED
  BY <1>1, <1>3, AlongSpells, Zenon DEF Contents, count

\* The same of the next state.
LEMMA ContentsIsNext == ASSUME NEW s, Spells(s)' PROVE Contents' = s
<1>1. s \in Seq(Nodes) /\ IsInjective(s) /\ Linking(link', s)
  BY Zenon DEF Spells, Linking
<1>2. Len(s) <= Cardinality(Nodes)
  BY <1>1, NoLonger, Zenon
<1>3. Nth' = CHOOSE f : Walks(f, link')
  BY Zenon DEF Nth, Walks
<1>4. Nth' = Along(s)
  BY <1>1, <1>2, <1>3, WalkIsAlong, Zenon
<1> QED
  BY <1>1, <1>2, <1>4, AlongSpells, Zenon DEF Contents, count

\* Every step of the list is a step of the queue that Fifo describes, or none.
LEMMA StepIsFifo == ASSUME IInv, [Next]_vars PROVE [F!Next]_(F!vars)
<1>1. PICK s \in Seq(Nodes) : Spells(s) /\ Len(s) <= size
  BY Zenon DEF IInv
<1>2. TypeOK /\ Contents = s
  BY <1>1, ContentsIs, Zenon DEF IInv
<1>3. ASSUME NEW n \in Nodes, push(n) PROVE F!Push(n)
  <2>1. Contents' = Append(s, n)
    BY <1>1, <1>2, <1>3, PushAppends, ContentsIsNext, ZenonT(60)
  <2>2. n \notin Range(s) /\ UNCHANGED got
    BY <1>1, <1>3, Zenon DEF push, Spells
  <2> QED
    BY <1>2, <2>1, <2>2, Zenon DEF F!Push, F!Range, Range
<1>4. ASSUME link[Before] # Null, Unlink PROVE F!Pop
  <2>1. s # <<>>
    BY <1>1, <1>4, Zenon DEF Spells
  <2>2. got' = Head(s) /\ Contents' = Tail(s)
    BY <1>1, <1>2, <1>4, <2>1, PopTakesHead, ContentsIsNext, Zenon
  <2> QED
    BY <1>2, <2>1, <2>2, Zenon DEF F!Pop
<1>5. ASSUME link[Before] = Null, pop PROVE F!Pop
  <2>1. s = <<>>
    BY <1>1, <1>5, SpellsFacts, Zenon DEF Spells
  <2>2. got' = Null /\ Spells(s)'
    BY <1>1, <1>5, Zenon DEF pop, Spells
  <2> QED
    BY <1>2, <2>1, <2>2, ContentsIsNext, Zenon DEF F!Pop
<1>6. CASE pop \/ pop_nocheck
  BY <1>4, <1>5, <1>6, Zenon DEF pop, pop_nocheck, F!Next
<1>7. CASE clear
  <2>1. Contents' = <<>> /\ UNCHANGED got
    BY <1>2, <1>7, ClearEmpties, ContentsIsNext, Zenon DEF clear
  <2> QED
    BY <2>1, Zenon DEF F!Clear, F!Next
<1>8. CASE UNCHANGED vars
  <2>1. Spells(s)'
    BY <1>1, <1>8, Zenon DEF vars, Spells
  <2> QED
    BY <1>2, <1>8, <2>1, ContentsIsNext, Zenon DEF vars, F!vars
<1> QED
  BY <1>3, <1>6, <1>7, <1>8 DEF Next, F!Next

\* The intrusive list of basic.hpp is a queue, for any set of nodes: as seen through the
\* walk along its pointers, every push(), pop() and clear() is the step that Fifo allows, so
\* nodes leave in the order they came and pop() returns null only when there is none.
THEOREM ListIsFifo == Spec => ImplementsFifo
<1>1. Init => F!Init
  <2> SUFFICES ASSUME Init PROVE F!Init
    BY Zenon
  <2>1. Contents = <<>>
    BY InitSpells, ContentsIs, Zenon
  <2> QED
    BY <2>1, Zenon DEF Init, F!Init
<1>2. IInv /\ [Next]_vars => [F!Next]_(F!vars)
  BY StepIsFifo, Zenon
<1> QED
  BY <1>1, <1>2, SpecIInv, PTL DEF Spec, ImplementsFifo, F!Spec

=============================================================================
