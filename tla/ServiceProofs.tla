--------------------------- MODULE ServiceProofs ----------------------------
(***************************************************************************)
(* The sessions, the buffer of a request and downloads, for every value of *)
(* their constants.                                                        *)
(***************************************************************************)
EXTENDS Sessions, RequestBuffer, Download, TLAPS

-----------------------------------------------------------------------------
(***************************************************************************)
(* Sessions.                                                               *)
(***************************************************************************)

\* The sessions that were ever made.
SessionRecords ==
    [uuid : Nat \X Nat, by : Creators, state : {"made", "kept", "deleted", "changed"}, time_stamp : Int]

\* The states of the thread that removes what has expired.
Sweeps == [at : {"idle", "looked", "visit", "erase"}, now : Nat, left : SUBSET Nat, it : Nat]

\* Where a creator stands.
Stands == {<<"idle">>} \cup ({"counted", "named"} \X Nat)

\* No creator makes two sessions with the same value of the counter, and the one it is about to
\* insert is its own.
Counts(id, all, at) ==
    /\ \A s \in 1..Len(all) : all[s].uuid[2] <= id
    /\ \A r, s \in 1..Len(all) : r # s /\ all[r].by = all[s].by => all[r].uuid[2] # all[s].uuid[2]
    /\ \A t \in Creators : at[t][1] = "counted" =>
          \A s \in 1..Len(all) : all[s].by = t => all[s].uuid[2] < id
    /\ \A t \in Creators : at[t][1] = "named" =>
          at[t][2] \in 1..Len(all) /\ all[at[t][2]].by = t /\ all[at[t][2]].state = "made"

\* What map_ holds is under its own id, and was inserted.
Table(map, all) ==
    \A u \in DOMAIN map : map[u] \in 1..Len(all) /\ all[map[u]].uuid = u /\ all[map[u]].state # "made"

\* Session s is the one the table has for its name.
Stored(map, all, s) == all[s].uuid \in DOMAIN map /\ map[all[s].uuid] = s

\* Another thread made a session of the same name.
Twin(all, s) == \E r \in 1..Len(all) : all[r].uuid = all[s].uuid /\ all[r].by # all[s].by

\* A session that is kept and too young for any sweep is in the table, unless it has a
\* twin.
Found(clock, least, map, all) ==
    \A s \in 1..Len(all) : all[s].state = "kept" /\ clock - all[s].time_stamp < least =>
        Stored(map, all, s) \/ Twin(all, s)

\* The session check_expire is about to erase has expired, unless its stamp was changed since.
Decided(clock, least, map, all, sweep) ==
    /\ sweep.now <= clock
    /\ sweep.at = "erase" =>
          /\ sweep.it \in 1..Len(all) /\ Stored(map, all, sweep.it)
          /\ all[sweep.it].state = "kept" => sweep.now - all[sweep.it].time_stamp >= least

\* The session the caller holds was entered.
Holding(all, user) == user # 0 => user \in 1..Len(all) /\ all[user].state # "made"

\* The types of the fields of ss.
Typed(clock, max_age, least, id, map, all, at, sweep, user) ==
    /\ clock \in Nat /\ max_age \in Int /\ least \in Int /\ id \in Nat
    /\ map = [u \in DOMAIN map |-> map[u]]
    /\ all \in Seq(SessionRecords) /\ at \in [Creators -> Stands] /\ sweep \in Sweeps /\ user \in Nat

\* The inductive invariant of the sessions, on the fields of ss.
Consistent(clock, max_age, least, id, map, all, at, sweep, user) ==
    /\ Typed(clock, max_age, least, id, map, all, at, sweep, user)
    /\ least <= max_age
    /\ Counts(id, all, at)
    /\ Table(map, all)
    /\ Found(clock, least, map, all)
    /\ Decided(clock, least, map, all, sweep)
    /\ Holding(all, user)

-----------------------------------------------------------------------------
\* The types of the fields of a session.
LEMMA Fields ==
    ASSUME NEW all \in Seq(SessionRecords), NEW s \in 1..Len(all)
    PROVE  /\ all[s] \in SessionRecords /\ all[s].time_stamp \in Int /\ all[s].by \in Creators
           /\ all[s].uuid \in Nat \X Nat /\ all[s].uuid[2] \in Nat
<1>1. all[s] \in SessionRecords
  OBVIOUS
<1>2. all[s].time_stamp \in Int /\ all[s].by \in Creators /\ all[s].uuid \in Nat \X Nat
  BY <1>1, Zenon DEF SessionRecords
<1>3. \A u \in Nat \X Nat : u[2] \in Nat
  BY Zenon
<1> QED
  BY <1>1, <1>2, <1>3, Zenon

\* The clock moves on, and max_age_ is set.
LEMMA TickConsistent ==
    ASSUME NEW c, NEW m, NEW l, NEW id, NEW map, NEW all, NEW at, NEW w, NEW u,
           Consistent(c, m, l, id, map, all, at, w, u)
    PROVE  Consistent(c + 1, m, l, id, map, all, at, w, u)
<1> USE DEF Consistent
<1>1. Typed(c + 1, m, l, id, map, all, at, w, u)
  BY DEF Typed
<1>2. Found(c + 1, l, map, all)
  <2>1. c \in Nat /\ l \in Int /\ \A s \in 1..Len(all) : all[s].time_stamp \in Int
    BY Fields, Zenon DEF Typed
  <2>2. \A x \in Int : c + 1 - x < l => c - x < l
    BY <2>1
  <2> QED
    BY <2>1, <2>2 DEF Found
<1>3. Decided(c + 1, l, map, all, w)
  BY DEF Typed, Decided, Sweeps
<1> QED
  BY <1>1, <1>2, <1>3, Zenon

\* Another max_age keeps the invariant: least is the smallest one there was.
LEMMA AgeConsistent ==
    ASSUME NEW c, NEW m, NEW l, NEW id, NEW map, NEW all, NEW at, NEW w, NEW u,
           Consistent(c, m, l, id, map, all, at, w, u),
           NEW n \in Int, NEW k, k = IF n < l \/ all = <<>> THEN n ELSE l
    PROVE  Consistent(c, n, k, id, map, all, at, w, u)
<1> USE DEF Consistent
<1>0. k \in Int /\ k <= n /\ (k <= l \/ all = <<>>) /\ l \in Int /\ c \in Nat /\ all \in Seq(SessionRecords)
  BY DEF Typed
<1>1. Typed(c, n, k, id, map, all, at, w, u)
  BY <1>0, Zenon DEF Typed
<1>2. CASE all = <<>>
  <2>1. 1..Len(all) = {}
    BY <1>2
  <2>2. Found(c, k, map, all)
    BY <2>1, Zenon DEF Found
  <2>3. Decided(c, k, map, all, w)
    BY <2>1, Zenon DEF Decided
  <2> QED
    BY <1>0, <1>1, <2>2, <2>3, Zenon
<1>3. CASE k <= l
  <2>0. \A s \in 1..Len(all) : all[s].time_stamp \in Int
    BY <1>0, Fields, Zenon
  <2>1. Found(c, k, map, all)
    <3>1. \A s \in 1..Len(all) : c - all[s].time_stamp < k => c - all[s].time_stamp < l
      BY <1>0, <1>3, <2>0
    <3> QED
      BY <3>1, Zenon DEF Found
  <2>2. Decided(c, k, map, all, w)
    <3>1. w.now \in Nat
      BY Zenon DEF Typed, Sweeps
    <3>2. \A s \in 1..Len(all) : w.now - all[s].time_stamp >= l => w.now - all[s].time_stamp >= k
      BY <1>0, <1>3, <2>0, <3>1
    <3> QED
      BY <3>2, Zenon DEF Decided
  <2> QED
    BY <1>0, <1>1, <2>1, <2>2, Zenon
<1> QED
  BY <1>0, <1>2, <1>3, Zenon

\* id_++ of a creator.
LEMMA BeginConsistent ==
    ASSUME NEW c, NEW m, NEW l, NEW id, NEW map, NEW all, NEW at, NEW w, NEW u,
           Consistent(c, m, l, id, map, all, at, w, u), NEW t \in Creators
    PROVE  Consistent(c, m, l, id + 1, map, all, [at EXCEPT ![t] = <<"counted", c>>], w, u)
<1> USE DEF Consistent
<1> DEFINE new == [at EXCEPT ![t] = <<"counted", c>>]
<1>0. id \in Nat /\ c \in Nat /\ all \in Seq(SessionRecords) /\ at \in [Creators -> Stands]
  BY Zenon DEF Typed
<1>1. <<"counted", c>> \in Stands
  BY <1>0, Zenon DEF Stands
<1>2. new \in [Creators -> Stands]
  BY <1>0, <1>1, Zenon
<1>3. Typed(c, m, l, id + 1, map, all, new, w, u)
  BY <1>0, <1>2 DEF Typed
<1>4. new[t] = <<"counted", c>> /\ \A v \in Creators : v # t => new[v] = at[v]
  BY <1>0, Zenon
<1> HIDE DEF new
<1>5. Counts(id + 1, all, new)
  <2>0. \A s \in 1..Len(all) : all[s].uuid[2] \in Nat
    BY <1>0, Fields, Zenon
  <2>1. \A s \in 1..Len(all) : all[s].uuid[2] <= id
    BY Zenon DEF Counts
  <2>2. \A s \in 1..Len(all) : all[s].uuid[2] <= id + 1 /\ all[s].uuid[2] < id + 1
    BY <1>0, <2>0, <2>1
  <2>3. \A v \in Creators : new[v][1] = "named" => new[v] = at[v]
    BY <1>4
  <2> QED
    BY <2>2, <2>3 DEF Counts
<1> QED
  BY <1>3, <1>5, Zenon DEF new

\* The constructor of session: a new session, not in the table yet.
LEMMA NameConsistent ==
    ASSUME NEW c, NEW m, NEW l, NEW id, NEW map, NEW all, NEW at, NEW w, NEW u,
           Consistent(c, m, l, id, map, all, at, w, u), NEW t \in Creators, at[t][1] = "counted",
           NEW e, e \in SessionRecords, e.uuid[2] = id, e.by = t, e.state = "made"
    PROVE  Consistent(c, m, l, id, map, Append(all, e), [at EXCEPT ![t] = <<"named", Len(all) + 1>>], w, u)
<1> USE DEF Consistent
<1> DEFINE n == Len(all) + 1
           more == Append(all, e)
           new == [at EXCEPT ![t] = <<"named", n>>]
<1>0. id \in Nat /\ all \in Seq(SessionRecords) /\ at \in [Creators -> Stands] /\ Len(all) \in Nat /\ n \in Nat
  BY DEF Typed
<1>1. /\ more \in Seq(SessionRecords) /\ Len(more) = n /\ more[n] = e
      /\ \A s \in 1..Len(all) : more[s] = all[s]
  BY <1>0
<1>2. new \in [Creators -> Stands] /\ new[t] = <<"named", n>> /\ \A v \in Creators : v # t => new[v] = at[v]
  BY <1>0, Zenon DEF Stands
<1>3. 1..n = 1..Len(all) \cup {n} /\ n \notin 1..Len(all) /\ 1..Len(all) \subseteq 1..n
  BY <1>0
<1> HIDE DEF more, new, n
<1>4. Typed(c, m, l, id, map, more, new, w, u)
  BY <1>1, <1>2, Zenon DEF Typed
<1>5. Counts(id, more, new)
  <2>1. \A s \in 1..n : more[s].uuid[2] <= id
    <3>1. \A s \in 1..Len(all) : more[s].uuid[2] <= id
      BY <1>1, Zenon DEF Counts
    <3>2. more[n].uuid[2] = id /\ id <= id
      BY <1>0, <1>1
    <3> QED
      BY <1>3, <3>1, <3>2, Zenon
  <2>2. \A s \in 1..Len(all) : all[s].by = t => all[s].uuid[2] < id
    BY Zenon DEF Counts
  <2>3. \A s \in 1..Len(all) : all[s].by = t => all[s].uuid[2] # id
    BY <1>0, <2>2, Fields
  <2>4. \A r, s \in 1..n : r # s /\ more[r].by = more[s].by => more[r].uuid[2] # more[s].uuid[2]
    <3> SUFFICES ASSUME NEW r \in 1..n, NEW s \in 1..n, r # s, more[r].by = more[s].by
                 PROVE  more[r].uuid[2] # more[s].uuid[2]
      BY Zenon
    <3>1. CASE r \in 1..Len(all) /\ s \in 1..Len(all)
      BY <1>1, <3>1 DEF Counts
    <3>2. CASE r = n /\ s \in 1..Len(all)
      BY <1>1, <2>3, <3>2, Zenon
    <3>3. CASE s = n /\ r \in 1..Len(all)
      BY <1>1, <2>3, <3>3, Zenon
    <3> QED
      BY <1>3, <3>1, <3>2, <3>3, Zenon
  <2>5. ASSUME NEW v \in Creators, new[v][1] = "counted", NEW s \in 1..n, more[s].by = v
        PROVE  more[s].uuid[2] < id
    <3>1. v # t /\ new[v] = at[v]
      BY <1>2, <2>5
    <3>2. s \in 1..Len(all)
      BY <1>1, <1>3, <2>5, <3>1, Zenon
    <3> QED
      BY <1>1, <2>5, <3>1, <3>2 DEF Counts
  <2>6. ASSUME NEW v \in Creators, new[v][1] = "named"
        PROVE  new[v][2] \in 1..n /\ more[new[v][2]].by = v /\ more[new[v][2]].state = "made"
    <3>1. CASE v = t
      BY <1>1, <1>2, <1>3, <3>1
    <3>2. CASE v # t
      BY <1>1, <1>2, <1>3, <2>6, <3>2 DEF Counts
    <3> QED
      BY <3>1, <3>2, Zenon
  <2> QED
    BY <1>1, <2>1, <2>4, <2>5, <2>6 DEF Counts
<1>6. Table(map, more)
  BY <1>1, <1>3 DEF Table
<1>7. Found(c, l, map, more)
  <2> SUFFICES ASSUME NEW s \in 1..n, more[s].state = "kept", c - more[s].time_stamp < l
               PROVE  Stored(map, more, s) \/ Twin(more, s)
    BY <1>1, Zenon DEF Found
  <2>1. s \in 1..Len(all) /\ more[s] = all[s]
    BY <1>1, <1>3, Zenon
  <2>2. Stored(map, all, s) \/ Twin(all, s)
    BY <2>1, Zenon DEF Found
  <2> QED
    BY <1>1, <1>3, <2>1, <2>2 DEF Stored, Twin
<1>8. Decided(c, l, map, more, w)
  BY <1>1, <1>3, Zenon DEF Decided, Stored
<1>9. Holding(more, u)
  BY <1>1, <1>3, Zenon DEF Holding
<1> QED
  BY <1>4, <1>5, <1>6, <1>7, <1>8, <1>9, Zenon DEF more, new, n

\* A session changes in its state and its stamp only.
Same(all, new) ==
    /\ new \in Seq(SessionRecords) /\ Len(new) = Len(all)
    /\ \A s \in 1..Len(all) : new[s].uuid = all[s].uuid /\ new[s].by = all[s].by

\* A change of states and times moves no session in the table.
LEMMA SameFound ==
    ASSUME NEW all, NEW new, Same(all, new), NEW map, NEW s \in 1..Len(all)
    PROVE  /\ Stored(map, all, s) <=> Stored(map, new, s)
           /\ Twin(all, s) => Twin(new, s)
BY Zenon DEF Same, Stored, Twin

\* One session of all is replaced by e.
LEMMA Replaces ==
    ASSUME NEW all \in Seq(SessionRecords), NEW s \in 1..Len(all), NEW e \in SessionRecords,
           e.uuid = all[s].uuid, e.by = all[s].by
    PROVE  LET new == [all EXCEPT ![s] = e]
           IN  Same(all, new) /\ new[s] = e /\ \A r \in 1..Len(all) : r # s => new[r] = all[r]
<1> DEFINE new == [all EXCEPT ![s] = e]
<1>1. new \in Seq(SessionRecords) /\ Len(new) = Len(all) /\ new[s] = e
  OBVIOUS
<1>2. \A r \in 1..Len(all) : r # s => new[r] = all[r]
  OBVIOUS
<1> HIDE DEF new
<1>3. Same(all, new)
  BY <1>1, <1>2, Zenon DEF Same
<1> QED
  BY <1>1, <1>2, <1>3, Zenon DEF new

\* Counts speaks of the states of the sessions that are about to be inserted only.
LEMMA SameCounts ==
    ASSUME NEW id, NEW all, NEW new, NEW at, NEW aft, Same(all, new), Counts(id, all, at),
           \A t \in Creators : aft[t][1] \in {"counted", "named"} => aft[t] = at[t],
           \A t \in Creators : aft[t][1] = "named" => new[aft[t][2]].state = "made"
    PROVE  Counts(id, new, aft)
<1>1. \A s \in 1..Len(new) : new[s].uuid[2] <= id
  BY Zenon DEF Same, Counts
<1>2. \A r, s \in 1..Len(new) : r # s /\ new[r].by = new[s].by => new[r].uuid[2] # new[s].uuid[2]
  BY DEF Same, Counts
<1>3. \A t \in Creators : aft[t][1] = "counted" =>
          \A s \in 1..Len(new) : new[s].by = t => new[s].uuid[2] < id
  BY DEF Same, Counts
<1>4. \A t \in Creators : aft[t][1] = "named" =>
          aft[t][2] \in 1..Len(new) /\ new[aft[t][2]].by = t /\ new[aft[t][2]].state = "made"
  BY DEF Same, Counts
<1> QED
  BY <1>1, <1>2, <1>3, <1>4, Zenon DEF Counts

\* emplace.
LEMMA InsertConsistent ==
    ASSUME NEW c, NEW m, NEW l, NEW id, NEW map, NEW all, NEW at, NEW w, NEW u,
           Consistent(c, m, l, id, map, all, at, w, u), NEW t \in Creators, at[t][1] = "named",
           w.at # "erase", NEW s, s = at[t][2]
    PROVE  Consistent(c, m, l, id, Emplaced(map, all[s].uuid, s), [all EXCEPT ![s].state = "kept"],
                      [at EXCEPT ![t] = <<"idle">>], w, u)
<1> USE DEF Consistent
<1> DEFINE e == [all[s] EXCEPT !.state = "kept"]
           new == [all EXCEPT ![s] = e]
           table == Emplaced(map, all[s].uuid, s)
           aft == [at EXCEPT ![t] = <<"idle">>]
<1>0. /\ all \in Seq(SessionRecords) /\ at \in [Creators -> Stands] /\ s \in 1..Len(all)
      /\ all[s].by = t /\ all[s].state = "made" /\ all[s] \in SessionRecords
  BY Fields, Zenon DEF Typed, Counts
<1>1. e \in SessionRecords /\ e.uuid = all[s].uuid /\ e.by = all[s].by /\ e.state = "kept"
  BY <1>0, Zenon DEF SessionRecords
<1>2. new = [all EXCEPT ![s].state = "kept"]
  BY Zenon
<1> HIDE DEF e
<1>3. Same(all, new) /\ new[s] = e /\ \A r \in 1..Len(all) : r # s => new[r] = all[r]
  BY <1>0, <1>1, Replaces, SMTT(30)
<1>4. aft \in [Creators -> Stands] /\ aft[t] = <<"idle">> /\ \A v \in Creators : v # t => aft[v] = at[v]
  BY <1>0, Zenon DEF Stands
<1>5. /\ table = [v \in DOMAIN table |-> table[v]]
      /\ all[s].uuid \in DOMAIN table
      /\ \A v \in DOMAIN map : v \in DOMAIN table /\ table[v] = map[v]
      /\ \A v \in DOMAIN table : v \in DOMAIN map \/ (v = all[s].uuid /\ table[v] = s)
  <2>1. map = [v \in DOMAIN map |-> map[v]]
    BY Zenon DEF Typed
  <2> QED
    BY <2>1, Zenon DEF Emplaced
<1> HIDE DEF new, table, aft
<1>6. Typed(c, m, l, id, table, new, aft, w, u)
  BY <1>3, <1>4, <1>5, Zenon DEF Typed, Same
<1>7. Counts(id, new, aft)
  <2>1. ASSUME NEW v \in Creators, aft[v][1] \in {"counted", "named"} PROVE v # t /\ aft[v] = at[v]
    BY <1>4, <2>1
  <2>2. ASSUME NEW v \in Creators, aft[v][1] = "named" PROVE new[aft[v][2]].state = "made"
    <3>1. v # t /\ aft[v] = at[v]
      BY <2>1, <2>2, Zenon
    <3>2. aft[v][2] \in 1..Len(all) /\ all[aft[v][2]].by = v /\ all[aft[v][2]].state = "made"
      BY <2>2, <3>1 DEF Counts
    <3> QED
      BY <1>0, <1>3, <3>1, <3>2, Zenon
  <2> QED
    BY <1>3, <2>1, <2>2, SameCounts
<1>8. Table(table, new)
  <2> SUFFICES ASSUME NEW v \in DOMAIN table
               PROVE  table[v] \in 1..Len(new) /\ new[table[v]].uuid = v /\ new[table[v]].state # "made"
    BY Zenon DEF Table
  <2>1. CASE v \in DOMAIN map
    <3>1. table[v] = map[v] /\ map[v] \in 1..Len(all) /\ all[map[v]].uuid = v /\ all[map[v]].state # "made"
      BY <1>5, <2>1, Zenon DEF Table
    <3> QED
      BY <1>0, <1>3, <3>1, Zenon DEF Same
  <2>2. CASE v = all[s].uuid /\ table[v] = s
    BY <1>0, <1>1, <1>3, <2>2, Zenon DEF Same
  <2> QED
    BY <1>5, <2>1, <2>2, Zenon
<1>9. Found(c, l, table, new)
  <2> SUFFICES ASSUME NEW r \in 1..Len(all), new[r].state = "kept", c - new[r].time_stamp < l
               PROVE  Stored(table, new, r) \/ Twin(new, r)
    BY <1>3, Zenon DEF Found, Same
  <2>1. CASE r # s
    <3>1. Stored(map, all, r) \/ Twin(all, r)
      BY <1>3, <2>1, Zenon DEF Found
    <3>2. Stored(map, all, r) => Stored(table, all, r)
      BY <1>5, Zenon DEF Stored
    <3> QED
      BY <1>3, <3>1, <3>2, SameFound, Zenon
  <2>2. CASE r = s /\ all[s].uuid \notin DOMAIN map
    <3>1. Stored(table, all, s)
      BY <1>5, <2>2, Zenon DEF Stored
    <3> QED
      BY <1>0, <1>3, <2>2, <3>1, SameFound
  <2>3. CASE r = s /\ all[s].uuid \in DOMAIN map
    <3> DEFINE x == map[all[s].uuid]
    <3>1. x \in 1..Len(all) /\ all[x].uuid = all[s].uuid /\ all[x].state # "made"
      BY <2>3, Zenon DEF Table
    <3>2. x # s
      BY <1>0, <3>1, Zenon
    <3>3. all[x].by # all[s].by
      BY <1>0, <3>1, <3>2, ZenonT(60) DEF Counts
    <3>4. Twin(all, s)
      BY <3>1, <3>3, Zenon DEF Twin
    <3> QED
      BY <1>0, <1>3, <2>3, <3>4, SameFound
  <2> QED
    BY <2>1, <2>2, <2>3, Zenon
<1>10. Decided(c, l, table, new, w)
  BY Zenon DEF Decided
<1>11. Holding(new, u)
  BY <1>0, <1>3, Zenon DEF Holding, Same
<1> QED
  BY <1>2, <1>6, <1>7, <1>8, <1>9, <1>10, <1>11, Zenon DEF table, aft

\* A lookup keeps the invariant: what it finds was entered.
LEMMA LookupConsistent ==
    ASSUME NEW c, NEW m, NEW l, NEW id, NEW map, NEW all, NEW at, NEW w, NEW u,
           Consistent(c, m, l, id, map, all, at, w, u), NEW v \in DOMAIN map
    PROVE  Consistent(c, m, l, id, map, all, at, w, map[v])
<1> USE DEF Consistent
<1>1. map[v] \in 1..Len(all) /\ all[map[v]].state # "made"
  BY Zenon DEF Table
<1>2. map[v] \in Nat
  BY <1>1 DEF Typed
<1> QED
  BY <1>1, <1>2, Zenon DEF Typed, Holding

\* The table loses the entry of v.
Without(map, v) == [x \in DOMAIN map \ {v} |-> map[x]]

\* Every other session that was found is found without the entry of v.
LEMMA WithoutStored ==
    ASSUME NEW map, NEW all, Table(map, all), NEW v, NEW s \in 1..Len(all), Stored(map, all, s),
           v \in DOMAIN map => map[v] # s
    PROVE  Stored(Without(map, v), all, s)
BY Zenon DEF Without, Stored, Table

\* A table without one name is a table.
LEMMA WithoutTable ==
    ASSUME NEW map, NEW all, Table(map, all), NEW v
    PROVE  Table(Without(map, v), all)
BY Zenon DEF Without, Table

\* del_session keeps the invariant.
LEMMA DeleteConsistent ==
    ASSUME NEW c, NEW m, NEW l, NEW id, NEW map, NEW all, NEW at, NEW w, NEW u,
           Consistent(c, m, l, id, map, all, at, w, u), w.at # "erase", NEW v \in DOMAIN map
    PROVE  Consistent(c, m, l, id, Without(map, v), [all EXCEPT ![map[v]].state = "deleted"], at, w, u)
<1> USE DEF Consistent
<1> DEFINE s == map[v]
           e == [all[s] EXCEPT !.state = "deleted"]
           new == [all EXCEPT ![s] = e]
           table == Without(map, v)
<1>0. /\ all \in Seq(SessionRecords) /\ s \in 1..Len(all) /\ all[s].state # "made" /\ all[s] \in SessionRecords
  BY Fields, Zenon DEF Typed, Table
<1>1. e \in SessionRecords /\ e.uuid = all[s].uuid /\ e.by = all[s].by /\ e.state = "deleted"
  BY <1>0, Zenon DEF SessionRecords
<1>2. new = [all EXCEPT ![map[v]].state = "deleted"]
  BY Zenon
<1>3. Table(table, all) /\ table = [x \in DOMAIN table |-> table[x]]
  BY WithoutTable, Zenon DEF Without
<1> HIDE DEF e, s, table
<1>4. Same(all, new) /\ new[s] = e /\ \A r \in 1..Len(all) : r # s => new[r] = all[r]
  BY <1>0, <1>1, Replaces
<1> HIDE DEF new
<1>5. \A r \in 1..Len(all) : new[r].state # "made" <=> all[r].state # "made"
  BY <1>0, <1>1, <1>4, Zenon
<1>6. Typed(c, m, l, id, table, new, at, w, u)
  BY <1>3, <1>4, Zenon DEF Typed, Same
<1>7. Counts(id, new, at)
  <2>1. \A t \in Creators : at[t][1] = "named" => new[at[t][2]].state = "made"
    BY <1>5, Zenon DEF Counts
  <2> QED
    BY <1>4, <2>1, SameCounts, Zenon
<1>8. Table(table, new)
  BY <1>3, <1>4, <1>5, Zenon DEF Table, Same
<1>9. Found(c, l, table, new)
  <2> SUFFICES ASSUME NEW r \in 1..Len(all), new[r].state = "kept", c - new[r].time_stamp < l
               PROVE  Stored(table, new, r) \/ Twin(new, r)
    BY <1>4, Zenon DEF Found, Same
  <2>1. r # s /\ new[r] = all[r]
    BY <1>1, <1>4, Zenon
  <2>2. Stored(map, all, r) \/ Twin(all, r)
    BY <2>1, Zenon DEF Found
  <2>3. Stored(map, all, r) => Stored(table, all, r)
    BY <2>1, WithoutStored, Zenon DEF s, table
  <2> QED
    BY <1>4, <2>2, <2>3, SameFound, Zenon
<1>10. Decided(c, l, table, new, w)
  BY Zenon DEF Decided
<1>11. Holding(new, u)
  BY <1>4, <1>5, Zenon DEF Holding, Same
<1> QED
  BY <1>2, <1>6, <1>7, <1>8, <1>9, <1>10, <1>11, Zenon DEF table

\* set_max_age: a new stamp, which is lost on a session that leaves the table.
LEMMA StampConsistent ==
    ASSUME NEW c, NEW m, NEW l, NEW id, NEW map, NEW all, NEW at, NEW w, NEW u,
           Consistent(c, m, l, id, map, all, at, w, u), u # 0, NEW state, NEW e \in SessionRecords,
           e.uuid = all[u].uuid, e.by = all[u].by, e.state = state,
           \/ state = "changed"
           \/ /\ state = all[u].state
              /\ \E v \in DOMAIN map : map[v] = u
              /\ ~(w.at = "erase" /\ w.it = u)
    PROVE  Consistent(c, m, l, id, map, [all EXCEPT ![u] = e], at, w, 0)
<1> USE DEF Consistent
<1> DEFINE new == [all EXCEPT ![u] = e]
<1>0. /\ all \in Seq(SessionRecords) /\ u \in 1..Len(all) /\ all[u].state # "made" /\ all[u] \in SessionRecords
  BY Fields, Zenon DEF Typed, Holding
<1>1. e \in SessionRecords /\ e.uuid = all[u].uuid /\ e.by = all[u].by /\ e.state = state
  BY Zenon
<1>2. state # "made"
  BY <1>0, Zenon
<1>3. state = "kept" => Stored(map, all, u) /\ ~(w.at = "erase" /\ w.it = u)
  BY Zenon DEF Table, Stored
<1>4. Same(all, new) /\ new[u] = e /\ \A r \in 1..Len(all) : r # u => new[r] = all[r]
  BY <1>0, <1>1, Replaces
<1> HIDE DEF new
<1>5. \A r \in 1..Len(all) : new[r].state # "made" <=> all[r].state # "made"
  BY <1>0, <1>1, <1>2, <1>4, Zenon
<1>6. Typed(c, m, l, id, map, new, at, w, 0)
  BY <1>4, Zenon DEF Typed, Same
<1>7. Counts(id, new, at)
  <2>1. \A t \in Creators : at[t][1] = "named" => new[at[t][2]].state = "made"
    BY <1>5, Zenon DEF Counts
  <2> QED
    BY <1>4, <2>1, SameCounts, Zenon
<1>8. Table(map, new)
  BY <1>4, <1>5, Zenon DEF Table, Same
<1>9. Found(c, l, map, new)
  <2> SUFFICES ASSUME NEW r \in 1..Len(all), new[r].state = "kept", c - new[r].time_stamp < l
               PROVE  Stored(map, new, r) \/ Twin(new, r)
    BY <1>4, Zenon DEF Found, Same
  <2>1. CASE r = u
    <3>1. Stored(map, all, u)
      BY <1>1, <1>3, <1>4, <2>1, Zenon
    <3> QED
      BY <1>4, <2>1, <3>1, SameFound, Zenon
  <2>2. CASE r # u
    <3>1. Stored(map, all, r) \/ Twin(all, r)
      BY <1>4, <2>2, Zenon DEF Found
    <3> QED
      BY <1>4, <3>1, SameFound, Zenon
  <2> QED
    BY <2>1, <2>2, Zenon
<1>10. Decided(c, l, map, new, w)
  <2>1. w.now <= c
    BY Zenon DEF Decided
  <2>2. ASSUME w.at = "erase"
        PROVE  /\ w.it \in 1..Len(new) /\ Stored(map, new, w.it)
               /\ new[w.it].state = "kept" => w.now - new[w.it].time_stamp >= l
    <3>1. /\ w.it \in 1..Len(all) /\ Stored(map, all, w.it)
          /\ all[w.it].state = "kept" => w.now - all[w.it].time_stamp >= l
      BY <2>2, Zenon DEF Decided
    <3>2. Stored(map, new, w.it) /\ w.it \in 1..Len(new)
      BY <1>4, <3>1, SameFound, Zenon DEF Same
    <3>3. CASE w.it = u
      <4>1. new[w.it].state # "kept"
        BY <1>1, <1>3, <1>4, <2>2, <3>3, Zenon
      <4> QED
        BY <3>2, <4>1, Zenon
    <3>4. CASE w.it # u
      BY <1>4, <3>1, <3>2, <3>4, Zenon
    <3> QED
      BY <3>3, <3>4, Zenon
  <2> QED
    BY <2>1, <2>2, Zenon DEF Decided
<1>11. Holding(new, 0)
  BY Zenon DEF Holding
<1> QED
  BY <1>6, <1>7, <1>8, <1>9, <1>10, <1>11, Zenon DEF new

\* check_expire moves on, without erasing.
LEMMA SweepConsistent ==
    ASSUME NEW c, NEW m, NEW l, NEW id, NEW map, NEW all, NEW at, NEW w, NEW u,
           Consistent(c, m, l, id, map, all, at, w, u), NEW v \in Sweeps, v.now <= c,
           v.at = "erase" => /\ \E x \in DOMAIN map : map[x] = v.it
                             /\ v.now - all[v.it].time_stamp >= m
    PROVE  Consistent(c, m, l, id, map, all, at, v, u)
<1> USE DEF Consistent
<1>1. Typed(c, m, l, id, map, all, at, v, u)
  BY Zenon DEF Typed
<1>2. Decided(c, l, map, all, v)
  <2>1. ASSUME v.at = "erase"
        PROVE  v.it \in 1..Len(all) /\ Stored(map, all, v.it) /\ v.now - all[v.it].time_stamp >= l
    <3>1. v.it \in 1..Len(all) /\ Stored(map, all, v.it)
      BY <2>1, Zenon DEF Table, Stored
    <3>2. all[v.it].time_stamp \in Int /\ v.now \in Nat /\ l \in Int /\ m \in Int /\ l <= m
      BY <3>1, Fields, Zenon DEF Typed, Sweeps
    <3> QED
      BY <2>1, <3>1, <3>2
  <2> QED
    BY <2>1, Zenon DEF Decided
<1> QED
  BY <1>1, <1>2, Zenon

\* Erasing the session the sweep has decided on keeps the invariant.
LEMMA EraseConsistent ==
    ASSUME NEW c, NEW m, NEW l, NEW id, NEW map, NEW all, NEW at, NEW w, NEW u,
           Consistent(c, m, l, id, map, all, at, w, u), w.at = "erase",
           NEW v \in Sweeps, v.at # "erase", v.now = w.now
    PROVE  Consistent(c, m, l, id, Without(map, all[w.it].uuid), all, at, v, u)
<1> USE DEF Consistent
<1> DEFINE table == Without(map, all[w.it].uuid)
<1>0. /\ w.it \in 1..Len(all) /\ Stored(map, all, w.it)
      /\ all[w.it].state = "kept" => w.now - all[w.it].time_stamp >= l
      /\ w.now <= c /\ w.now \in Nat /\ c \in Nat /\ l \in Int
  BY Zenon DEF Decided, Typed, Sweeps
<1>1. Table(table, all) /\ table = [x \in DOMAIN table |-> table[x]]
  BY WithoutTable, Zenon DEF Without
<1>2. Typed(c, m, l, id, table, all, at, v, u)
  <2> HIDE DEF table
  <2> QED
    BY <1>1, Zenon DEF Typed
<1>3. Found(c, l, table, all)
  <2> SUFFICES ASSUME NEW s \in 1..Len(all), all[s].state = "kept", c - all[s].time_stamp < l
               PROVE  Stored(table, all, s) \/ Twin(all, s)
    BY Zenon DEF Found
  <2>1. s # w.it
    <3> SUFFICES ASSUME s = w.it PROVE FALSE
      BY Zenon
    <3>1. all[s].time_stamp \in Int
      BY Fields, Zenon DEF Typed
    <3>2. w.now - all[s].time_stamp >= l
      BY <1>0, Zenon
    <3> QED
      BY <1>0, <3>1, <3>2
  <2>2. Stored(map, all, s) \/ Twin(all, s)
    BY Zenon DEF Found
  <2>3. map[all[w.it].uuid] # s
    BY <1>0, <2>1, Zenon DEF Stored
  <2> QED
    BY <2>2, <2>3, WithoutStored, Zenon
<1>4. Decided(c, l, table, all, v)
  BY <1>0, Zenon DEF Decided
<1> QED
  BY <1>1, <1>2, <1>3, <1>4, Zenon

-----------------------------------------------------------------------------
\* The record ss, from its fields.
Manager(c, m, l, id, map, all, at, w, u, k) ==
    [clock |-> c, max_age |-> m, least |-> l, id |-> id, map |-> map, all |-> all, at |-> at,
     sweep |-> w, user |-> u, calls |-> k]

\* The inductive invariant of the sessions.
SSInv ==
    \E c, m, l, id, map, all, at, w, u, k :
        ss = Manager(c, m, l, id, map, all, at, w, u, k) /\ Consistent(c, m, l, id, map, all, at, w, u)

\* The manager without sessions satisfies the invariant.
LEMMA SSInitially ==
    ASSUME SSInit
    PROVE  SSInv
<1> DEFINE at == [t \in Creators |-> <<"idle">>]
<1>1. ss = Manager(0, 0, 0, 0, <<>>, <<>>, at, Resting, 0, 0)
  BY Zenon DEF SSInit, Manager
<1>2. at \in [Creators -> Stands] /\ \A t \in Creators : at[t][1] = "idle"
  BY Zenon DEF Stands
<1>3. Resting \in Sweeps /\ Resting.at = "idle" /\ Resting.now = 0
  BY Zenon DEF Resting, Sweeps
<1> HIDE DEF at
<1>4. Typed(0, 0, 0, 0, <<>>, <<>>, at, Resting, 0)
  BY <1>2, <1>3 DEF Typed
<1>5. Counts(0, <<>>, at) /\ Table(<<>>, <<>>) /\ Found(0, 0, <<>>, <<>>)
  BY <1>2 DEF Counts, Table, Found
<1>6. Decided(0, 0, <<>>, <<>>, Resting) /\ Holding(<<>>, 0)
  BY <1>3 DEF Decided, Holding
<1>7. Consistent(0, 0, 0, 0, <<>>, <<>>, at, Resting, 0)
  BY <1>4, <1>5, <1>6 DEF Consistent
<1> QED
  BY <1>1, <1>7, Zenon DEF SSInv

\* What an action makes of the manager, where it was consistent.
LEMMA SSUser ==
    ASSUME SSInv,
           \/ Elapses
           \/ \E n \in MaxAges : set_max_inactive_interval(n)
           \/ \E v \in DOMAIN ss.map : get_session(v) \/ del_session(v)
           \/ \E e \in Lifetimes : set_max_age(e)
    PROVE  SSInv'
<1>1. PICK c, m, l, id, map, all, at, w, u, k :
          ss = Manager(c, m, l, id, map, all, at, w, u, k) /\ Consistent(c, m, l, id, map, all, at, w, u)
  BY Zenon DEF SSInv
<1>2. CASE Elapses
  <2>1. ss' = Manager(c + 1, m, l, id, map, all, at, w, u, k)
    BY <1>1, <1>2, Zenon DEF Elapses, Manager
  <2> QED
    BY <1>1, <2>1, TickConsistent DEF SSInv
<1>3. ASSUME NEW n \in MaxAges, set_max_inactive_interval(n) PROVE SSInv'
  <2> DEFINE least == IF n < l \/ all = <<>> THEN n ELSE l
  <2>1. ss' = Manager(c, n, least, id, map, all, at, w, u, k)
    BY <1>1, <1>3, Zenon DEF set_max_inactive_interval, Manager
  <2>2. n \in Int
    BY SessionsAssumption, Zenon
  <2> HIDE DEF least
  <2>3. Consistent(c, n, least, id, map, all, at, w, u)
    BY <1>1, <2>2, AgeConsistent, Zenon DEF least
  <2> QED
    BY <2>1, <2>3, Zenon DEF SSInv
<1>4. ASSUME NEW v \in DOMAIN ss.map, get_session(v) PROVE SSInv'
  <2>1. v \in DOMAIN map /\ ss' = Manager(c, m, l, id, map, all, at, w, map[v], k + 1)
    BY <1>1, <1>4, Zenon DEF get_session, Manager
  <2>2. Consistent(c, m, l, id, map, all, at, w, map[v])
    BY <1>1, <2>1, LookupConsistent, Zenon
  <2> QED
    BY <2>1, <2>2, Zenon DEF SSInv
<1>5. ASSUME NEW v \in DOMAIN ss.map, del_session(v) PROVE SSInv'
  <2> DEFINE table == Without(map, v)
             new == [all EXCEPT ![map[v]].state = "deleted"]
  <2>1. v \in DOMAIN map /\ w.at # "erase"
    BY <1>1, <1>5, Zenon DEF del_session, Unlocked, Manager
  <2>2. ss' = Manager(c, m, l, id, table, new, at, w, u, k + 1)
    BY <1>1, <1>5, ZenonT(60) DEF del_session, Erased, Without, Manager
  <2>3. Consistent(c, m, l, id, table, new, at, w, u)
    BY <1>1, <2>1, DeleteConsistent, Zenon
  <2> HIDE DEF table, new
  <2> QED
    BY <2>2, <2>3, Zenon DEF SSInv
<1>6. ASSUME NEW e \in Lifetimes, set_max_age(e) PROVE SSInv'
  <2> DEFINE x == c + expire_(e, DefaultMaxAge)
             state == IF Leaving(u) THEN "changed" ELSE all[u].state
             r == [all[u] EXCEPT !.time_stamp = x, !.state = state]
             new == [all EXCEPT ![u] = r]
  <2>0. ss.user = u /\ ss.all = all /\ ss.clock = c
    BY <1>1, Zenon DEF Manager
  <2>1. u # 0 /\ ss' = Manager(c, m, l, id, map, new, at, w, 0, k)
    <3>1. u # 0 /\ ss' = [ss EXCEPT !.all = [ss.all EXCEPT ![u] = r], !.user = 0]
      BY <1>6, <2>0, Zenon DEF set_max_age
    <3> HIDE DEF r
    <3> QED
      BY <1>1, <2>0, <3>1, Zenon DEF Manager
  <2>2. /\ u \in 1..Len(all) /\ all[u] \in SessionRecords /\ all[u].state \in {"made", "kept", "deleted", "changed"}
        /\ c \in Nat
    BY <1>1, <2>1, Fields, Zenon DEF Consistent, Typed, Holding, SessionRecords
  <2>3. x \in Int
    <3>1. e \in Int /\ DefaultMaxAge \in Int
      BY SessionsAssumption DEF Unset, Lifetimes
    <3>2. expire_(e, DefaultMaxAge) \in Int
      BY <3>1, Zenon DEF expire_
    <3> QED
      BY <2>2, <3>2
  <2>4. state \in {"made", "kept", "deleted", "changed"}
    BY <2>2, Zenon
  <2>5. \/ state = "changed"
        \/ /\ state = all[u].state
           /\ \E v \in DOMAIN map : map[v] = u
           /\ ~(w.at = "erase" /\ w.it = u)
    <3>1. ss.map = map /\ ss.sweep = w
      BY <1>1, Zenon DEF Manager
    <3> QED
      BY <3>1, Zenon DEF Leaving, Range
  <2> HIDE DEF x, state
  <2>6. r \in SessionRecords /\ r.uuid = all[u].uuid /\ r.by = all[u].by /\ r.state = state
    <3> HIDE DEF r
    <3>1. r = [all[u] EXCEPT !.time_stamp = x, !.state = state]
      BY Zenon DEF r
    <3> QED
      BY <2>2, <2>3, <2>4, <3>1, Zenon DEF SessionRecords
  <2> HIDE DEF r
  <2>7. Consistent(c, m, l, id, map, new, at, w, 0)
    BY <1>1, <2>1, <2>5, <2>6, StampConsistent, Zenon
  <2> HIDE DEF new
  <2> QED
    BY <2>1, <2>7, Zenon DEF SSInv
<1> QED
  BY <1>2, <1>3, <1>4, <1>5, <1>6, Zenon

\* The steps of create_session keep the invariant, between those of others.
LEMMA SSCreate ==
    ASSUME SSInv, NEW t \in Creators,
           Begins(t) \/ Inserts(t) \/ \E e \in Lifetimes : Names(t, e)
    PROVE  SSInv'
<1>1. PICK c, m, l, id, map, all, at, w, u, k :
          ss = Manager(c, m, l, id, map, all, at, w, u, k) /\ Consistent(c, m, l, id, map, all, at, w, u)
  BY Zenon DEF SSInv
<1>2. CASE Begins(t)
  <2> DEFINE new == [at EXCEPT ![t] = <<"counted", c>>]
  <2>1. ss' = Manager(c, m, l, id + 1, map, all, new, w, u, k)
    BY <1>1, <1>2, Zenon DEF Begins, Manager
  <2>2. Consistent(c, m, l, id + 1, map, all, new, w, u)
    BY <1>1, BeginConsistent, Zenon
  <2> HIDE DEF new
  <2> QED
    BY <2>1, <2>2, Zenon DEF SSInv
<1>3. CASE Inserts(t)
  <2> DEFINE s == at[t][2]
             table == Emplaced(map, all[s].uuid, s)
             all2 == [all EXCEPT ![s].state = "kept"]
             new == [at EXCEPT ![t] = <<"idle">>]
  <2>1. at[t][1] = "named" /\ w.at # "erase"
    BY <1>1, <1>3, Zenon DEF Inserts, Unlocked, Manager
  <2>2. ss' = Manager(c, m, l, id, table, all2, new, w, u, k)
    BY <1>1, <1>3, ZenonT(60) DEF Inserts, Manager
  <2>3. Consistent(c, m, l, id, table, all2, new, w, u)
    BY <1>1, <2>1, InsertConsistent, Zenon
  <2> HIDE DEF table, all2, new
  <2> QED
    BY <2>2, <2>3, Zenon DEF SSInv
<1>4. ASSUME NEW e \in Lifetimes, Names(t, e) PROVE SSInv'
  <2> DEFINE r == [uuid |-> <<at[t][2], id>>, by |-> t, state |-> "made",
                   time_stamp |-> expire_(e, DefaultExpire) + c]
             all2 == Append(all, r)
             new == [at EXCEPT ![t] = <<"named", Len(all) + 1>>]
  <2>1. at[t][1] = "counted"
    BY <1>1, <1>4, Zenon DEF Names, Manager
  <2>2. ss' = Manager(c, m, l, id, map, all2, new, w, u, k)
    BY <1>1, <1>4, ZenonT(60) DEF Names, Manager
  <2>3. c \in Nat /\ id \in Nat /\ at[t] \in Stands
    BY <1>1, Zenon DEF Consistent, Typed
  <2>4. at[t][2] \in Nat
    BY <2>1, <2>3 DEF Stands
  <2>5. expire_(e, DefaultExpire) + c \in Int
    <3>1. e \in Int /\ DefaultExpire \in Int
      BY SessionsAssumption DEF Unset, Lifetimes
    <3>2. expire_(e, DefaultExpire) \in Int
      BY <3>1, Zenon DEF expire_
    <3> QED
      BY <2>3, <3>2
  <2>6. r \in SessionRecords /\ r.uuid[2] = id /\ r.by = t /\ r.state = "made"
    BY <2>3, <2>4, <2>5, Zenon DEF SessionRecords
  <2> HIDE DEF r
  <2>7. Consistent(c, m, l, id, map, all2, new, w, u)
    BY <1>1, <2>1, <2>6, NameConsistent, Zenon
  <2> HIDE DEF all2, new
  <2> QED
    BY <2>2, <2>7, Zenon DEF SSInv
<1> QED
  BY <1>2, <1>3, <1>4, Zenon

\* The steps of the sweep keep the invariant.
LEMMA SSSweep ==
    ASSUME SSInv, Looks \/ Locks \/ Erases \/ Unlocks \/ \E s \in Range(ss.map) : Visits(s)
    PROVE  SSInv'
<1>1. PICK c, m, l, id, map, all, at, w, u, k :
          ss = Manager(c, m, l, id, map, all, at, w, u, k) /\ Consistent(c, m, l, id, map, all, at, w, u)
  BY Zenon DEF SSInv
<1>2. /\ ss.clock = c /\ ss.map = map /\ ss.sweep = w /\ ss.all = all /\ ss.max_age = m
      /\ c \in Nat /\ w \in Sweeps /\ w.now <= c
  BY <1>1, Zenon DEF Manager, Consistent, Typed, Decided
<1>3. ASSUME NEW v \in Sweeps, v.now <= c, ss' = [ss EXCEPT !.sweep = v],
             v.at = "erase" => /\ \E x \in DOMAIN map : map[x] = v.it
                               /\ v.now - all[v.it].time_stamp >= m
      PROVE  SSInv'
  <2>1. ss' = Manager(c, m, l, id, map, all, at, v, u, k)
    BY <1>1, <1>3, Zenon DEF Manager
  <2>2. Consistent(c, m, l, id, map, all, at, v, u)
    BY <1>1, <1>3, SweepConsistent, Zenon
  <2> QED
    BY <2>1, <2>2, Zenon DEF SSInv
<1>4. CASE Looks
  <2> DEFINE v == [Resting EXCEPT !.at = "looked", !.now = c]
  <2>1. ss' = [ss EXCEPT !.sweep = v]
    BY <1>2, <1>4, Zenon DEF Looks
  <2>2. v \in Sweeps /\ v.now = c /\ v.at = "looked"
    BY <1>2, Zenon DEF Resting, Sweeps
  <2> HIDE DEF v
  <2> QED
    BY <1>2, <1>3, <2>1, <2>2
<1>5. CASE Locks
  <2> DEFINE v == [w EXCEPT !.at = "visit", !.left = Range(map)]
  <2>1. ss' = [ss EXCEPT !.sweep = v]
    BY <1>2, <1>5, Zenon DEF Locks
  <2>2. Range(map) \subseteq Nat
    <3>1. \A x \in DOMAIN map : map[x] \in Nat
      BY <1>1 DEF Consistent, Table, Typed
    <3> QED
      BY <3>1, Zenon DEF Range
  <2>3. v \in Sweeps /\ v.now = w.now /\ v.at = "visit"
    BY <1>2, <2>2, Zenon DEF Sweeps
  <2> HIDE DEF v
  <2> QED
    BY <1>2, <1>3, <2>1, <2>3, Zenon
<1>6. CASE Unlocks
  <2>1. ss' = [ss EXCEPT !.sweep = Resting]
    BY <1>6, Zenon DEF Unlocks
  <2>2. Resting \in Sweeps /\ Resting.now = 0 /\ Resting.at = "idle"
    BY Zenon DEF Resting, Sweeps
  <2> QED
    BY <1>2, <1>3, <2>1, <2>2
<1>7. ASSUME NEW s \in Range(ss.map), Visits(s) PROVE SSInv'
  <2> DEFINE left == w.left \ {s}
             v == IF Expired(s) THEN [w EXCEPT !.left = left, !.at = "erase", !.it = s]
                  ELSE [w EXCEPT !.left = left]
  <2>1. ss' = [ss EXCEPT !.sweep = v] /\ w.at = "visit"
    BY <1>2, <1>7, Zenon DEF Visits
  <2>2. PICK x \in DOMAIN map : map[x] = s
    BY <1>2, Zenon DEF Range
  <2>3. s \in Nat
    BY <1>1, <2>2 DEF Consistent, Table, Typed
  <2>4. w.now - all[s].time_stamp >= m <=> Expired(s)
    BY <1>2, Zenon DEF Expired
  <2>5. v \in Sweeps /\ v.now = w.now
    BY <1>2, <2>3, Zenon DEF Sweeps
  <2>6. v.at = "erase" => Expired(s) /\ v.it = s
    BY <1>2, <2>1, Zenon DEF Sweeps
  <2> HIDE DEF v
  <2> QED
    BY <1>2, <1>3, <2>1, <2>2, <2>4, <2>5, <2>6, Zenon
<1>8. CASE Erases
  <2> DEFINE v == [w EXCEPT !.at = "visit", !.it = 0]
             table == Without(map, all[w.it].uuid)
  <2>1. w.at = "erase" /\ ss' = Manager(c, m, l, id, table, all, at, v, u, k)
    BY <1>1, <1>8, Zenon DEF Erases, Erased, Without, Manager
  <2>2. v \in Sweeps /\ v.at = "visit" /\ v.now = w.now
    BY <1>2, Zenon DEF Sweeps
  <2> HIDE DEF v
  <2>3. Consistent(c, m, l, id, table, all, at, v, u)
    BY <1>1, <2>1, <2>2, EraseConsistent, Zenon
  <2> HIDE DEF table
  <2> QED
    BY <2>1, <2>3, Zenon DEF SSInv
<1> QED
  BY <1>4, <1>5, <1>6, <1>7, <1>8, Zenon

(* A session that was created, not deleted, and not yet max_age_ past its stamp is found       *)
(* under its id, whatever check_expire removes meanwhile with the time and the stamps it read  *)
(* earlier, for any number of threads that create sessions: except where another thread has    *)
(* made a session with the same id, or a stamp was changed once the removal was decided.       *)
THEOREM SessionsAreFound == SSSpec => []SessionsFound
<1>1. SSInit => SSInv
  BY SSInitially, Zenon
<1>2. SSInv /\ [SSNext]_ssVars => SSInv'
  <2> SUFFICES ASSUME SSInv, [SSNext]_ssVars PROVE SSInv'
    BY Zenon
  <2>1. CASE SSNext
    BY <2>1, SSUser, SSCreate, SSSweep, Zenon DEF SSNext
  <2>2. CASE UNCHANGED ssVars
    BY <2>2 DEF ssVars, SSInv
  <2> QED
    BY <2>1, <2>2, Zenon
<1>3. SSInv => SessionsFound
  <2> SUFFICES ASSUME SSInv PROVE SessionsFound
    BY Zenon
  <2>1. PICK c, m, l, id, map, all, at, w, u, k :
            ss = Manager(c, m, l, id, map, all, at, w, u, k) /\ Consistent(c, m, l, id, map, all, at, w, u)
    BY Zenon DEF SSInv
  <2>2. ss.clock = c /\ ss.map = map /\ ss.all = all /\ ss.least = l
    BY <2>1, Zenon DEF Manager
  <2>3. DOMAIN all = 1..Len(all) /\ Found(c, l, map, all)
    BY <2>1 DEF Consistent, Typed
  <2> QED
    BY <2>2, <2>3 DEF SessionsFound, Found, Stored, Twin
<1> QED
  BY <1>1, <1>2, <1>3, PTL DEF SSSpec

-----------------------------------------------------------------------------
(***************************************************************************)
(* The buffer of a request.                                                *)
(***************************************************************************)

\* The states of a request and its buffer.
RequestBuffers ==
    [place : Nat, over : BOOLEAN, cur : BOOLEAN, views : Int, mlen : BOOLEAN, head : BOOLEAN,
     strs : BOOLEAN, copied : BOOLEAN, at : {"head", "done", "multipart", "websocket", "broken"},
     kind : {"string", "multipart", "websocket"}, asked : BOOLEAN, reads : Nat]

\* The head has been copied out of buf_.
Kept(r) == ~r.mlen /\ r.strs /\ r.copied

\* The invariant: until the head is complete nothing of it has been written over; while user
\* code runs for the first time the views show it; from then on it is copied.
RBInv ==
    /\ rb \in RequestBuffers
    /\ rb.at = "head" => ~rb.asked /\ ~rb.over /\ (rb.cur \/ rb.views = -1)
    /\ rb.at \in {"multipart", "websocket"} => Kept(rb) \/ (rb.asked /\ rb.mlen /\ rb.head /\ Live(rb))
    /\ rb.at = "broken" => Kept(rb)
    /\ RequestReadable

\* What copy_method_url_headers, and with it set_current_size(0) and a move, does.
LEMMA Copies ==
    ASSUME NEW r \in RequestBuffers
    PROVE  LET c == copy_method_url_headers(r)
           IN  /\ c \in RequestBuffers
               /\ c.at = r.at /\ c.asked = r.asked /\ c.over = r.over /\ c.cur = r.cur
               /\ c.views = r.views /\ c.place = r.place /\ c.kind = r.kind
               /\ Kept(r) \/ (r.mlen /\ r.head /\ Live(r)) => Kept(c)
<1> DEFINE c == copy_method_url_headers(r)
<1>1. CASE ~r.mlen
  BY <1>1 DEF copy_method_url_headers, RequestBuffers, Kept
<1>2. CASE r.mlen
  <2>1. c = [r EXCEPT !.strs = Live(r), !.mlen = FALSE, !.copied = @ \/ (r.head /\ Live(r))]
    BY <1>2, Zenon DEF copy_method_url_headers
  <2>2. Live(r) \in BOOLEAN /\ (r.copied \/ (r.head /\ Live(r))) \in BOOLEAN
    BY Zenon DEF Live, RequestBuffers
  <2>3. c \in RequestBuffers
    BY <2>1, <2>2, Zenon DEF RequestBuffers
  <2>4. /\ c.at = r.at /\ c.asked = r.asked /\ c.over = r.over /\ c.cur = r.cur
        /\ c.views = r.views /\ c.place = r.place /\ c.kind = r.kind
    BY <2>1, Zenon DEF RequestBuffers
  <2>5. c.mlen = FALSE /\ c.strs = Live(r) /\ c.copied = (r.copied \/ (r.head /\ Live(r)))
    BY <2>1, Zenon DEF RequestBuffers
  <2>6. Kept(r) \/ (r.mlen /\ r.head /\ Live(r)) => Kept(c)
    BY <1>2, <2>5, Zenon DEF Kept
  <2> QED
    BY <2>3, <2>4, <2>6, Zenon
<1> QED
  BY <1>1, <1>2, Zenon

\* Fits leaves the buffer where it is, or copies the head and moves the bytes.
LEMMA FitsKeeps ==
    ASSUME NEW r \in RequestBuffers, NEW s \in Fits(r)
    PROVE  /\ s \in RequestBuffers
           /\ s.at = r.at /\ s.asked = r.asked /\ s.over = r.over /\ s.cur = r.cur /\ s.views = r.views
           /\ Kept(r) => Kept(s)
<1> DEFINE c == copy_method_url_headers(r)
<1>1. CASE s = r
  BY <1>1, Zenon
<1>2. CASE s = [c EXCEPT !.place = @ + 1]
  <2>1. /\ c \in RequestBuffers
        /\ c.at = r.at /\ c.asked = r.asked /\ c.over = r.over /\ c.cur = r.cur
        /\ c.views = r.views /\ (Kept(r) => Kept(c))
    BY Copies, Zenon
  <2> HIDE DEF c
  <2>2. c.place + 1 \in Nat
    BY <2>1 DEF RequestBuffers
  <2>3. s \in RequestBuffers
    BY <1>2, <2>1, <2>2, Zenon DEF RequestBuffers
  <2>4. /\ s.at = c.at /\ s.asked = c.asked /\ s.over = c.over /\ s.cur = c.cur /\ s.views = c.views
        /\ s.mlen = c.mlen /\ s.strs = c.strs /\ s.copied = c.copied
    BY <1>2, <2>1, Zenon DEF RequestBuffers
  <2> QED
    BY <2>1, <2>3, <2>4, Zenon DEF Kept
<1> QED
  BY <1>1, <1>2, Zenon DEF Fits, resize

\* A read: what was in buf_ is written over when set_current_size(0) came before it.
LEMMA Receives ==
    ASSUME NEW r \in RequestBuffers
    PROVE  LET s == Received(r)
           IN  /\ s \in RequestBuffers
               /\ s.cur /\ (s.over <=> r.over \/ (~r.cur /\ r.views # -1))
               /\ s.at = r.at /\ s.asked = r.asked /\ s.views = r.views /\ s.place = r.place
               /\ s.kind = r.kind /\ s.mlen = r.mlen /\ s.strs = r.strs /\ s.copied = r.copied
<1>1. (r.over \/ (~r.cur /\ r.views # -1)) \in BOOLEAN /\ r.reads + 1 \in Nat
  BY DEF RequestBuffers
<1> QED
  BY <1>1, Zenon DEF Received, RequestBuffers

\* The views are set anew; nothing is copied yet.
LEMMA Parses ==
    ASSUME NEW r \in RequestBuffers, NEW s,
           \E method, whole \in BOOLEAN : s = parse_header(r, method, whole)
    PROVE  /\ s \in RequestBuffers
           /\ s.at = r.at /\ s.asked = r.asked /\ s.over = r.over /\ s.cur = r.cur
<1>1. PICK method \in BOOLEAN, whole \in BOOLEAN : s = parse_header(r, method, whole)
  BY Zenon
<1>2. r.place \in Int
  BY DEF RequestBuffers
<1>3. s \in RequestBuffers
  BY <1>1, <1>2, ZenonT(60) DEF parse_header, RequestBuffers
<1>4. s.at = r.at /\ s.asked = r.asked /\ s.over = r.over /\ s.cur = r.cur
  BY <1>1, Zenon DEF parse_header, RequestBuffers
<1> QED
  BY <1>3, <1>4, Zenon

\* parse_header leaves every view in the buffer where it now lies.
LEMMA ParsesAll ==
    ASSUME NEW r \in RequestBuffers
    PROVE  LET s == parse_header(r, TRUE, TRUE)
           IN  s.views = r.place /\ s.place = r.place /\ s.mlen /\ s.head
BY Zenon DEF parse_header, RequestBuffers

\* User code is called, at a point of connection.
Called(r, to) == [r EXCEPT !.asked = TRUE, !.at = to]

\* The call of the handler changes nothing of the buffer.
LEMMA CallingKeeps ==
    ASSUME NEW r \in RequestBuffers,
           NEW to \in {"head", "done", "multipart", "websocket", "broken"}
    PROVE  LET s == Called(r, to)
           IN  /\ s \in RequestBuffers /\ s.asked /\ s.at = to
               /\ s.over = r.over /\ s.views = r.views /\ s.place = r.place
               /\ s.mlen = r.mlen /\ s.head = r.head /\ s.strs = r.strs /\ s.copied = r.copied
<1> DEFINE s == Called(r, to)
<1>1. s \in RequestBuffers /\ s.asked /\ s.at = to
  BY Zenon DEF RequestBuffers, Called
<1>2. s.over = r.over /\ s.views = r.views /\ s.place = r.place
  BY Zenon DEF RequestBuffers, Called
<1>3. s.mlen = r.mlen /\ s.head = r.head /\ s.strs = r.strs /\ s.copied = r.copied
  BY Zenon DEF RequestBuffers, Called
<1> QED
  BY <1>1, <1>2, <1>3, Zenon

\* The fresh request satisfies the invariant.
LEMMA RBInitially == RBInit => RBInv
<1> SUFFICES ASSUME RBInit PROVE RBInv
  BY Zenon
<1>1. PICK kind \in {"string", "multipart", "websocket"} :
        rb = [place |-> 0, over |-> FALSE, cur |-> FALSE, views |-> -1, mlen |-> FALSE, head |-> FALSE,
              strs |-> FALSE, copied |-> FALSE, at |-> "head", kind |-> kind, asked |-> FALSE, reads |-> 0]
  BY Zenon DEF RBInit
<1> QED
  BY <1>1, SMTT(30) DEF RBInv, RequestBuffers, RequestReadable, Kept

\* Reading a part of the head, or the last of it, keeps the invariant.
LEMMA RBReads ==
    ASSUME RBInv, ReadsPart \/ ReadsHead
    PROVE  RBInv'
<1> DEFINE g == Received(rb)
<1>0. rb \in RequestBuffers /\ rb.at = "head" /\ ~rb.asked /\ ~rb.over /\ (rb.cur \/ rb.views = -1)
  BY Zenon DEF RBInv, ReadsPart, ReadsHead, Reading
<1>1. /\ g \in RequestBuffers /\ g.cur /\ ~g.over /\ g.at = "head" /\ ~g.asked
      /\ g.kind = rb.kind
  BY <1>0, Receives, Zenon
<1> HIDE DEF g
<1>2. CASE ReadsPart
  <2>1. PICK method \in BOOLEAN : rb' = parse_header(g, method, FALSE)
    BY <1>2, Zenon DEF ReadsPart, g
  <2>2. rb' \in RequestBuffers /\ rb'.at = "head" /\ ~rb'.asked /\ ~rb'.over /\ rb'.cur
    BY <1>1, <2>1, Parses, ZenonT(60)
  <2> QED
    BY <2>2, Zenon DEF RBInv, RequestReadable
<1>3. CASE ReadsHead
  <2> DEFINE p == parse_header(g, TRUE, TRUE)
  <2>1. /\ p \in RequestBuffers /\ p.views = p.place /\ p.mlen /\ p.head /\ p.at = "head" /\ ~p.asked
        /\ ~p.over /\ p.cur
    BY <1>1, Parses, ParsesAll, ZenonT(60)
  <2> HIDE DEF p
  <2>2. \/ rb' = [p EXCEPT !.asked = TRUE, !.at = IF rb.kind = "string" THEN "done" ELSE rb.kind]
        \/ rb' \in Fits(p)
    BY <1>3, Zenon DEF ReadsHead, p, g
  <2>3. CASE rb' \in Fits(p)
    <3>1. rb' \in RequestBuffers /\ rb'.at = "head" /\ ~rb'.asked /\ ~rb'.over /\ rb'.cur
      BY <2>1, <2>3, FitsKeeps
    <3> QED
      BY <3>1, Zenon DEF RBInv, RequestReadable
  <2>4. CASE rb' = [p EXCEPT !.asked = TRUE, !.at = IF rb.kind = "string" THEN "done" ELSE rb.kind]
    <3> DEFINE to == IF rb.kind = "string" THEN "done" ELSE rb.kind
    <3>1. to \in {"done", "multipart", "websocket"}
      BY <1>0, Zenon DEF RequestBuffers
    <3> HIDE DEF to
    <3>2. rb' = Called(p, to)
      BY <2>4, Zenon DEF to, Called
    <3>3. /\ rb' \in RequestBuffers /\ rb'.asked /\ rb'.at = to
          /\ rb'.over = p.over /\ rb'.views = p.views /\ rb'.place = p.place
          /\ rb'.mlen = p.mlen /\ rb'.head = p.head
      <4>1. p \in RequestBuffers /\ to \in {"head", "done", "multipart", "websocket", "broken"}
        BY <2>1, <3>1, Zenon
      <4> QED
        BY <4>1, <3>2, CallingKeeps
    <3>4. rb'.mlen /\ rb'.head /\ Live(rb')
      BY <2>1, <3>3, Zenon DEF Live
    <3> QED
      BY <3>1, <3>3, <3>4, Zenon DEF RBInv, RequestReadable, get_url_ok, get_header_value_ok
  <2> QED
    BY <2>2, <2>3, <2>4, Zenon
<1> QED
  BY <1>2, <1>3, Zenon

\* The return of the handler keeps the invariant.
LEMMA RBReturns ==
    ASSUME RBInv, Returns
    PROVE  RBInv'
<1>0. rb \in RequestBuffers /\ rb.asked /\ rb.at # "head"
  BY Zenon DEF RBInv, Returns
<1>1. CASE rb.at = "done"
  <2>1. rb' = [rb EXCEPT !.asked = FALSE]
    BY <1>1, Zenon DEF Returns
  <2> QED
    BY <1>0, <1>1, <2>1, Zenon DEF RBInv, RequestBuffers, RequestReadable
<1>2. CASE rb.at = "broken"
  <2>1. rb' = [request_reset(rb) EXCEPT !.asked = FALSE, !.at = "done"]
    BY <1>2, Zenon DEF Returns
  <2> QED
    BY <1>0, <2>1, Zenon DEF RBInv, RequestBuffers, RequestReadable, request_reset
<1>3. CASE rb.at \in {"multipart", "websocket"}
  <2> DEFINE u == [rb EXCEPT !.cur = FALSE]
             c == copy_method_url_headers(u)
  <2>1. rb' = [c EXCEPT !.asked = FALSE]
    BY <1>3, Zenon DEF Returns, set_current_size_0
  <2>2. /\ u \in RequestBuffers /\ u.at = rb.at /\ u.mlen = rb.mlen /\ u.head = rb.head
        /\ u.strs = rb.strs /\ u.copied = rb.copied /\ u.views = rb.views /\ u.place = rb.place
        /\ u.over = rb.over
    BY <1>0, Zenon DEF RequestBuffers
  <2>3. Kept(u) \/ (u.mlen /\ u.head /\ Live(u))
    BY <1>3, <2>2, Zenon DEF RBInv, Kept, Live
  <2> HIDE DEF u
  <2>4. c \in RequestBuffers /\ c.at = rb.at /\ Kept(c)
    BY <2>2, <2>3, Copies, Zenon
  <2> HIDE DEF c
  <2>5. rb' \in RequestBuffers /\ rb'.at = rb.at /\ ~rb'.asked
    BY <2>1, <2>4, Zenon DEF RequestBuffers
  <2>6. rb'.mlen = c.mlen /\ rb'.strs = c.strs /\ rb'.copied = c.copied
    BY <2>1, <2>4, Zenon DEF RequestBuffers
  <2> QED
    BY <1>3, <2>4, <2>5, <2>6, Zenon DEF RBInv, RequestReadable, Kept
<1> QED
  BY <1>0, <1>1, <1>2, <1>3, Zenon DEF RequestBuffers

\* The second read of a form or of a WebSocket comes after set_current_size(0): the head is
\* written over, and it has been copied.
LEMMA RBReadsOn ==
    ASSUME RBInv, ReadsMultipart \/ ReadsFrame \/ ReadsBroken
    PROVE  RBInv'
<1> DEFINE g == Received(rb)
<1>0. rb \in RequestBuffers /\ rb.at \in {"multipart", "websocket"} /\ ~rb.asked
  BY Zenon DEF RBInv, ReadsMultipart, ReadsFrame, ReadsBroken, Reading
<1>1. Kept(rb)
  BY <1>0, Zenon DEF RBInv
<1>2. g \in RequestBuffers /\ g.at = rb.at /\ Kept(g)
  BY <1>0, <1>1, Receives, Zenon DEF Kept
<1> HIDE DEF g
<1>3. PICK r \in RequestBuffers, to \in {"multipart", "websocket", "broken"} :
          Kept(r) /\ rb' = Called(r, to)
  <2>1. CASE ReadsMultipart
    <3>1. PICK r \in Fits(g) : rb' = [r EXCEPT !.asked = TRUE]
      BY <2>1, Zenon DEF ReadsMultipart, g
    <3>2. r \in RequestBuffers /\ r.at = rb.at /\ Kept(r)
      BY <1>2, FitsKeeps, Zenon
    <3>3. [r EXCEPT !.asked = TRUE] = Called(r, rb.at)
      BY <3>2, Zenon DEF RequestBuffers, Called
    <3> QED
      BY <1>0, <3>1, <3>2, <3>3, Zenon
  <2>2. CASE ReadsFrame
    <3>1. rb' = [g EXCEPT !.asked = TRUE]
      BY <2>2, Zenon DEF ReadsFrame, g
    <3>2. [g EXCEPT !.asked = TRUE] = Called(g, rb.at)
      BY <1>2, Zenon DEF RequestBuffers, Called
    <3> QED
      BY <1>0, <1>2, <3>1, <3>2, Zenon
  <2>3. CASE ReadsBroken
    BY <1>2, <2>3, Zenon DEF ReadsBroken, g, Called
  <2> QED
    BY <2>1, <2>2, <2>3, Zenon
<1>4. /\ rb' \in RequestBuffers /\ rb'.asked /\ rb'.at = to
      /\ rb'.mlen = r.mlen /\ rb'.strs = r.strs /\ rb'.copied = r.copied
  BY <1>3, CallingKeeps
<1>5. Kept(rb')
  BY <1>3, <1>4, Zenon DEF Kept
<1> QED
  BY <1>3, <1>4, <1>5, Zenon DEF RBInv, RequestReadable, get_url_ok, get_header_value_ok, Kept

(* Whenever user code runs, the url, the method and the headers it asks the request for are   *)
(* those of the head that was parsed: copy_method_url_headers has run before the first read   *)
(* that writes over them and before the first move of buf_ that would leave the views behind. *)
THEOREM RequestStaysReadable == RBSpec => []RequestReadable
<1>1. RBInv /\ [RBNext]_rbVars => RBInv'
  <2> SUFFICES ASSUME RBInv, [RBNext]_rbVars PROVE RBInv'
    BY Zenon
  <2>1. CASE RBNext
    BY <2>1, RBReads, RBReturns, RBReadsOn, Zenon DEF RBNext
  <2>2. CASE UNCHANGED rbVars
    BY <2>2, Zenon DEF rbVars, RBInv, RequestReadable
  <2> QED
    BY <2>1, <2>2, Zenon
<1>2. RBInv => RequestReadable
  BY Zenon DEF RBInv
<1> QED
  BY RBInitially, <1>1, <1>2, PTL DEF RBSpec

-----------------------------------------------------------------------------
(***************************************************************************)
(* Download.                                                               *)
(***************************************************************************)

\* The states of a download.
Downloads ==
    [type : {"CHUNKED", "ACCEPT_RANGES"}, size : Nat, start : Nat, range : Int,
     state : {"data_begin", "data_continue", "data_end", "done", "notfound", "bad"},
     in : Nat \cup {Failed}, work : BOOLEAN, from : Int, length : Int, body : Seq(Int), sizes : Seq(Nat)]

\* The bytes behind position p of a file of n bytes, and the smaller of two numbers.
Remains(p, n) == IF p < n THEN n - p ELSE 0

\* The smaller of two numbers.
Shorter(m, n) == IF m < n THEN m ELSE n

\* The bytes b are the first ones behind position p of a file of n bytes.
Reads(b, p, n) ==
    /\ Len(b) <= Remains(p, n)
    /\ \A i \in 1..Len(b) : b[i] = p + i

\* No piece of a chunked body is empty, but the one that ends it.
Unended(z) == \A i \in 1..Len(z) : z[i] # 0

\* Chunk sizes with the last chunk, 0, at their end and nowhere else.
Ended(z) == Len(z) > 0 /\ z[Len(z)] = 0 /\ \A i \in 1..Len(z) - 1 : z[i] # 0

\* What holds between two calls of process_download: the stream stands behind the bytes that
\* were written.
Underway(d) ==
    /\ d.length = (IF d.type = "CHUNKED" THEN NoLength ELSE d.size)
    /\ d.type = "ACCEPT_RANGES" /\ d.start = NoHeader => d.from = 0
    /\ d.from >= 0 => d.in = d.from + Len(d.body) /\ Reads(d.body, d.from, d.size)

\* And once a short block has ended the file.
Complete(d) ==
    /\ d.from >= 0 => Len(d.body) = Remains(d.from, d.size)
    /\ d.type = "CHUNKED" => Ended(d.sizes)

\* The inductive invariant of a download.
DLInv ==
    /\ dl \in Downloads
    /\ dl.state = "data_begin" => dl.body = <<>> /\ dl.sizes = <<>> /\ dl.length = NoLength
    /\ dl.state \in {"data_continue", "data_end"} => Underway(dl)
    /\ dl.state = "data_continue" => (dl.type = "CHUNKED" => Unended(dl.sizes))
    /\ dl.state = "data_end" => Complete(dl)
    /\ DownloadExact

\* A download that begins satisfies the invariant.
LEMMA DLInitially == DLInit => DLInv
<1> SUFFICES ASSUME DLInit PROVE DLInv
  BY Zenon
<1>1. MaxFile \in Nat /\ NoHeader \in Nat
  BY DownloadAssumption DEF NoHeader
<1>2. dl \in Downloads
  <2>1. \A x \in 0..MaxFile : x \in Nat
    BY <1>1
  <2>2. \A x \in 1..MaxFile \cup {NoHeader} : x \in Nat
    BY <1>1
  <2>3. \A x \in Positions \cup {NoHeader} : x \in Int
    BY <1>1 DEF Positions
  <2>4. 0 \in Int /\ 0 \in Nat /\ NoLength \in Int /\ <<>> \in Seq(Int) /\ <<>> \in Seq(Nat)
    BY DEF NoLength
  <2> QED
    BY <2>1, <2>2, <2>3, <2>4, Zenon DEF DLInit, Downloads
<1>3. dl.state = "data_begin" /\ dl.body = <<>> /\ dl.sizes = <<>> /\ dl.length = NoLength
  BY Zenon DEF DLInit
<1> QED
  BY <1>2, <1>3, Zenon DEF DLInv, DownloadExact

\* What one read of the stream gives.
LEMMA BytesRead ==
    ASSUME NEW p \in Nat, NEW n \in Nat, dl \in Downloads
    PROVE  LET b == FileBytes(p, n)
           IN  /\ b \in Seq(Int)
               /\ Len(b) = Shorter(n, Left(p))
               /\ \A i \in 1..Len(b) : b[i] = p + i
<1>1. Left(p) \in Nat /\ p # Failed
  BY DEF Left, Failed, Downloads
<1> DEFINE k == Shorter(n, Left(p))
<1>2. k \in Nat
  BY <1>1, Zenon DEF Shorter
<1> HIDE DEF k
<1>3. \A i \in 1..k : p + i \in Int
  BY <1>2
<1>4. [i \in 1..k |-> p + i] \in Seq(Int) /\ Len([i \in 1..k |-> p + i]) = k
  BY <1>2, <1>3
<1>5. FileBytes(p, n) = [i \in 1..k |-> p + i]
  BY <1>1, Zenon DEF FileBytes, k, Shorter
<1> QED
  BY <1>2, <1>4, <1>5, Zenon DEF k

\* The first call: a small file goes out whole, and a large one is opened at the position that
\* is announced.
LEMMA DLBegins ==
    ASSUME DLInv, send_small_file \/ write_chunked_header \/ write_ranges_header
    PROVE  DLInv'
<1>0. dl \in Downloads /\ dl.state = "data_begin" /\ dl.body = <<>> /\ dl.sizes = <<>> /\ dl.length = NoLength
  BY Zenon DEF DLInv, send_small_file, write_chunked_header, write_ranges_header
<1>1. FirstPosition \in Nat /\ (dl.start = NoHeader => FirstPosition = 0)
  BY <1>0 DEF FirstPosition, seekg, Downloads, Failed
<1>2. CASE send_small_file
  <2> DEFINE b == FileBytes(FirstPosition, dl.size)
  <2>1. dl.size \in Nat
    BY <1>0, Zenon DEF Downloads
  <2>2. b \in Seq(Int) /\ Len(b) = Shorter(dl.size, Left(FirstPosition))
        /\ \A i \in 1..Len(b) : b[i] = FirstPosition + i
    BY <1>0, <1>1, <2>1, BytesRead, Zenon
  <2>3. Len(b) = Left(FirstPosition)
    BY <1>1, <2>1, <2>2 DEF Left, Shorter
  <2> HIDE DEF b
  <2>4. dl' = [dl EXCEPT !.state = "done", !.in = dl.size, !.from = FirstPosition,
                         !.length = Len(b), !.body = b, !.sizes = <<Len(b)>>]
    BY <1>2, Zenon DEF send_small_file, build_response_str, b
  <2>5. dl' \in Downloads /\ dl'.state = "done" /\ dl'.from = FirstPosition /\ dl'.length = Len(b)
        /\ dl'.body = b /\ dl'.size = dl.size
    <3>1. Len(b) \in Int /\ <<Len(b)>> \in Seq(Nat) /\ dl.size \in Int /\ FirstPosition \in Int
      BY <1>1, <2>1, <2>2
    <3> QED
      BY <1>0, <2>2, <2>4, <3>1, Zenon DEF Downloads
  <2>6. b = [i \in 1..Left(FirstPosition) |-> FirstPosition + i]
    BY <2>2, <2>3
  <2>7. Len(b) # NoLength
    BY <2>2 DEF NoLength
  <2>8. DownloadExact'
    BY <2>5, <2>6, <2>7, Zenon DEF DownloadExact, Left
  <2> QED
    BY <2>5, <2>8, Zenon DEF DLInv
<1>3. CASE write_chunked_header
  <2> DEFINE at == IF dl.range # NoHeader THEN dl.range ELSE FirstPosition
  <2>0. dl' = [dl EXCEPT !.state = "data_continue", !.work = TRUE, !.in = seekg(at), !.from = at]
    BY <1>3, Zenon DEF write_chunked_header
  <2>1. at \in Int
    BY <1>0, <1>1 DEF Downloads
  <2> HIDE DEF at
  <2>2. dl.type = "CHUNKED"
    BY <1>3, Zenon DEF write_chunked_header
  <2>3. seekg(at) \in Nat \cup {Failed} /\ (at >= 0 => seekg(at) = at)
    BY <2>1 DEF seekg, Failed
  <2>4. dl' \in Downloads /\ dl'.state = "data_continue" /\ dl'.from = at /\ dl'.in = seekg(at)
        /\ dl'.length = NoLength /\ dl'.body = <<>> /\ dl'.sizes = <<>> /\ dl'.type = "CHUNKED"
    BY <1>0, <2>0, <2>1, <2>2, <2>3, Zenon DEF Downloads
  <2>5. Underway(dl')
    BY <2>1, <2>3, <2>4 DEF Underway, Reads, Remains, Downloads
  <2>6. Unended(dl'.sizes)
    BY <2>4 DEF Unended
  <2> QED
    BY <2>4, <2>5, <2>6, Zenon DEF DLInv, DownloadExact
<1>4. CASE write_ranges_header
  <2>1. dl.type = "ACCEPT_RANGES"
        /\ dl' = [dl EXCEPT !.state = "data_continue", !.work = TRUE,
                        !.in = FirstPosition, !.from = FirstPosition, !.length = dl.size]
    BY <1>4, Zenon DEF write_ranges_header
  <2>2. dl' \in Downloads /\ dl'.state = "data_continue" /\ dl'.from = FirstPosition /\ dl'.in = FirstPosition
        /\ dl'.length = dl.size /\ dl'.size = dl.size /\ dl'.body = <<>> /\ dl'.sizes = <<>> /\ dl'.start = dl.start
        /\ dl'.type = "ACCEPT_RANGES"
    <3>1. dl.size \in Int /\ FirstPosition \in Int /\ FirstPosition \in Nat
      BY <1>0, <1>1 DEF Downloads
    <3> QED
      BY <1>0, <2>1, <3>1, Zenon DEF Downloads
  <2>3. Underway(dl')
    BY <1>1, <2>2 DEF Underway, Reads, Remains, Downloads
  <2> QED
    BY <2>2, <2>3, Zenon DEF DLInv, DownloadExact
<1> QED
  BY <1>2, <1>3, <1>4, Zenon

\* The elements of two sequences one behind the other.
LEMMA JoinIs ==
    ASSUME NEW S, NEW b \in Seq(S), NEW c \in Seq(S)
    PROVE  /\ b \o c \in Seq(S) /\ Len(b) \in Nat /\ Len(c) \in Nat /\ Len(b \o c) = Len(b) + Len(c)
           /\ \A i \in 1..Len(b) : (b \o c)[i] = b[i]
           /\ \A i \in 1..Len(c) : (b \o c)[Len(b) + i] = c[i]
  OBVIOUS

\* The bytes of a sequence behind another.
LEMMA BytesJoin ==
    ASSUME NEW b \in Seq(Int), NEW c \in Seq(Int)
    PROVE  /\ b \o c \in Seq(Int) /\ Len(b) \in Nat /\ Len(c) \in Nat /\ Len(b \o c) = Len(b) + Len(c)
           /\ \A i \in 1..Len(b) : (b \o c)[i] = b[i]
           /\ \A i \in 1..Len(c) : (b \o c)[Len(b) + i] = c[i]
  BY JoinIs

\* A sequence of bytes is the function it is.
LEMMA BytesAre ==
    ASSUME NEW b \in Seq(Int), NEW p \in Int, \A i \in 1..Len(b) : b[i] = p + i
    PROVE  b = [i \in 1..Len(b) |-> p + i]
  OBVIOUS

\* Pieces behind pieces none of which is empty: their last one alone decides.
LEMMA PiecesBehind ==
    ASSUME NEW z \in Seq(Nat), Unended(z), NEW t \in Seq(Nat)
    PROVE  /\ z \o t \in Seq(Nat)
           /\ Unended(t) => Unended(z \o t)
           /\ Ended(t) => Ended(z \o t)
<1> DEFINE y == z \o t
<1>1. /\ y \in Seq(Nat) /\ Len(z) \in Nat /\ Len(t) \in Nat /\ Len(y) = Len(z) + Len(t)
      /\ \A i \in 1..Len(z) : y[i] = z[i]
      /\ \A i \in 1..Len(t) : y[Len(z) + i] = t[i]
  BY JoinIs
<1> HIDE DEF y
<1>2. \A i \in 1..Len(y) : i \in 1..Len(z) \/ (i - Len(z) \in 1..Len(t) /\ i = Len(z) + (i - Len(z)))
  BY <1>1
<1>3. \A i \in 1..Len(y) : (i \in 1..Len(z) /\ y[i] = z[i]) \/ (i - Len(z) \in 1..Len(t) /\ y[i] = t[i - Len(z)])
  BY <1>1, <1>2, Zenon
<1>4. Unended(t) => Unended(y)
  BY <1>3, Zenon DEF Unended
<1>5. ASSUME Ended(t) PROVE Ended(y)
  <2>1. Len(t) \in 1..Len(t) /\ Len(y) > 0 /\ Len(y) = Len(z) + Len(t)
    BY <1>1, <1>5 DEF Ended
  <2>2. y[Len(y)] = 0
    BY <1>1, <1>5, <2>1, Zenon DEF Ended
  <2>3. \A i \in 1..Len(y) - 1 : i \in 1..Len(y) /\ (i - Len(z) \in 1..Len(t) => i - Len(z) \in 1..Len(t) - 1)
    BY <1>1, <2>1
  <2>4. \A i \in 1..Len(y) - 1 : y[i] # 0
    BY <1>3, <1>5, <2>3, Zenon DEF Unended, Ended
  <2> QED
    BY <2>1, <2>2, <2>4, Zenon DEF Ended
<1> QED
  BY <1>1, <1>4, <1>5, Zenon DEF y

\* The sizes of the chunks of one block, which is empty only at the end.
LEMMA ChunksOf ==
    ASSUME NEW data \in Seq(Int), NEW e \in BOOLEAN, Len(data) = 0 => e
    PROVE  LET t == to_chunked_buffers(data, e)
           IN  t \in Seq(Nat) /\ (e => Ended(t)) /\ (~e => Unended(t))
<1>1. Len(data) \in Nat
  OBVIOUS
<1>2. <<0>> \in Seq(Nat) /\ Ended(<<0>>) /\ <<>> \in Seq(Nat) /\ Unended(<<>>)
  <2>1. <<0>> \in Seq(Nat) /\ Len(<<0>>) = 1 /\ <<0>>[1] = 0 /\ <<>> \in Seq(Nat) /\ Len(<<>>) = 0
    OBVIOUS
  <2> QED
    BY <2>1 DEF Ended, Unended
<1>3. CASE Len(data) > 0
  <2> DEFINE d == <<Len(data)>>
  <2>1. d \in Seq(Nat) /\ Unended(d)
    BY <1>1, <1>3 DEF Unended
  <2>2. to_chunked_buffers(data, e) = d \o (IF e THEN <<0>> ELSE <<>>)
    BY <1>3, Zenon DEF to_chunked_buffers
  <2> HIDE DEF d
  <2> QED
    BY <1>2, <2>1, <2>2, PiecesBehind, Zenon
<1>4. CASE ~(Len(data) > 0)
  <2>1. e /\ to_chunked_buffers(data, e) = <<>> \o <<0>>
    BY <1>1, <1>4 DEF to_chunked_buffers
  <2> QED
    BY <1>2, <2>1, PiecesBehind, Zenon
<1> QED
  BY <1>3, <1>4, Zenon

\* What a call reads behind the bytes b.
NextBlock(data, b, from, size) ==
    /\ Len(data) = Shorter(Block, Remains(from + Len(b), size))
    /\ \A i \in 1..Len(data) : data[i] = (from + Len(b)) + i

\* One more block, and whether it was the last.
LEMMA BlockBehind ==
    ASSUME NEW b \in Seq(Int), NEW from \in Nat, NEW size \in Nat, Reads(b, from, size),
           NEW data \in Seq(Int), NextBlock(data, b, from, size)
    PROVE  /\ b \o data \in Seq(Int) /\ Len(b \o data) = Len(b) + Len(data)
           /\ Reads(b \o data, from, size)
           /\ Eof(data) => Len(b \o data) = Remains(from, size)
<1> DEFINE y == b \o data
<1>0. /\ Len(data) = Shorter(Block, Remains(from + Len(b), size))
      /\ \A i \in 1..Len(data) : data[i] = (from + Len(b)) + i
  BY Zenon DEF NextBlock
<1>1. Block \in Nat /\ Block > 0
  BY DownloadAssumption
<1>2. /\ y \in Seq(Int) /\ Len(b) \in Nat /\ Len(data) \in Nat /\ Len(y) = Len(b) + Len(data)
      /\ \A i \in 1..Len(b) : y[i] = b[i]
      /\ \A i \in 1..Len(data) : y[Len(b) + i] = data[i]
  BY BytesJoin, Zenon
<1> HIDE DEF y
<1>3. Len(b) <= Remains(from, size) /\ \A i \in 1..Len(b) : b[i] = from + i
  BY Zenon DEF Reads
<1>4. Len(b) + Len(data) <= Remains(from, size)
  BY <1>0, <1>1, <1>2, <1>3, SMTT(30) DEF Remains, Shorter
<1>5. \A i \in 1..Len(y) : y[i] = from + i
  <2> SUFFICES ASSUME NEW i \in 1..Len(y) PROVE y[i] = from + i
    BY Zenon
  <2>1. CASE i <= Len(b)
    <3>1. i \in 1..Len(b)
      BY <1>2, <2>1
    <3> QED
      BY <1>2, <1>3, <3>1, Zenon
  <2>2. CASE i > Len(b)
    <3>0. Len(b) \in Nat /\ Len(data) \in Nat /\ i \in Nat /\ i <= Len(b) + Len(data)
      BY <1>2
    <3>1. i - Len(b) \in 1..Len(data) /\ i = Len(b) + (i - Len(b)) /\ (from + Len(b)) + (i - Len(b)) = from + i
      BY <2>2, <3>0
    <3> QED
      BY <1>0, <1>2, <3>1, Zenon
  <2> QED
    BY <1>2, <2>1, <2>2
<1>6. Eof(data) => Len(b) + Len(data) = Remains(from, size)
  BY <1>0, <1>1, <1>2, <1>3 DEF Eof, Remains, Shorter
<1> QED
  BY <1>2, <1>4, <1>5, <1>6, Zenon DEF Reads, y

\* A later call.
LEMMA DLGoesOn ==
    ASSUME DLInv, write_chunked_body \/ write_ranges_data
    PROVE  DLInv'
<1> DEFINE data   == get_send_data
           pieces == IF dl.type = "CHUNKED" THEN to_chunked_buffers(data, Eof(data)) ELSE <<Len(data)>>
<1>0. /\ dl \in Downloads /\ dl.state = "data_continue" /\ Underway(dl)
      /\ dl.type = "CHUNKED" => Unended(dl.sizes)
  BY Zenon DEF DLInv, write_chunked_body, write_ranges_data
<1>1. dl' = [dl EXCEPT !.in = Behind(data), !.body = dl.body \o data, !.sizes = dl.sizes \o pieces,
                       !.state = IF Eof(data) THEN "data_end" ELSE "data_continue"]
  <2>1. CASE write_chunked_body
    BY <2>1, Zenon DEF write_chunked_body, Continues
  <2>2. CASE write_ranges_data
    <3>1. dl.type # "CHUNKED" /\ Continues(<<Len(data)>>)
      BY <2>2, Zenon DEF write_ranges_data
    <3> QED
      BY <3>1, Zenon DEF Continues
  <2> QED
    BY <2>1, <2>2, Zenon
<1>2. dl.size \in Nat /\ dl.from \in Int /\ dl.in \in Nat \cup {Failed} /\ dl.body \in Seq(Int) /\ dl.sizes \in Seq(Nat)
  BY <1>0, Zenon DEF Downloads
<1>3. data \in Seq(Int) /\ Behind(data) \in Nat \cup {Failed} /\ (Len(data) = 0 => Eof(data))
      /\ Eof(data) \in BOOLEAN
  <2>0. Block \in Nat /\ (Len(data) = 0 => Eof(data)) /\ Eof(data) \in BOOLEAN
    BY DownloadAssumption, Zenon DEF Eof
  <2>1. CASE dl.in = Failed
    <3>1. data = <<>> /\ Behind(data) = Failed
      BY <2>1, Zenon DEF get_send_data, FileBytes, Behind
    <3> QED
      BY <2>0, <3>1
  <2>2. CASE dl.in # Failed
    <3>1. dl.in \in Nat /\ data = FileBytes(dl.in, Block) /\ Behind(data) = dl.in + Len(data)
      BY <1>2, <2>2, Zenon DEF get_send_data, Behind
    <3>2. data \in Seq(Int)
      BY <1>0, <2>0, <3>1, BytesRead, Zenon
    <3> HIDE DEF data
    <3>3. dl.in + Len(data) \in Nat
      BY <3>1, <3>2
    <3> QED
      BY <2>0, <3>1, <3>2, <3>3, Zenon
  <2> QED
    BY <2>1, <2>2, Zenon
<1>4. /\ dl.sizes \o pieces \in Seq(Nat)
      /\ dl.type = "CHUNKED" => /\ Eof(data) => Ended(dl.sizes \o pieces)
                                /\ ~Eof(data) => Unended(dl.sizes \o pieces)
  <2>1. CASE dl.type = "CHUNKED"
    <3>1. pieces = to_chunked_buffers(data, Eof(data))
      BY <2>1, Zenon
    <3>2. pieces \in Seq(Nat) /\ (Eof(data) => Ended(pieces)) /\ (~Eof(data) => Unended(pieces))
      BY <1>3, <3>1, ChunksOf, Zenon
    <3> HIDE DEF pieces
    <3> QED
      BY <1>0, <1>2, <2>1, <3>2, PiecesBehind, Zenon
  <2>2. CASE dl.type # "CHUNKED"
    <3>1. pieces = <<Len(data)>>
      BY <2>2, Zenon
    <3> HIDE DEF pieces, data
    <3>2. pieces \in Seq(Nat)
      BY <1>3, <3>1
    <3> QED
      BY <1>2, <2>2, <3>2, JoinIs, Zenon
  <2> QED
    BY <2>1, <2>2, Zenon
<1>5. ASSUME dl.from >= 0
      PROVE  /\ Behind(data) = dl.from + Len(dl.body \o data)
             /\ Reads(dl.body \o data, dl.from, dl.size)
             /\ Eof(data) => Len(dl.body \o data) = Remains(dl.from, dl.size)
  <2>1. dl.from \in Nat /\ dl.in = dl.from + Len(dl.body) /\ Reads(dl.body, dl.from, dl.size)
    BY <1>0, <1>2, <1>5 DEF Underway
  <2>2. dl.in \in Nat /\ dl.in # Failed /\ Block \in Nat
    BY <1>2, <2>1, DownloadAssumption DEF Failed
  <2>3. data = FileBytes(dl.in, Block) /\ Behind(data) = dl.in + Len(data)
    BY <2>2, Zenon DEF get_send_data, Behind
  <2>4. /\ Len(data) = Shorter(Block, Left(dl.in))
        /\ \A i \in 1..Len(data) : data[i] = dl.in + i
    BY <1>0, <2>2, <2>3, BytesRead, Zenon
  <2>5. Left(dl.in) \in Nat /\ Left(dl.in) = Remains(dl.in, dl.size)
    BY <1>2, <2>2 DEF Left, Remains
  <2> HIDE DEF data
  <2>6. /\ Len(dl.body \o data) = Len(dl.body) + Len(data)
        /\ Reads(dl.body \o data, dl.from, dl.size)
        /\ Eof(data) => Len(dl.body \o data) = Remains(dl.from, dl.size)
    <3>1. NextBlock(data, dl.body, dl.from, dl.size)
      BY <2>1, <2>4, <2>5, Zenon DEF NextBlock
    <3>2. /\ dl.body \in Seq(Int) /\ dl.from \in Nat /\ dl.size \in Nat /\ data \in Seq(Int)
          /\ Reads(dl.body, dl.from, dl.size)
      BY <1>2, <1>3, <2>1, Zenon
    <3> DEFINE body == dl.body
               from == dl.from
               size == dl.size
    <3> HIDE DEF body, from, size
    <3>3. /\ body \in Seq(Int) /\ from \in Nat /\ size \in Nat /\ data \in Seq(Int)
          /\ Reads(body, from, size) /\ NextBlock(data, body, from, size)
      BY <3>1, <3>2, Zenon DEF body, from, size
    <3>4. /\ body \o data \in Seq(Int) /\ Len(body \o data) = Len(body) + Len(data)
          /\ Reads(body \o data, from, size)
          /\ Eof(data) => Len(body \o data) = Remains(from, size)
      BY <3>3, BlockBehind
    <3> QED
      BY <3>4, Zenon DEF body, from, size
  <2>7. Len(dl.body) \in Nat /\ Len(data) \in Nat
    BY <1>2, <1>3
  <2>8. Behind(data) = dl.from + Len(dl.body \o data)
    <3>1. dl.in = dl.from + Len(dl.body) /\ dl.from \in Nat
      BY <2>1, Zenon
    <3>2. Len(dl.body \o data) = Len(dl.body) + Len(data)
      BY <2>6, Zenon
    <3>3. dl.in + Len(data) = dl.from + (Len(dl.body) + Len(data))
      BY <2>7, <3>1
    <3> QED
      BY <2>3, <3>2, <3>3, Zenon
  <2> QED
    BY <2>6, <2>8, Zenon
<1>6. dl.body \o data \in Seq(Int)
  BY <1>2, <1>3, JoinIs, Zenon
<1> DEFINE new   == IF Eof(data) THEN "data_end" ELSE "data_continue"
           body  == dl.body \o data
           sizes == dl.sizes \o pieces
<1>7. new \in {"data_end", "data_continue"} /\ (new = "data_end" <=> Eof(data))
  BY <1>3, Zenon
<1> HIDE DEF data, pieces, new, body, sizes
<1>8. /\ dl' \in Downloads /\ dl'.state = new /\ dl'.in = Behind(data) /\ dl'.body = body
      /\ dl'.sizes = sizes /\ dl'.type = dl.type /\ dl'.size = dl.size /\ dl'.start = dl.start
      /\ dl'.from = dl.from /\ dl'.length = dl.length
  <2>1. dl' = [dl EXCEPT !.in = Behind(data), !.body = body, !.sizes = sizes, !.state = new]
    BY <1>1, Zenon DEF new, body, sizes
  <2>2. Behind(data) \in Nat \cup {Failed} /\ body \in Seq(Int) /\ sizes \in Seq(Nat)
        /\ new \in {"data_begin", "data_continue", "data_end", "done", "notfound", "bad"}
    BY <1>3, <1>4, <1>6, <1>7, Zenon DEF body, sizes
  <2> QED
    BY <1>0, <2>1, <2>2, Zenon DEF Downloads
<1>9. Underway(dl')
  BY <1>0, <1>5, <1>8, Zenon DEF Underway, body
<1>10. new = "data_end" => Complete(dl')
  BY <1>4, <1>5, <1>7, <1>8, Zenon DEF Complete, body, sizes
<1>11. new = "data_continue" => (dl'.type = "CHUNKED" => Unended(dl'.sizes))
  BY <1>4, <1>7, <1>8, Zenon DEF sizes
<1> QED
  BY <1>7, <1>8, <1>9, <1>10, <1>11, Zenon DEF DLInv, DownloadExact

\* The last call, and the two that answer with an error.
LEMMA DLFinishes ==
    ASSUME DLInv, data_end \/ refused \/ not_found
    PROVE  DLInv'
<1>0. dl \in Downloads
  BY Zenon DEF DLInv
<1>1. CASE data_end
  <2>1. Underway(dl) /\ Complete(dl)
    BY <1>1, Zenon DEF DLInv, data_end
  <2>2. dl' = [dl EXCEPT !.work = FALSE, !.state = "done"]
    BY <1>1, Zenon DEF data_end
  <2>3. /\ dl' \in Downloads /\ dl'.state = "done" /\ dl'.body = dl.body
        /\ dl'.sizes = dl.sizes /\ dl'.size = dl.size /\ dl'.start = dl.start
        /\ dl'.from = dl.from /\ dl'.length = dl.length
    BY <1>0, <2>2, Zenon DEF Downloads
  <2>4. dl.size \in Nat /\ dl.from \in Int /\ dl.body \in Seq(Int) /\ dl.sizes \in Seq(Nat)
        /\ dl.type \in {"CHUNKED", "ACCEPT_RANGES"}
    BY <1>0, Zenon DEF Downloads
  <2>5. ASSUME dl.from >= 0 PROVE dl.body = [i \in 1..Left(dl.from) |-> dl.from + i]
    <3>1. Len(dl.body) = Left(dl.from) /\ \A i \in 1..Len(dl.body) : dl.body[i] = dl.from + i
      BY <2>1, <2>5, Zenon DEF Complete, Underway, Reads, Left, Remains
    <3> QED
      BY <2>4, <3>1, BytesAre, Zenon
  <2>6. Left(dl.from)' = Left(dl.from)
    BY <2>3, Zenon DEF Left
  <2>7. ASSUME dl.length = NoLength
        PROVE  {i \in DOMAIN dl.sizes : dl.sizes[i] = 0} = {Len(dl.sizes)}
    <3>1. dl.type = "CHUNKED"
      BY <2>1, <2>4, <2>7 DEF Underway, NoLength
    <3>2. Ended(dl.sizes)
      BY <2>1, <3>1, Zenon DEF Complete
    <3>3. Len(dl.sizes) \in Nat /\ DOMAIN dl.sizes = 1..Len(dl.sizes)
      BY <2>4
    <3> QED
      BY <3>2, <3>3 DEF Ended
  <2>8. ASSUME dl.length # NoLength, dl.start = NoHeader, dl.from >= 0
        PROVE  dl.length = Len(dl.body)
    <3>1. dl.type = "ACCEPT_RANGES"
      BY <2>1, <2>4, <2>8, Zenon DEF Underway
    <3>2. dl.from = 0 /\ dl.length = dl.size
      BY <2>1, <2>8, <3>1, Zenon DEF Underway
    <3>3. Len(dl.body) = Remains(0, dl.size)
      BY <2>1, <2>8, <3>2, Zenon DEF Complete
    <3> QED
      BY <2>4, <3>2, <3>3 DEF Remains
  <2> QED
    BY <2>3, <2>5, <2>6, <2>7, <2>8 DEF DLInv, DownloadExact
<1>2. CASE refused \/ not_found
  <2>1. PICK s \in {"bad", "notfound"} : dl' = [dl EXCEPT !.state = s]
    BY <1>2, Zenon DEF refused, not_found
  <2>2. dl' \in Downloads /\ dl'.state = s
    BY <1>0, <2>1, Zenon DEF Downloads
  <2> QED
    BY <2>1, <2>2, Zenon DEF DLInv, DownloadExact
<1> QED
  BY <1>1, <1>2, Zenon

(* A download that ended gave the client the bytes of the file from the announced position to *)
(* its end, none lost and none twice between two calls of process_download, with the chunk of *)
(* size zero at the end of a chunked body and nowhere else, and with the announced length:    *)
(* whatever the sizes of the file, of a block and of what counts as small are.                *)
THEOREM DownloadsWhole == DLSpec => []DownloadExact
<1>1. DLInv /\ [DLNext]_dlVars => DLInv'
  <2> SUFFICES ASSUME DLInv, [DLNext]_dlVars PROVE DLInv'
    BY Zenon
  <2>1. CASE DLNext
    BY <2>1, DLBegins, DLGoesOn, DLFinishes, Zenon DEF DLNext
  <2>2. CASE UNCHANGED dlVars
    BY <2>2, Zenon DEF dlVars, DLInv, DownloadExact, Left
  <2> QED
    BY <2>1, <2>2, Zenon
<1>2. DLInv => DownloadExact
  BY Zenon DEF DLInv
<1> QED
  BY DLInitially, <1>1, <1>2, PTL DEF DLSpec
=============================================================================
