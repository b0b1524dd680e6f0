------------------------------ MODULE Sessions ------------------------------
(***************************************************************************)
(* The sessions, session_manager.hpp and session.hpp.                      *)
(*                                                                         *)
(* Threads create sessions under an id made of the time and of a counter;  *)
(* one thread removes the sessions that have expired; a user looks a       *)
(* session up, changes how long it lives, or deletes it.  mtx_ of the      *)
(* manager is held while the table changes.  The counter is atomic but     *)
(* incremented and read in two steps, and the time stamp of a session is   *)
(* guarded by a lock of its own, which check_expire does not take.         *)
(*                                                                         *)
(* One clock stands for the seconds of the time stamps and for the         *)
(* nanoseconds of the ids: two ids may be made within one of its ticks.    *)
(***************************************************************************)
EXTENDS Integers, Sequences, FiniteSets, Functions

CONSTANTS
    Creators,      \* the threads that create sessions
    Expires,       \* the expire arguments
    DefaultExpire, \* SESSION_DEFAULT_EXPIRE_, the default of create_session
    DefaultMaxAge, \* 86400, the default of set_max_age
    MaxAges,       \* the arguments of set_max_inactive_interval
    MaxSessions,   \* bound on the sessions created
    MaxUses,       \* bound on the calls of the user
    MaxClock       \* bound on the time

ASSUME SessionsAssumption ==
    Expires \subseteq Int /\ DefaultExpire \in Int /\ DefaultMaxAge \in Int /\ MaxAges \subseteq Int

(***************************************************************************)
(* ss: the manager.                                                        *)
(*   clock    the time                                                     *)
(*   max_age  max_age_, and least, the least it ever was                   *)
(*   id       the counter id_                                              *)
(*   map      map_: from ids to the sessions, by their number in all       *)
(*   all      every session made: its id, its time stamp, the thread that  *)
(*            made it and whether it is "made", "kept" in map_, "deleted"  *)
(*            by del_session, or "changed" when it was past saving         *)
(*   at       where each creator stands, with the time it read             *)
(*   sweep    check_expire: where it stands, the time it read, the         *)
(*            sessions to visit and the one to erase                       *)
(*   user     the session the user has looked up, or 0; calls: its calls   *)
(***************************************************************************)
VARIABLE ss

ssVars == <<ss>>

Unset == -1

Resting == [at |-> "idle", now |-> 0, left |-> {}, it |-> 0]

SSInit ==
    ss = [clock |-> 0, max_age |-> 0, least |-> 0, id |-> 0, map |-> <<>>, all |-> <<>>,
          at |-> [t \in Creators |-> <<"idle">>], sweep |-> Resting, user |-> 0,
          calls |-> 0]

Elapses == ss.clock < MaxClock /\ ss' = [ss EXCEPT !.clock = @ + 1]

set_max_inactive_interval(n) ==
    ss' = [ss EXCEPT !.max_age = n, !.least = IF n < @ \/ ss.all = <<>> THEN n ELSE @]

\* mtx_ is free.
Unlocked == ss.sweep.at \notin {"visit", "erase"}

-----------------------------------------------------------------------------
(***************************************************************************)
(* create_session, in three steps.                                         *)
(***************************************************************************)

\* The time is read, and id_++.
Begins(t) ==
    /\ ss.at[t] = <<"idle">>
    /\ Len(ss.all) + Cardinality({u \in Creators : ss.at[u][1] = "counted"}) < MaxSessions
    /\ ss' = [ss EXCEPT !.id = @ + 1, !.at[t] = <<"counted", ss.clock>>]

\* The overload that takes a host leaves the lifetime out unless it is given one.
Lifetimes == Expires \cup {Unset}

\* -1 asks for a default, which is not the same everywhere.
expire_(e, default) == IF e = Unset THEN default ELSE e

\* id_ is read again, and the constructor of session makes the time stamp.
Names(t, e) ==
    /\ ss.at[t][1] = "counted"
    /\ ss' = [ss EXCEPT !.all = Append(@, [uuid |-> <<ss.at[t][2], ss.id>>, by |-> t, state |-> "made",
                                           time_stamp |-> expire_(e, DefaultExpire) + ss.clock]),
                        !.at[t] = <<"named", Len(ss.all) + 1>>]

\* emplace, under the lock: a session that is there under the id stays.
Emplaced(map, uuid, s) == [u \in DOMAIN map \cup {uuid} |-> IF u \in DOMAIN map THEN map[u] ELSE s]

Inserts(t) ==
    /\ ss.at[t][1] = "named" /\ Unlocked
    /\ LET s == ss.at[t][2]
       IN  ss' = [ss EXCEPT !.map = Emplaced(@, ss.all[s].uuid, s), !.all[s].state = "kept",
                            !.at[t] = <<"idle">>]

-----------------------------------------------------------------------------
(***************************************************************************)
(* What users do with a session.                                           *)
(***************************************************************************)

get_session(uuid) ==
    /\ Unlocked /\ ss.user = 0 /\ ss.calls < MaxUses
    /\ uuid \in DOMAIN ss.map
    /\ ss' = [ss EXCEPT !.user = ss.map[uuid], !.calls = @ + 1]

\* The table without the entry of an id.
Erased(uuid) == [u \in DOMAIN ss.map \ {uuid} |-> ss.map[u]]

del_session(uuid) ==
    /\ Unlocked /\ ss.calls < MaxUses
    /\ uuid \in DOMAIN ss.map
    /\ ss' = [ss EXCEPT !.map = Erased(uuid), !.all[ss.map[uuid]].state = "deleted", !.calls = @ + 1]

\* Whether a session is out of the table, or check_expire has decided to erase it.
Leaving(s) ==
    \/ s \notin Range(ss.map)
    \/ ss.sweep.at = "erase" /\ ss.sweep.it = s

\* set_max_age, and remove with 0: under the lock of the session only.
set_max_age(e) ==
    /\ ss.user # 0
    /\ ss' = [ss EXCEPT !.all[ss.user] =
                  [ss.all[ss.user] EXCEPT
                      !.time_stamp = ss.clock + expire_(e, DefaultMaxAge),
                      !.state = IF Leaving(ss.user) THEN "changed" ELSE @],
                        !.user = 0]

-----------------------------------------------------------------------------
(***************************************************************************)
(* check_expire.                                                           *)
(***************************************************************************)

\* map_.empty() and the time, before the lock.
Looks ==
    /\ ss.sweep.at = "idle" /\ ss.map # <<>>
    /\ ss' = [ss EXCEPT !.sweep = [Resting EXCEPT !.at = "looked", !.now = ss.clock]]

Locks ==
    /\ ss.sweep.at = "looked"
    /\ ss' = [ss EXCEPT !.sweep = [@ EXCEPT !.at = "visit", !.left = Range(ss.map)]]

\* A comparison that is off by one removes a session in its last second.
expires_early(s) == ss.sweep.now - ss.all[s].time_stamp >= ss.max_age - 1

\* now - it->second->time_stamp() >= max_age_
Expired(s) == ss.sweep.now - ss.all[s].time_stamp >= ss.max_age

\* The order of the visits is that of the ids, which tells nothing about the stamps.
Visits(s) ==
    /\ ss.sweep.at = "visit" /\ s \in ss.sweep.left
    /\ LET left == ss.sweep.left \ {s}
       IN  ss' = [ss EXCEPT !.sweep = IF Expired(s)
                                      THEN [@ EXCEPT !.left = left, !.at = "erase", !.it = s]
                                      ELSE [@ EXCEPT !.left = left]]

Erases ==
    /\ ss.sweep.at = "erase"
    /\ ss' = [ss EXCEPT !.map = Erased(ss.all[ss.sweep.it].uuid), !.sweep = [@ EXCEPT !.at = "visit", !.it = 0]]

Unlocks ==
    /\ ss.sweep.at = "visit" /\ ss.sweep.left = {}
    /\ ss' = [ss EXCEPT !.sweep = Resting]

SSNext ==
    \/ Elapses
    \/ \E n \in MaxAges : set_max_inactive_interval(n)
    \/ \E t \in Creators : Begins(t) \/ Inserts(t) \/ \E e \in Lifetimes : Names(t, e)
    \/ \E u \in DOMAIN ss.map : get_session(u) \/ del_session(u)
    \/ \E e \in Lifetimes : set_max_age(e)
    \/ \E s \in Range(ss.map) : Visits(s)
    \/ Looks \/ Locks \/ Erases \/ Unlocks

SSSpec == SSInit /\ [][SSNext]_ssVars

-----------------------------------------------------------------------------
\* A session that was created, not deleted, and whose time stamp is not yet max_age_
\* in the past is found under its id, whatever check_expire removes meanwhile with
\* the time and the time stamps it read earlier.  Two exceptions are the code's:
\* another thread that created a session in the same tick may have read the same
\* counter (the increment and the read are two steps), and then emplace keeps the
\* first of them; and a lifetime prolonged once check_expire has decided is lost.
SessionsFound ==
    \A s \in DOMAIN ss.all :
        /\ ss.all[s].state = "kept"
        /\ ss.clock - ss.all[s].time_stamp < ss.least
        => \/ ss.all[s].uuid \in DOMAIN ss.map /\ ss.map[ss.all[s].uuid] = s
           \/ \E r \in DOMAIN ss.all : /\ ss.all[r].uuid = ss.all[s].uuid
                                       /\ ss.all[r].by # ss.all[s].by
=============================================================================
