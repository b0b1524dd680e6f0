------------------------------ MODULE FastCache ------------------------------
(***************************************************************************)
(* Fastcache of fastCache.hpp: callers and the thread that removes what has *)
(* expired, each under the mutex of one shard at a time.  The data of an    *)
(* item is the set of the values appended since it was set.                 *)
(***************************************************************************)
EXTENDS Integers

CONSTANTS
    Keys, Values,
    Shards,         \* a number, Shard_size
    ShardOf,        \* calc_index: from Keys to 1..Shards
    Durations,      \* the expirations callers ask for
    MaxNow          \* bound: the clock

\* Shard_size shards, calc_index gives one of them, and no item expires before it is put.
ASSUME CacheAssumption ==
    /\ Shards \in Nat
    /\ ShardOf \in [Keys -> 1..Shards]
    /\ Durations \subseteq Nat

Absent == [data |-> {}, expiration |-> -1]

VARIABLES
    now,            \* getNowSeconds()
    container,      \* the items of all shards
    sweeper,        \* expired_check_func: its now_time, and the next shard to go through
    run_flag

fcVars == <<now, container, sweeper, run_flag>>

Asleep == Shards + 1
Gone   == Shards + 2

FCInit ==
    /\ now = 1
    /\ container = [k \in Keys |-> Absent]
    /\ sweeper = [now_time |-> 0, shard |-> Asleep]
    /\ run_flag = TRUE

expired(item, time) == item # Absent /\ time > item.expiration

\* The clock of the system; it is not set back.
Tick == now < MaxNow /\ now' = now + 1 /\ UNCHANGED <<container, sweeper, run_flag>>

CacheItem(val, d) == [data |-> {val}, expiration |-> now + d]

Puts(key, item) ==
    run_flag /\ container' = [container EXCEPT ![key] = item] /\ UNCHANGED <<now, sweeper, run_flag>>

set(key, val, d) == Puts(key, CacheItem(val, d))

del(key) == Puts(key, Absent)

\* An item that has expired and is still there is found like any other.
new_expire(key, d) ==
    /\ container[key] # Absent
    /\ Puts(key, [container[key] EXCEPT !.expiration = now + d])

append(key, val, d) ==
    Puts(key, IF container[key] = Absent THEN CacheItem(val, d)
              ELSE [data |-> container[key].data \cup {val}, expiration |-> now + d])

\* get() returns the data, or removes an item it finds expired.
get_data(key) ==
    IF container[key] # Absent /\ ~expired(container[key], now) THEN container[key].data ELSE {}

get(key) == expired(container[key], now) /\ Puts(key, Absent)

-----------------------------------------------------------------------------
\* expired_check_func: after a second it reads the clock once for all shards.
sweep_begin ==
    /\ sweeper.shard = Asleep /\ run_flag
    /\ sweeper' = [now_time |-> now, shard |-> 1]
    /\ UNCHANGED <<now, container, run_flag>>

\* Mutant: an item that expires this second is removed with the others.
del_early_keys(s, time) ==
    [k \in Keys |-> IF ShardOf[k] = s /\ container[k] # Absent /\ time >= container[k].expiration
                    THEN Absent ELSE container[k]]

\* Mutant: an item is removed a second after it has expired.
del_late_keys(s, time) ==
    [k \in Keys |-> IF ShardOf[k] = s /\ expired(container[k], time - 1) THEN Absent ELSE container[k]]

del_expired_keys(s, time) ==
    [k \in Keys |-> IF ShardOf[k] = s /\ expired(container[k], time) THEN Absent ELSE container[k]]

sweep_shard ==
    /\ sweeper.shard \in 1..Shards
    /\ container' = del_expired_keys(sweeper.shard, sweeper.now_time)
    /\ sweeper' = [sweeper EXCEPT !.shard = @ + 1]
    /\ UNCHANGED <<now, run_flag>>

\* ~Fastcache: the thread ends its round and the next turn of its loop sees the flag.
destroy == run_flag /\ run_flag' = FALSE /\ UNCHANGED <<now, container, sweeper>>

sweep_end ==
    /\ sweeper.shard = Asleep /\ ~run_flag
    /\ sweeper' = [sweeper EXCEPT !.shard = Gone]
    /\ UNCHANGED <<now, container, run_flag>>

FCNext ==
    \/ Tick \/ destroy \/ sweep_begin \/ sweep_shard \/ sweep_end
    \/ \E k \in Keys : del(k) \/ get(k)
    \/ \E k \in Keys, d \in Durations : new_expire(k, d)
    \/ \E k \in Keys, d \in Durations, v \in Values : set(k, v, d) \/ append(k, v, d)

FCSpec == FCInit /\ [][FCNext]_fcVars

-----------------------------------------------------------------------------
\* The thread that cleans up takes nothing away that a caller could still get, although
\* its clock is the one of the beginning of its round and callers renew, replace and
\* append in between.
SweepKeeps == sweep_shard => \A k \in Keys : container'[k] # container[k] => get_data(k) = {}

OnlyExpiredRemoved == [][SweepKeeps]_fcVars

\* A round leaves nothing behind: in the shards it has been through, no item is left, or was
\* put there since, that had expired when the round began.  So an item is gone at the latest
\* when the round that begins after its time is over, whatever callers did meanwhile.
RoundComplete ==
    \A k \in Keys : ShardOf[k] < sweeper.shard => ~expired(container[k], sweeper.now_time)
=============================================================================
