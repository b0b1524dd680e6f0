----------------------------- MODULE ThreadPool -----------------------------
(***************************************************************************)
(* THREAD_POOL::threadpool: commit(), the loop of a worker and the         *)
(* destructor.  A worker that holds _lock either takes a task and lets go  *)
(* of it, or has found nothing and is about to wait on _task_cv: so _lock  *)
(* is held between two steps only by a worker at "park".                   *)
(***************************************************************************)
EXTENDS Naturals, Sequences

CONSTANTS
    Workers,    \* the threads of _pool
    Callers,    \* the threads that call commit()
    Tasks,      \* what they commit
    MaxTasks,   \* bound: tasks in the queue
    Null

ASSUME PoolAssumption == Null \notin Tasks /\ MaxTasks \in Nat /\ Workers # {}

VARIABLES
    run,        \* _run
    tasks,      \* _tasks
    at,         \* where a worker is
    task,       \* the task a worker runs
    call,       \* how far a caller is in commit()
    arg,        \* the task it commits
    dtor        \* how far the destructor is

poolVars == <<run, tasks, at, task, call, arg, dtor>>

PoolTypeOK ==
    /\ run \in BOOLEAN
    /\ tasks \in Seq(Tasks)
    /\ at \in [Workers -> {"loop", "lock", "park", "wait", "run", "exited"}]
    /\ task \in [Workers -> Tasks \cup {Null}]
    /\ call \in [Callers -> {"out", "push", "notify"}]
    /\ arg \in [Callers -> Tasks \cup {Null}]
    /\ dtor \in {"no", "notify", "join", "done"}

PoolInit ==
    /\ run = TRUE
    /\ tasks = <<>>
    /\ at = [w \in Workers |-> "loop"]
    /\ task = [w \in Workers |-> Null]
    /\ call = [c \in Callers |-> "out"]
    /\ arg = [c \in Callers |-> Null]
    /\ dtor = "no"

\* Mutant: commit() does not take _lock.
NeverLocked == FALSE

Locked == \E w \in Workers : at[w] = "park"

\* Mutant: commit() does not notify.
NobodyWoken == {at}

\* notify_one: one of the waiting workers, if there is one, wants _lock again.
WokenOne ==
    LET waiting == {w \in Workers : at[w] = "wait"}
    IN  IF waiting = {} THEN {at} ELSE {[at EXCEPT ![w] = "lock"] : w \in waiting}

-----------------------------------------------------------------------------
\* commit() throws when the pool is stopped.
Commit(c, t) ==
    /\ call[c] = "out" /\ run
    /\ call' = [call EXCEPT ![c] = "push"]
    /\ arg' = [arg EXCEPT ![c] = t]
    /\ UNCHANGED <<run, tasks, at, task, dtor>>

Push(c) ==
    /\ call[c] = "push" /\ ~Locked /\ Len(tasks) < MaxTasks
    /\ tasks' = Append(tasks, arg[c])
    /\ call' = [call EXCEPT ![c] = "notify"]
    /\ UNCHANGED <<run, at, task, arg, dtor>>

NotifyOne(c) ==
    /\ call[c] = "notify"
    /\ at' \in WokenOne
    /\ call' = [call EXCEPT ![c] = "out"]
    /\ arg' = [arg EXCEPT ![c] = Null]
    /\ UNCHANGED <<run, tasks, task, dtor>>

\* while ( run )
Again(w) ==
    /\ at[w] = "loop"
    /\ at' = [at EXCEPT ![w] = IF run THEN "lock" ELSE "exited"]
    /\ UNCHANGED <<run, tasks, task, call, arg, dtor>>

\* Nothing to do: the worker still holds _lock and is about to wait.
FindNothing(w) ==
    /\ at[w] = "lock" /\ ~Locked /\ run /\ tasks = <<>>
    /\ at' = [at EXCEPT ![w] = "park"]
    /\ UNCHANGED <<run, tasks, task, call, arg, dtor>>

\* Waiting begins and _lock is free in one step.
Park(w) ==
    /\ at[w] = "park"
    /\ at' = [at EXCEPT ![w] = "wait"]
    /\ UNCHANGED <<run, tasks, task, call, arg, dtor>>

\* A condition variable may wake a thread for no reason.
WakeUp(w) ==
    /\ at[w] = "wait"
    /\ at' = [at EXCEPT ![w] = "lock"]
    /\ UNCHANGED <<run, tasks, task, call, arg, dtor>>

Take(w) ==
    /\ at[w] = "lock" /\ ~Locked /\ tasks # <<>>
    /\ task' = [task EXCEPT ![w] = Head(tasks)]
    /\ tasks' = Tail(tasks)
    /\ at' = [at EXCEPT ![w] = "run"]
    /\ UNCHANGED <<run, call, arg, dtor>>

Leave(w) ==
    /\ at[w] = "lock" /\ ~Locked /\ ~run /\ tasks = <<>>
    /\ at' = [at EXCEPT ![w] = "exited"]
    /\ UNCHANGED <<run, tasks, task, call, arg, dtor>>

\* The task of the worker has returned.
Finish(w) ==
    /\ at[w] = "run"
    /\ task' = [task EXCEPT ![w] = Null]
    /\ at' = [at EXCEPT ![w] = "loop"]
    /\ UNCHANGED <<run, tasks, call, arg, dtor>>

\* The destructor, which no caller of commit() may overlap, does not take _lock.
Stop ==
    /\ dtor = "no" /\ \A c \in Callers : call[c] = "out"
    /\ run' = FALSE
    /\ dtor' = "notify"
    /\ UNCHANGED <<tasks, at, task, call, arg>>

NotifyAll ==
    /\ dtor = "notify"
    /\ at' = [w \in Workers |-> IF at[w] = "wait" THEN "lock" ELSE at[w]]
    /\ dtor' = "join"
    /\ UNCHANGED <<run, tasks, task, call, arg>>

Join ==
    /\ dtor = "join" /\ \A w \in Workers : at[w] = "exited"
    /\ dtor' = "done"
    /\ UNCHANGED <<run, tasks, at, task, call, arg>>

\* What a worker does of its own, the task apart.
Worker(w) == Again(w) \/ FindNothing(w) \/ Park(w) \/ Take(w) \/ Leave(w)

PoolNext ==
    \/ \E c \in Callers : (\E t \in Tasks : Commit(c, t)) \/ Push(c) \/ NotifyOne(c)
    \/ \E w \in Workers : Worker(w) \/ Finish(w) \/ WakeUp(w)
    \/ Stop \/ NotifyAll \/ Join

PoolSpec == PoolInit /\ [][PoolNext]_poolVars

\* Every thread runs on, and every task returns; a mutex that is free again and
\* again is got at last.  Nothing makes a thread wake up for no reason.
PoolFairness ==
    /\ \A c \in Callers : SF_poolVars(Push(c)) /\ WF_poolVars(NotifyOne(c))
    /\ \A w \in Workers : SF_poolVars(Worker(w)) /\ WF_poolVars(Finish(w))
    /\ WF_poolVars(NotifyAll) /\ WF_poolVars(Join)

FairPoolSpec == PoolSpec /\ PoolFairness

-----------------------------------------------------------------------------
\* A task in the queue has a worker that will look for it, or a caller that is
\* about to wake one: no worker goes to sleep on a queue that is being filled.
NoLostWakeup ==
    run /\ tasks # <<>> =>
        \/ \E w \in Workers : at[w] \in {"loop", "lock", "run"}
        \/ \E c \in Callers : call[c] = "notify"

\* The destructor returns: it wakes all workers and waits for all of them to end.
DtorReturns == (dtor = "notify") ~> (dtor = "done")
=============================================================================
