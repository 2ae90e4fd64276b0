------------------------------ MODULE TaskPool ------------------------------
(***************************************************************************)
(* The event pool of lib/middleware/pool.go.  Every gateway event, webhook *)
(* event and command handler is a task handed to Go.  One Go call is made  *)
(* per task, by a goroutine of its own, so a task also names that call and *)
(* the worker the call may start (a call starts at most one).              *)
(*                                                                         *)
(* Each atomic access of the code is a step: the channel send, the two     *)
(* reads of the sizing test, the compare-and-swap, the go statement, the   *)
(* worker's select and its deferred decrement.                             *)
(***************************************************************************)
EXTENDS Naturals, Sequences, FiniteSets

CONSTANTS
    Tasks,      \* the tasks handed to the pool, one Go call each
    NoTask,     \* a worker that executes nothing
    QueueCap,   \* poolQueue: capacity of the tasks channel
    PoolMax     \* poolMax: limit of workers

ASSUME PoolAssumption ==
    /\ NoTask \notin Tasks
    /\ QueueCap \in Nat \ {0}
    /\ PoolMax \in Nat \ {0}

VARIABLES
    queue,    \* the buffered channel tasks
    alive,    \* the atomic counter alive
    call,     \* where the Go call of a task stands
    loaded,   \* n, the value of alive the call has loaded
    worker,   \* the worker that the call of a task started
    job,      \* the task a worker executes
    direct,   \* tasks executed by a goroutine of their own (queue full)
    ran       \* history: completed executions per task

vars == <<queue, alive, call, loaded, worker, job, direct, ran>>

CallStates   == {"new", "load", "compare", "cas", "spawn", "returned"}
WorkerStates == {"none", "select", "busy", "leaving", "gone"}

Init ==
    /\ queue = <<>>
    /\ alive = 0
    /\ call = [t \in Tasks |-> "new"]
    /\ loaded = [t \in Tasks |-> 0]
    /\ worker = [t \in Tasks |-> "none"]
    /\ job = [t \in Tasks |-> NoTask]
    /\ direct = {}
    /\ ran = [t \in Tasks |-> 0]

Elems(q) == {q[i] : i \in 1..Len(q)}
Distinct(q) == \A i, j \in 1..Len(q) : q[i] = q[j] => i = j

Queued == Elems(queue)
Held   == {job[w] : w \in Tasks} \ {NoTask}

-----------------------------------------------------------------------------
\* Go: the send of "select { case p.tasks <- f: ... default: ... }".
SendNoCapMutant(t) ==
    /\ call[t] = "new"
    /\ queue' = Append(queue, t)
    /\ call' = [call EXCEPT ![t] = "load"]
    /\ UNCHANGED <<alive, loaded, worker, job, direct, ran>>

Send(t) ==
    /\ call[t] = "new"
    /\ Len(queue) < QueueCap
    /\ queue' = Append(queue, t)
    /\ call' = [call EXCEPT ![t] = "load"]
    /\ UNCHANGED <<alive, loaded, worker, job, direct, ran>>

\* Go: the default branch, "go p.exec(f); return".
RunDirect(t) ==
    /\ call[t] = "new"
    /\ Len(queue) = QueueCap
    /\ direct' = direct \cup {t}
    /\ call' = [call EXCEPT ![t] = "returned"]
    /\ UNCHANGED <<queue, alive, loaded, worker, job, ran>>

\* Go: n := p.alive.Load().
Load(t) ==
    /\ call[t] = "load"
    /\ loaded' = [loaded EXCEPT ![t] = alive]
    /\ call' = [call EXCEPT ![t] = "compare"]
    /\ UNCHANGED <<queue, alive, worker, job, direct, ran>>

\* Go: enough workers for the backlog, or no more allowed.
EnoughWorkersOffByOneMutant(t) == loaded[t] + 1 >= Len(queue) \/ loaded[t] >= PoolMax

EnoughWorkers(t) == loaded[t] >= Len(queue) \/ loaded[t] >= PoolMax

Compare(t) ==
    /\ call[t] = "compare"
    /\ call' = [call EXCEPT ![t] = IF EnoughWorkers(t) THEN "returned" ELSE "cas"]
    /\ UNCHANGED <<queue, alive, loaded, worker, job, direct, ran>>

\* Go: p.alive.CompareAndSwap(n, n+1); a failed swap loads again.
CompareAndSwapBlindMutant(t) ==
    /\ call[t] = "cas"
    /\ alive' = loaded[t] + 1
    /\ call' = [call EXCEPT ![t] = "spawn"]
    /\ UNCHANGED <<queue, loaded, worker, job, direct, ran>>

CompareAndSwap(t) ==
    /\ call[t] = "cas"
    /\ \/ /\ alive = loaded[t]
          /\ alive' = loaded[t] + 1
          /\ call' = [call EXCEPT ![t] = "spawn"]
       \/ /\ alive # loaded[t]
          /\ call' = [call EXCEPT ![t] = "load"]
          /\ UNCHANGED alive
    /\ UNCHANGED <<queue, loaded, worker, job, direct, ran>>

\* Go: go p.loop().
Spawn(t) ==
    /\ call[t] = "spawn"
    /\ worker' = [worker EXCEPT ![t] = "select"]
    /\ call' = [call EXCEPT ![t] = "returned"]
    /\ UNCHANGED <<queue, alive, loaded, job, direct, ran>>

-----------------------------------------------------------------------------
\* loop: the select receives a task and exec begins.
Take(w) ==
    /\ worker[w] = "select"
    /\ queue # <<>>
    /\ job' = [job EXCEPT ![w] = Head(queue)]
    /\ queue' = Tail(queue)
    /\ worker' = [worker EXCEPT ![w] = "busy"]
    /\ UNCHANGED <<alive, call, loaded, direct, ran>>

\* exec returned, normally or through its recover: the timer is reset and the
\* worker selects again.
FinishRetryMutant(w) ==
    /\ worker[w] = "busy"
    /\ ran' = [ran EXCEPT ![job[w]] = @ + 1]
    /\ \/ /\ job' = [job EXCEPT ![w] = NoTask]
          /\ worker' = [worker EXCEPT ![w] = "select"]
       \/ UNCHANGED <<job, worker>>
    /\ UNCHANGED <<queue, alive, call, loaded, direct>>

Finish(w) ==
    /\ worker[w] = "busy"
    /\ ran' = [ran EXCEPT ![job[w]] = @ + 1]
    /\ job' = [job EXCEPT ![w] = NoTask]
    /\ worker' = [worker EXCEPT ![w] = "select"]
    /\ UNCHANGED <<queue, alive, call, loaded, direct>>

\* exec of a task that had no room in the queue returned.
FinishDirect(t) ==
    /\ t \in direct
    /\ direct' = direct \ {t}
    /\ ran' = [ran EXCEPT ![t] = @ + 1]
    /\ UNCHANGED <<queue, alive, call, loaded, worker, job>>

\* loop: a worker parked for poolIdle takes the timer branch.  A parked worker
\* is one that found the channel empty; it leaves before alive is decremented.
IdleTimeout(w) ==
    /\ worker[w] = "select"
    /\ queue = <<>>
    /\ worker' = [worker EXCEPT ![w] = "leaving"]
    /\ UNCHANGED <<queue, alive, call, loaded, job, direct, ran>>

\* loop: defer p.alive.Add(-1).
RetireSilentMutant(w) ==
    /\ worker[w] = "leaving"
    /\ worker' = [worker EXCEPT ![w] = "gone"]
    /\ UNCHANGED <<queue, alive, call, loaded, job, direct, ran>>

Retire(w) ==
    /\ worker[w] = "leaving"
    /\ worker' = [worker EXCEPT ![w] = "gone"]
    /\ alive' = alive - 1
    /\ UNCHANGED <<queue, call, loaded, job, direct, ran>>

-----------------------------------------------------------------------------
GoStep(t) == Load(t) \/ Compare(t) \/ CompareAndSwap(t) \/ Spawn(t)

WorkerStep(w) == Take(w) \/ Finish(w) \/ Retire(w)

Next ==
    \E t \in Tasks :
        \/ Send(t) \/ RunDirect(t) \/ GoStep(t)
        \/ WorkerStep(t) \/ FinishDirect(t) \/ IdleTimeout(t)

\* The Go scheduler runs every runnable goroutine, and a handler returns.
\* Nothing obliges anyone to hand over another task, and nothing obliges a
\* worker to stay idle long enough to retire.
Fairness ==
    \A t \in Tasks : WF_vars(GoStep(t)) /\ WF_vars(WorkerStep(t)) /\ WF_vars(FinishDirect(t))

Spec == Init /\ [][Next]_vars

FairSpec == Spec /\ Fairness

-----------------------------------------------------------------------------
\* The types of the state; the queue stays within its capacity (pool.go:17).
TypeOK ==
    /\ queue \in Seq(Tasks) /\ Len(queue) <= QueueCap
    /\ alive \in Nat
    /\ call \in [Tasks -> CallStates]
    /\ loaded \in [Tasks -> Nat]
    /\ worker \in [Tasks -> WorkerStates]
    /\ job \in [Tasks -> Tasks \cup {NoTask}]
    /\ direct \in SUBSET Tasks
    /\ ran \in [Tasks -> Nat]

\* Workers that run or are about to: a call that won the swap has counted the
\* worker it will start, a leaving worker has not been uncounted.
Spawning == {t \in Tasks : call[t] = "spawn"}
Live     == {w \in Tasks : worker[w] \in {"select", "busy", "leaving"}}

\* The counter is the number of live workers, whatever calls and exits race,
\* and it stays within poolMax (pool.go:16 and the test on line 38).
AliveCounts == alive = Cardinality(Spawning \cup Live) /\ alive <= PoolMax

Executed == {t \in Tasks : ran[t] > 0}

\* No task is executed twice or could be: it is queued once, held by one
\* worker, and in one of the four places a task can be in (pool.go:28-70).
NeverTwice ==
    /\ Distinct(queue)
    /\ \A v, w \in Tasks : job[v] = job[w] /\ job[v] # NoTask => v = w
    /\ Queued \cap Held = {} /\ Queued \cap direct = {} /\ Held \cap direct = {}
    /\ Executed \cap (Queued \cup Held \cup direct) = {}
    /\ \A t \in Tasks : ran[t] <= 1

\* A task of which Go took charge is somewhere: neither the full queue, nor a
\* panic, nor a worker that leaves drops it (pool.go:27).
NeverDropped ==
    \A t \in Tasks : call[t] # "new" <=> t \in Queued \cup Held \cup direct \cup Executed

\* The pool implements its abstract promise.
Abs == INSTANCE TaskPoolAbs WITH waiting <- Queued, running <- Held \cup direct

AbsSpec == Abs!Spec

\* Nobody is left who would look at the queue: no worker, and no Go call that
\* is still sizing the pool.
Stranded ==
    /\ queue # <<>>
    /\ alive = 0
    /\ \A t \in Tasks : call[t] \in {"new", "returned"}

\* A queued task is executed, unless the pool loses its last worker in the
\* window between the idle timer and the decrement (pool.go:49 and 57): that
\* window is the only way a task can wait without bound.
ExecutedOrStranded ==
    \A t \in Tasks : (t \in Queued) ~> (ran[t] = 1 \/ Stranded)

\* A stranded backlog is cleared completely by the next Go call that finds
\* room in the queue: its sizing test sees no worker and starts one.
NextCallRescues ==
    \A t \in Tasks :
        (t \in Queued /\ alive = 0 /\ \E u \in Tasks : call[u] = "load") ~> (ran[t] = 1)

\* What pool.go:27 says of Go, "保证不丢": a task that was handed over is executed.
NeverLost == \A t \in Tasks : (call[t] # "new") ~> (ran[t] = 1)
=============================================================================
