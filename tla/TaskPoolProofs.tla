--------------------------- MODULE TaskPoolProofs ---------------------------
(***************************************************************************)
(* Proofs about TaskPool for every set of tasks, queue capacity and worker *)
(* limit: typing, the meaning of the counter alive, that no task is        *)
(* dropped or executed twice, the implementation of TaskPoolAbs, and which *)
(* steps strand a backlog and what rescues it.                             *)
(***************************************************************************)
EXTENDS TaskPool, TLAPS, FiniteSetTheorems, SequenceTheorems

\* The stages of a call and of the worker it starts follow each other: a
\* worker exists only once its call has returned, and a call about to swap
\* has seen fewer workers than the limit.
Staged ==
    \A t \in Tasks :
        /\ worker[t] # "none" => call[t] = "returned"
        /\ call[t] = "cas" => loaded[t] < PoolMax

Counted == Spawning \cup Live

CountInv == TypeOK /\ Staged /\ IsFiniteSet(Counted) /\ AliveCounts

\* A worker holds a task exactly while it is busy.
BusyHolds == \A w \in Tasks : worker[w] = "busy" <=> job[w] # NoTask

PlaceInv == BusyHolds /\ NeverTwice /\ NeverDropped

-----------------------------------------------------------------------------
\* A leaving worker is still counted, so the decrement cannot go below zero.
LEMMA LeavingIsCounted ==
    ASSUME CountInv, NEW w \in Tasks, worker[w] = "leaving"
    PROVE  alive \in Nat \ {0}
<1>1. w \in Counted
  BY DEF Counted, Live
<1>2. Cardinality(Counted) # 0
  BY <1>1, FS_EmptySet DEF CountInv
<1> QED
  BY <1>2 DEF CountInv, AliveCounts, Counted, TypeOK

\* Each step keeps the types of the variables.
LEMMA TypeStep == ASSUME CountInv, [Next]_vars PROVE TypeOK'
<1> USE PoolAssumption DEF CountInv, TypeOK, CallStates, WorkerStates
<1>1. ASSUME NEW t \in Tasks, Send(t) PROVE TypeOK'
  <2>1. queue' \in Seq(Tasks) /\ Len(queue') = Len(queue) + 1
    BY <1>1, AppendProperties DEF Send
  <2>2. Len(queue') <= QueueCap
    BY <1>1, <2>1, LenProperties DEF Send
  <2>3. QED BY <1>1, <2>1, <2>2 DEF Send
<1>2. ASSUME NEW t \in Tasks, RunDirect(t) PROVE TypeOK'
  BY <1>2 DEF RunDirect
<1>3. ASSUME NEW t \in Tasks, Load(t) PROVE TypeOK'
  BY <1>3 DEF Load
<1>4. ASSUME NEW t \in Tasks, Compare(t) PROVE TypeOK'
  BY <1>4 DEF Compare
<1>5. ASSUME NEW t \in Tasks, CompareAndSwap(t) PROVE TypeOK'
  <2>1. alive' \in Nat
    BY <1>5 DEF CompareAndSwap
  <2>2. call' \in [Tasks -> CallStates]
    BY <1>5 DEF CompareAndSwap
  <2>3. QED BY <1>5, <2>1, <2>2 DEF CompareAndSwap
<1>6. ASSUME NEW t \in Tasks, Spawn(t) PROVE TypeOK'
  BY <1>6 DEF Spawn
<1>7. ASSUME NEW t \in Tasks, Take(t) PROVE TypeOK'
  <2>1. Head(queue) \in Tasks /\ queue' \in Seq(Tasks) /\ Len(queue') = Len(queue) - 1
    BY <1>7, HeadTailProperties DEF Take
  <2>2. Len(queue') <= QueueCap
    BY <2>1, LenProperties
  <2>3. QED BY <1>7, <2>1, <2>2 DEF Take
<1>8. ASSUME NEW t \in Tasks, Finish(t) PROVE TypeOK'
  <2>1. ran' \in [Tasks -> Nat]
    <3>1. CASE job[t] \in Tasks
      BY <1>8, <3>1 DEF Finish
    <3>2. CASE job[t] = NoTask
      BY <1>8, <3>2 DEF Finish
    <3>3. QED BY <3>1, <3>2
  <2>2. job' \in [Tasks -> Tasks \cup {NoTask}] /\ worker' \in [Tasks -> WorkerStates]
    BY <1>8 DEF Finish
  <2>3. QED BY <1>8, <2>1, <2>2 DEF Finish
<1>9. ASSUME NEW t \in Tasks, FinishDirect(t) PROVE TypeOK'
  BY <1>9 DEF FinishDirect
<1>10. ASSUME NEW t \in Tasks, IdleTimeout(t) PROVE TypeOK'
  BY <1>10 DEF IdleTimeout
<1>11. ASSUME NEW t \in Tasks, Retire(t) PROVE TypeOK'
  <2>1. alive' \in Nat
    BY <1>11, LeavingIsCounted DEF Retire
  <2>2. QED BY <1>11, <2>1 DEF Retire
<1>12. CASE UNCHANGED vars
  BY <1>12 DEF vars
<1> QED
  BY <1>1, <1>2, <1>3, <1>4, <1>5, <1>6, <1>7, <1>8, <1>9, <1>10, <1>11, <1>12
     DEF Next, GoStep, WorkerStep

\* Each step keeps the order of stages.
LEMMA StagedStep == ASSUME CountInv, [Next]_vars PROVE Staged'
<1> USE DEF CountInv, TypeOK, Staged, CallStates, WorkerStates
<1>1. ASSUME NEW t \in Tasks, Send(t) \/ RunDirect(t) \/ Load(t) \/ Spawn(t) PROVE Staged'
  BY <1>1 DEF Send, RunDirect, Load, Spawn
<1>2. ASSUME NEW t \in Tasks, Compare(t) PROVE Staged'
  BY <1>2, PoolAssumption DEF Compare, EnoughWorkers
<1>3. ASSUME NEW t \in Tasks, CompareAndSwap(t) PROVE Staged'
  BY <1>3 DEF CompareAndSwap
<1>4. ASSUME NEW t \in Tasks,
             Take(t) \/ Finish(t) \/ FinishDirect(t) \/ IdleTimeout(t) \/ Retire(t)
      PROVE  Staged'
  BY <1>4 DEF Take, Finish, FinishDirect, IdleTimeout, Retire
<1>5. CASE UNCHANGED vars
  BY <1>5 DEF vars
<1> QED
  BY <1>1, <1>2, <1>3, <1>4, <1>5 DEF Next, GoStep, WorkerStep

\* Each step keeps the counter equal to the number of workers.  A swap counts
\* a worker that was not counted; only Retire removes one.
LEMMA CountStep ==
    ASSUME CountInv, [Next]_vars
    PROVE  (IsFiniteSet(Counted) /\ AliveCounts)'
<1> USE DEF CountInv, TypeOK, CallStates, WorkerStates
<1>1. ASSUME Counted' = Counted, alive' = alive
      PROVE  (IsFiniteSet(Counted) /\ AliveCounts)'
  BY <1>1 DEF AliveCounts, Counted
<1>2. ASSUME NEW t \in Tasks, CompareAndSwap(t)
      PROVE  (IsFiniteSet(Counted) /\ AliveCounts)'
  <2>1. CASE alive # loaded[t]
    <3>1. Counted' = Counted /\ alive' = alive
      BY <1>2, <2>1 DEF CompareAndSwap, Counted, Spawning, Live
    <3>2. QED BY <1>1, <3>1
  <2>2. CASE alive = loaded[t]
    <3>1. t \notin Counted
      BY <1>2 DEF CompareAndSwap, Staged, Counted, Spawning, Live
    <3>2. Counted' = Counted \cup {t}
      BY <1>2, <2>2 DEF CompareAndSwap, Counted, Spawning, Live
    <3>3. IsFiniteSet(Counted') /\ Cardinality(Counted') = Cardinality(Counted) + 1
      BY <3>1, <3>2, FS_AddElement
    <3>4. alive' = alive + 1 /\ alive + 1 <= PoolMax
      BY <1>2, <2>2, PoolAssumption DEF CompareAndSwap, Staged
    <3>5. QED BY <3>3, <3>4 DEF AliveCounts, Counted
  <2>3. QED BY <2>1, <2>2
<1>3. ASSUME NEW t \in Tasks, Retire(t)
      PROVE  (IsFiniteSet(Counted) /\ AliveCounts)'
  <2>1. t \in Counted
    BY <1>3 DEF Retire, Counted, Live
  <2>2. Counted' = Counted \ {t}
    BY <1>3 DEF Retire, Staged, Counted, Spawning, Live
  <2>3. IsFiniteSet(Counted') /\ Cardinality(Counted') = Cardinality(Counted) - 1
    BY <2>1, <2>2, FS_RemoveElement
  <2>4. alive' = alive - 1
    BY <1>3 DEF Retire
  <2>5. QED BY <2>3, <2>4, PoolAssumption DEF AliveCounts, Counted
<1>4. ASSUME NEW t \in Tasks, Spawn(t) PROVE Counted' = Counted /\ alive' = alive
  BY <1>4 DEF Spawn, Counted, Spawning, Live
<1>5. ASSUME NEW t \in Tasks, Send(t) \/ RunDirect(t) \/ Load(t) \/ Compare(t)
      PROVE  Counted' = Counted /\ alive' = alive
  BY <1>5 DEF Send, RunDirect, Load, Compare, Counted, Spawning, Live
<1>6. ASSUME NEW t \in Tasks, Take(t) \/ Finish(t) \/ FinishDirect(t) \/ IdleTimeout(t)
      PROVE  Counted' = Counted /\ alive' = alive
  BY <1>6 DEF Take, Finish, FinishDirect, IdleTimeout, Counted, Spawning, Live
<1>7. CASE UNCHANGED vars
  <2>1. Counted' = Counted /\ alive' = alive
    BY <1>7 DEF vars, Counted, Spawning, Live
  <2>2. QED BY <1>1, <2>1
<1> QED
  BY <1>1, <1>2, <1>3, <1>4, <1>5, <1>6, <1>7 DEF Next, GoStep, WorkerStep

\* Nothing is counted initially.
LEMMA CountInit == ASSUME Init PROVE CountInv
<1>1. TypeOK
  BY PoolAssumption, EmptySeq DEF Init, TypeOK, CallStates, WorkerStates
<1>2. Counted = {}
  BY DEF Init, Counted, Spawning, Live
<1>3. IsFiniteSet(Counted) /\ Cardinality(Counted) = 0
  BY <1>2, FS_EmptySet
<1>4. AliveCounts
  BY <1>3, PoolAssumption DEF Init, AliveCounts, Counted
<1> QED
  BY <1>1, <1>3, <1>4 DEF Init, CountInv, Staged

\* The counting invariant holds throughout.
LEMMA CountInvariant == Spec => []CountInv
<1>1. CountInv /\ [Next]_vars => CountInv'
  BY TypeStep, StagedStep, CountStep DEF CountInv
<1> QED
  BY CountInit, <1>1, PTL DEF Spec

\* The variables keep the types of pool.go:19-23 and of its goroutines.
THEOREM TypeCorrect == Spec => []TypeOK
<1>1. CountInv => TypeOK
  BY DEF CountInv
<1> QED
  BY CountInvariant, <1>1, PTL

\* The atomic counter of pool.go:21 is the number of live workers and never
\* exceeds poolMax, for any number of racing Go calls and retiring workers.
THEOREM AliveCorrect == Spec => []AliveCounts
<1>1. CountInv => AliveCounts
  BY DEF CountInv
<1> QED
  BY CountInvariant, <1>1, PTL

-----------------------------------------------------------------------------
\* Sending puts one more element in the queue.
LEMMA AppendElems ==
    ASSUME NEW S, NEW q \in Seq(S), NEW x \in S, Distinct(q), x \notin Elems(q)
    PROVE  Elems(Append(q, x)) = Elems(q) \cup {x} /\ Distinct(Append(q, x))
<1> DEFINE r == Append(q, x)
<1>1. /\ Len(q) \in Nat /\ Len(r) = Len(q) + 1 /\ r[Len(q) + 1] = x
      /\ \A i \in 1..Len(q) : r[i] = q[i]
  BY AppendProperties, LenProperties
<1> HIDE DEF r
<1>2. Elems(r) = Elems(q) \cup {x}
  BY <1>1 DEF Elems
<1>3. Distinct(r)
  BY <1>1 DEF Elems, Distinct
<1> QED
  BY <1>2, <1>3 DEF r

\* Receiving removes the head, which occurs nowhere else.
LEMMA TailElems ==
    ASSUME NEW S, NEW q \in Seq(S), q # <<>>, Distinct(q)
    PROVE  /\ Head(q) \in Elems(q)
           /\ Elems(Tail(q)) = Elems(q) \ {Head(q)}
           /\ Distinct(Tail(q))
<1> DEFINE r == Tail(q)
<1>1. /\ Len(q) \in Nat \ {0} /\ Head(q) = q[1] /\ Len(r) = Len(q) - 1
      /\ \A i \in 1..Len(r) : r[i] = q[i + 1]
  BY HeadTailProperties, LenProperties, EmptySeq
<1> HIDE DEF r
<1>2. \A i \in 2..Len(q) : i - 1 \in 1..Len(r) /\ r[i - 1] = q[i]
  BY <1>1
<1>3. Head(q) \in Elems(q)
  BY <1>1 DEF Elems
<1>4. Elems(r) \subseteq Elems(q) \ {Head(q)}
  BY <1>1 DEF Elems, Distinct
<1>5. Elems(q) \ {Head(q)} \subseteq Elems(r)
  BY <1>1, <1>2 DEF Elems
<1>6. Distinct(r)
  BY <1>1 DEF Distinct
<1> QED
  BY <1>3, <1>4, <1>5, <1>6 DEF r

\* The tasks in the queue are tasks.
LEMMA QueuedTasks == ASSUME TypeOK PROVE Queued \subseteq Tasks
  BY LenProperties, ElementOfSeq DEF TypeOK, Queued, Elems

-----------------------------------------------------------------------------
\* What each step that moves a task does to the places of tasks.
LEMMA SendEffect ==
    ASSUME TypeOK, PlaceInv, NEW t \in Tasks, Send(t)
    PROVE  /\ t \notin Queued \cup Held \cup direct \cup Executed
           /\ Queued' = Queued \cup {t} /\ Distinct(queue)'
           /\ Held' = Held /\ Executed' = Executed
<1>1. t \notin Queued \cup Held \cup direct \cup Executed
  BY DEF Send, PlaceInv, NeverDropped
<1>2. Queued' = Queued \cup {t} /\ Distinct(queue)'
  BY <1>1, AppendElems DEF Send, PlaceInv, NeverTwice, Queued, TypeOK
<1> QED
  BY <1>1, <1>2 DEF Send, Held, Executed

\* The full queue: the task goes straight to a goroutine of its own.
LEMMA RunDirectEffect ==
    ASSUME TypeOK, PlaceInv, NEW t \in Tasks, RunDirect(t)
    PROVE  /\ t \notin Queued \cup Held \cup direct \cup Executed
           /\ Queued' = Queued /\ Held' = Held /\ Executed' = Executed
BY DEF RunDirect, PlaceInv, NeverDropped, Queued, Held, Executed

\* The head of the queue goes from the queue to the worker.
LEMMA TakeEffect ==
    ASSUME TypeOK, PlaceInv, NEW w \in Tasks, Take(w)
    PROVE  /\ Head(queue) \in Queued /\ Head(queue) \in Tasks
           /\ Queued' = Queued \ {Head(queue)} /\ Distinct(queue)'
           /\ Held' = Held \cup {Head(queue)} /\ Executed' = Executed
<1>1. Head(queue) \in Queued /\ Queued' = Queued \ {Head(queue)} /\ Distinct(queue)'
  BY TailElems DEF Take, PlaceInv, NeverTwice, Queued, TypeOK
<1>2. Head(queue) \in Tasks
  BY <1>1, QueuedTasks
<1>3. job[w] = NoTask
  BY DEF Take, PlaceInv, BusyHolds
<1>4. Held' = Held \cup {Head(queue)}
  BY <1>2, <1>3, PoolAssumption DEF Take, Held, TypeOK
<1> QED
  BY <1>1, <1>2, <1>4 DEF Take, Executed

\* A worker's task goes from the worker to the executed ones.
LEMMA FinishEffect ==
    ASSUME TypeOK, PlaceInv, NEW w \in Tasks, Finish(w)
    PROVE  /\ job[w] \in Tasks /\ job[w] \in Held
           /\ Queued' = Queued /\ Held' = Held \ {job[w]}
           /\ Executed' = Executed \cup {job[w]}
<1>1. job[w] \in Tasks /\ job[w] \in Held
  BY DEF Finish, PlaceInv, BusyHolds, TypeOK, Held
<1>2. \A v \in Tasks : v # w => job[v] # job[w]
  BY <1>1, PoolAssumption DEF PlaceInv, NeverTwice
<1>3. Held' = Held \ {job[w]}
  BY <1>1, <1>2 DEF Finish, TypeOK, Held
<1>4. Executed' = Executed \cup {job[w]}
  BY <1>1 DEF Finish, TypeOK, Executed
<1> QED
  BY <1>1, <1>3, <1>4 DEF Finish, Queued

\* A task run directly goes to the executed ones.
LEMMA FinishDirectEffect ==
    ASSUME TypeOK, PlaceInv, NEW t \in Tasks, FinishDirect(t)
    PROVE  /\ t \in direct /\ direct' = direct \ {t}
           /\ Queued' = Queued /\ Held' = Held /\ Executed' = Executed \cup {t}
<1>1. Executed' = Executed \cup {t}
  BY DEF FinishDirect, TypeOK, Executed
<1> QED
  BY <1>1 DEF FinishDirect, Queued, Held

\* The remaining steps move no task.
Still == UNCHANGED <<queue, job, direct, ran>>

\* Then the places are the same sets of tasks.
LEMMA StillEffect ==
    ASSUME Still PROVE Queued' = Queued /\ Held' = Held /\ direct' = direct /\ Executed' = Executed
BY DEF Still, Queued, Held, Executed

\* The four places have no task in common.
Apart ==
    /\ Queued \cap Held = {} /\ Queued \cap direct = {} /\ Held \cap direct = {}
    /\ Executed \cap (Queued \cup Held \cup direct) = {}

\* Such a step keeps the invariant of the places.
LEMMA StillPlaces ==
    ASSUME TypeOK, PlaceInv, Still, BusyHolds',
           \A t \in Tasks : call'[t] = "new" <=> call[t] = "new"
    PROVE  PlaceInv'
<1>1. NeverTwice'
  BY StillEffect DEF Still, PlaceInv, NeverTwice, Distinct
<1>2. NeverDropped'
  BY StillEffect DEF PlaceInv, NeverDropped
<1> QED
  BY <1>1, <1>2 DEF PlaceInv

\* Each step keeps every task in one place.
LEMMA PlaceStep == ASSUME TypeOK, Staged, PlaceInv, [Next]_vars PROVE PlaceInv'
<1> USE DEF TypeOK, CallStates, WorkerStates
<1>1. ASSUME NEW t \in Tasks, Send(t) PROVE PlaceInv'
  <2>1. BusyHolds'
    BY <1>1 DEF Send, PlaceInv, BusyHolds
  <2>2. NeverTwice'
    BY <1>1, SendEffect DEF Send, PlaceInv, NeverTwice
  <2>3. NeverDropped'
    BY <1>1, SendEffect DEF Send, PlaceInv, NeverDropped
  <2>4. QED BY <2>1, <2>2, <2>3 DEF PlaceInv
<1>2. ASSUME NEW t \in Tasks, RunDirect(t) PROVE PlaceInv'
  <2>1. BusyHolds'
    BY <1>2 DEF RunDirect, PlaceInv, BusyHolds
  <2>2. NeverTwice'
    BY <1>2, RunDirectEffect DEF RunDirect, PlaceInv, NeverTwice, Distinct
  <2>3. NeverDropped'
    BY <1>2, RunDirectEffect DEF RunDirect, PlaceInv, NeverDropped
  <2>4. QED BY <2>1, <2>2, <2>3 DEF PlaceInv
<1>3. ASSUME NEW w \in Tasks, Take(w) PROVE PlaceInv'
  <2>1. Head(queue) \in Tasks /\ Head(queue) # NoTask
    BY <1>3, TakeEffect, PoolAssumption
  <2>2. BusyHolds'
    BY <1>3, <2>1 DEF Take, PlaceInv, BusyHolds
  <2>3. \A u, v \in Tasks : job'[u] = job'[v] /\ job'[u] # NoTask => u = v
    <3>1. \A v \in Tasks : job[v] # Head(queue)
      BY <1>3, <2>1, TakeEffect DEF PlaceInv, NeverTwice, Held
    <3>2. QED BY <1>3, <2>1, <3>1 DEF Take, PlaceInv, NeverTwice
  <2>4. NeverTwice'
    <3>1. Apart'
      BY <1>3, TakeEffect DEF Take, PlaceInv, NeverTwice, Apart
    <3>2. Distinct(queue)' /\ \A t \in Tasks : ran'[t] <= 1
      BY <1>3, TakeEffect DEF Take, PlaceInv, NeverTwice
    <3>3. QED BY <2>3, <3>1, <3>2 DEF NeverTwice, Apart
  <2>5. NeverDropped'
    <3>1. call' = call /\ direct' = direct
      BY <1>3 DEF Take
    <3>2. (Queued \cup Held \cup direct \cup Executed)' = Queued \cup Held \cup direct \cup Executed
      BY <1>3, <3>1, TakeEffect
    <3>3. QED BY <3>1, <3>2 DEF PlaceInv, NeverDropped
  <2>6. QED BY <2>2, <2>4, <2>5 DEF PlaceInv
<1>4. ASSUME NEW w \in Tasks, Finish(w) PROVE PlaceInv'
  <2>1. BusyHolds'
    BY <1>4 DEF Finish, PlaceInv, BusyHolds
  <2>2. \A u, v \in Tasks : job'[u] = job'[v] /\ job'[u] # NoTask => u = v
    BY <1>4 DEF Finish, PlaceInv, NeverTwice
  <2>3. ran[job[w]] = 0
    BY <1>4, FinishEffect DEF PlaceInv, NeverTwice, Executed
  <2>4. \A t \in Tasks : ran'[t] <= 1
    BY <1>4, <2>3 DEF Finish, PlaceInv, NeverTwice
  <2>5. NeverTwice'
    <3>1. direct' = direct /\ Distinct(queue)'
      BY <1>4 DEF Finish, PlaceInv, NeverTwice, Distinct
    <3>2. Apart'
      BY <1>4, <3>1, FinishEffect DEF PlaceInv, NeverTwice, Apart
    <3>3. QED BY <2>2, <2>4, <3>1, <3>2 DEF NeverTwice, Apart
  <2>6. NeverDropped'
    <3>1. direct' = direct /\ call' = call
      BY <1>4 DEF Finish
    <3>2. QED BY <1>4, <3>1, FinishEffect DEF PlaceInv, NeverDropped
  <2>7. QED BY <2>1, <2>5, <2>6 DEF PlaceInv
<1>5. ASSUME NEW t \in Tasks, FinishDirect(t) PROVE PlaceInv'
  <2>1. BusyHolds'
    BY <1>5 DEF FinishDirect, PlaceInv, BusyHolds
  <2>2. ran[t] = 0
    BY <1>5, FinishDirectEffect DEF PlaceInv, NeverTwice, Executed
  <2>3. \A u \in Tasks : ran'[u] <= 1
    BY <1>5, <2>2 DEF FinishDirect, PlaceInv, NeverTwice
  <2>4. NeverTwice'
    <3>1. Distinct(queue)' /\ job' = job
      BY <1>5 DEF FinishDirect, PlaceInv, NeverTwice, Distinct
    <3>2. Apart'
      BY <1>5, FinishDirectEffect DEF PlaceInv, NeverTwice, Apart
    <3>3. QED BY <2>3, <3>1, <3>2 DEF PlaceInv, NeverTwice, Apart
  <2>5. NeverDropped'
    BY <1>5, FinishDirectEffect DEF FinishDirect, PlaceInv, NeverDropped
  <2>6. QED BY <2>1, <2>4, <2>5 DEF PlaceInv
<1>6. ASSUME NEW t \in Tasks, GoStep(t) \/ IdleTimeout(t) \/ Retire(t)
      PROVE  PlaceInv'
  <2>1. Still /\ \A u \in Tasks : call'[u] = "new" <=> call[u] = "new"
    BY <1>6 DEF GoStep, Load, Compare, CompareAndSwap, Spawn, IdleTimeout, Retire, Still
  <2>2. BusyHolds'
    BY <1>6 DEF GoStep, Load, Compare, CompareAndSwap, Spawn, IdleTimeout, Retire,
                PlaceInv, BusyHolds, Staged
  <2>3. QED BY <2>1, <2>2, StillPlaces
<1>7. CASE UNCHANGED vars
  <2>1. Still /\ BusyHolds' /\ UNCHANGED call
    BY <1>7 DEF vars, Still, PlaceInv, BusyHolds
  <2>2. QED BY <2>1, StillPlaces
<1> QED
  BY <1>1, <1>2, <1>3, <1>4, <1>5, <1>6, <1>7 DEF Next, WorkerStep

\* No task is anywhere initially.
LEMMA PlaceInit == ASSUME Init PROVE PlaceInv
<1>1. Queued = {} /\ Distinct(queue)
  BY EmptySeq DEF Init, Queued, Elems, Distinct
<1>2. Held = {} /\ Executed = {}
  BY DEF Init, Held, Executed
<1> QED
  BY <1>1, <1>2 DEF Init, PlaceInv, BusyHolds, NeverTwice, NeverDropped

\* The invariant of the places holds throughout.
LEMMA PlaceInvariant == Spec => []PlaceInv
<1>1. CountInv => TypeOK /\ Staged
  BY DEF CountInv
<1>2. CountInv /\ PlaceInv /\ [Next]_vars => PlaceInv'
  BY <1>1, PlaceStep
<1> QED
  BY PlaceInit, <1>2, CountInvariant, PTL DEF Spec

\* No task is executed twice, however calls, workers and panics interleave
\* (pool.go:28-70).
THEOREM NeverTwiceCorrect == Spec => []NeverTwice
<1>1. PlaceInv => NeverTwice
  BY DEF PlaceInv
<1> QED
  BY PlaceInvariant, <1>1, PTL

\* No task that Go accepted disappears: it is queued, being executed or
\* executed (the comment of pool.go:27, without its "eventually").
THEOREM NeverDroppedCorrect == Spec => []NeverDropped
<1>1. PlaceInv => NeverDropped
  BY DEF PlaceInv
<1> QED
  BY PlaceInvariant, <1>1, PTL

-----------------------------------------------------------------------------
\* Every step of the pool is a step of the abstract pool or leaves it alone.
LEMMA AbsInit == ASSUME Init PROVE Abs!Init
<1>1. Queued = {} /\ Held \cup direct = {}
  BY EmptySeq DEF Init, Queued, Elems, Held
<1> QED
  BY <1>1 DEF Init, Abs!Init

\* Every step of the pool is a step of the abstract pool or a stutter.
LEMMA AbsStep ==
    ASSUME TypeOK, Staged, PlaceInv, [Next]_vars
    PROVE  [Abs!Next]_(Abs!absVars)
<1> USE DEF TypeOK
<1>1. ASSUME NEW t \in Tasks, Send(t) PROVE Abs!Accept(t)
  <2>1. Abs!Fresh(t)
    BY <1>1, SendEffect DEF Abs!Fresh, Executed
  <2>2. QED BY <1>1, <2>1, SendEffect DEF Send, Abs!Accept
<1>2. ASSUME NEW t \in Tasks, RunDirect(t) PROVE Abs!AcceptAndStart(t)
  <2>1. Abs!Fresh(t)
    BY <1>2, RunDirectEffect DEF Abs!Fresh, Executed
  <2>2. QED BY <1>2, <2>1, RunDirectEffect DEF RunDirect, Abs!AcceptAndStart
<1>3. ASSUME NEW w \in Tasks, Take(w) PROVE Abs!Start(Head(queue))
  BY <1>3, TakeEffect DEF Take, Abs!Start
<1>4. ASSUME NEW w \in Tasks, Finish(w) PROVE Abs!Finish(job[w])
  <2>1. job[w] \notin direct
    BY <1>4, FinishEffect DEF PlaceInv, NeverTwice
  <2>2. (Held \cup direct)' = (Held \cup direct) \ {job[w]}
    BY <1>4, <2>1, FinishEffect DEF Finish
  <2>3. QED BY <1>4, <2>2, FinishEffect DEF Finish, Abs!Finish
<1>5. ASSUME NEW t \in Tasks, FinishDirect(t) PROVE Abs!Finish(t)
  <2>1. t \notin Held
    BY <1>5, FinishDirectEffect DEF PlaceInv, NeverTwice
  <2>2. (Held \cup direct)' = (Held \cup direct) \ {t}
    BY <1>5, <2>1, FinishDirectEffect
  <2>3. QED BY <1>5, <2>2, FinishDirectEffect DEF FinishDirect, Abs!Finish
<1>6. ASSUME NEW t \in Tasks, GoStep(t) \/ IdleTimeout(t) \/ Retire(t)
      PROVE  UNCHANGED Abs!absVars
  <2>1. Still
    BY <1>6 DEF GoStep, Load, Compare, CompareAndSwap, Spawn, IdleTimeout, Retire, Still
  <2>2. QED BY <2>1, StillEffect DEF Still, Abs!absVars
<1>7. CASE UNCHANGED vars
  <2>1. Still
    BY <1>7 DEF vars, Still
  <2>2. QED BY <2>1, StillEffect DEF Still, Abs!absVars
<1>8. ASSUME NEW w \in Tasks, Finish(w) PROVE job[w] \in Tasks
  BY <1>8, FinishEffect
<1>9. ASSUME NEW w \in Tasks, Take(w) PROVE Head(queue) \in Tasks
  BY <1>9, TakeEffect
<1> QED
  BY <1>1, <1>2, <1>3, <1>4, <1>5, <1>6, <1>7, <1>8, <1>9 DEF Next, WorkerStep, Abs!Next

\* The pool implements what TaskPoolAbs promises its callers.
THEOREM PoolImplementsAbs == Spec => AbsSpec
<1>1. CountInv => TypeOK /\ Staged
  BY DEF CountInv
<1>2. CountInv /\ PlaceInv /\ [Next]_vars => [Abs!Next]_(Abs!absVars)
  BY <1>1, AbsStep
<1> QED
  BY AbsInit, <1>2, CountInvariant, PlaceInvariant, PTL DEF Spec, AbsSpec, Abs!Spec

-----------------------------------------------------------------------------
\* How a backlog comes to be stranded.  A worker that left is counted no
\* more, so a Go call that read the counter before may hold too large a number.
NobodyLeft == \A w \in Tasks : worker[w] # "gone"

\* Sizing: a Go call that has not yet decided whether to start a worker.
Sizing(t) == call[t] \in {"load", "compare", "cas"}

\* As long as no worker has left, no call has read more than there are, and a
\* backlog without workers has a call that will see that there are none.
Unleft ==
    NobodyLeft =>
        /\ \A t \in Tasks : loaded[t] <= alive
        /\ queue # <<>> /\ alive = 0 => \E t \in Tasks : Sizing(t)

\* A backlog is stranded only after some worker has left: a pool all of whose
\* workers are still there never forgets a task (pool.go:27-57).
StrandedAfterExit == Stranded => ~NobodyLeft

\* The step that strands a backlog is the decrement of the last worker
\* (pool.go:49), or a sizing test on a count that was read before that
\* decrement (pool.go:36-39); no other step of any goroutine does it.
StrandedByExit ==
    [][~Stranded /\ Stranded' =>
           \E t \in Tasks : \/ Retire(t) /\ alive = 1
                            \/ Compare(t) /\ loaded[t] > alive]_vars

\* A call that will see an empty pool: it has yet to read the counter, or has
\* read that nobody is there.
SeesNobody(t) == Sizing(t) /\ (call[t] # "load" => loaded[t] = 0)

Rescued == queue # <<>> /\ alive = 0 /\ \E t \in Tasks : SeesNobody(t)

\* A backlog without workers keeps the call that will see it until a worker
\* is counted; nothing takes a task meanwhile and no other call, exit or
\* timer makes this one give up (the safety half of NextCallRescues,
\* pool.go:35-44).
RescueHolds == [][Rescued => Rescued' \/ alive' = 1]_vars

-----------------------------------------------------------------------------
\* With the counter at zero nobody is counted: no worker, no call about to
\* start one.
LEMMA NobodyCounted ==
    ASSUME CountInv, alive = 0, NEW t \in Tasks
    PROVE  call[t] # "spawn" /\ worker[t] \notin {"select", "busy", "leaving"}
<1>1. Counted = {}
  BY FS_EmptySet DEF CountInv, AliveCounts, Counted
<1> QED
  BY <1>1 DEF Counted, Spawning, Live

\* A queue that is not empty has a length above zero.
LEMMA QueueLength == ASSUME TypeOK, queue # <<>> PROVE Len(queue) \in Nat \ {0}
BY LenProperties, EmptySeq DEF TypeOK

\* A worker that has left does not come back.
LEMMA GoneStays == ASSUME CountInv, [Next]_vars, NobodyLeft' PROVE NobodyLeft
<1> USE DEF NobodyLeft, CountInv, TypeOK, WorkerStates
<1>1. ASSUME NEW t \in Tasks, Send(t) \/ RunDirect(t) \/ GoStep(t) PROVE NobodyLeft
  BY <1>1 DEF Send, RunDirect, GoStep, Load, Compare, CompareAndSwap, Spawn, Staged
<1>2. ASSUME NEW t \in Tasks, WorkerStep(t) \/ FinishDirect(t) \/ IdleTimeout(t) PROVE NobodyLeft
  BY <1>2 DEF WorkerStep, Take, Finish, Retire, FinishDirect, IdleTimeout
<1>3. CASE UNCHANGED vars
  BY <1>3 DEF vars
<1> QED
  BY <1>1, <1>2, <1>3 DEF Next

\* Each step keeps the counts that calls have read below the counter, until
\* the first worker leaves.
LEMMA UnleftStep == ASSUME CountInv, Unleft, [Next]_vars PROVE Unleft'
<1> SUFFICES ASSUME NobodyLeft'
             PROVE  /\ \A t \in Tasks : loaded'[t] <= alive'
                    /\ queue' # <<>> /\ alive' = 0 => \E t \in Tasks : Sizing(t)'
  BY DEF Unleft
<1>1. /\ NobodyLeft
      /\ \A t \in Tasks : loaded[t] <= alive
      /\ queue # <<>> /\ alive = 0 => \E t \in Tasks : Sizing(t)
  BY GoneStays DEF Unleft
<1> USE DEF CountInv, TypeOK, CallStates, WorkerStates, Sizing
<1>2. ASSUME NEW t \in Tasks, Send(t) \/ RunDirect(t)
      PROVE  /\ \A u \in Tasks : loaded'[u] <= alive'
             /\ queue' # <<>> /\ alive' = 0 => \E u \in Tasks : Sizing(u)'
  <2>1. CASE Send(t)
    BY <1>1, <2>1 DEF Send
  <2>2. CASE RunDirect(t)
    BY <1>1, <2>2 DEF RunDirect
  <2> QED
    BY <1>2, <2>1, <2>2
<1>3. ASSUME NEW t \in Tasks, Load(t)
      PROVE  /\ \A u \in Tasks : loaded'[u] <= alive'
             /\ queue' # <<>> /\ alive' = 0 => \E u \in Tasks : Sizing(u)'
  BY <1>1, <1>3 DEF Load
<1>4. ASSUME NEW t \in Tasks, Compare(t)
      PROVE  /\ \A u \in Tasks : loaded'[u] <= alive'
             /\ queue' # <<>> /\ alive' = 0 => \E u \in Tasks : Sizing(u)'
  <2>1. ASSUME queue # <<>>, alive = 0 PROVE ~EnoughWorkers(t)
    BY <1>1, <2>1, QueueLength, PoolAssumption DEF EnoughWorkers
  <2> QED
    BY <1>1, <1>4, <2>1 DEF Compare
<1>5. ASSUME NEW t \in Tasks, CompareAndSwap(t)
      PROVE  /\ \A u \in Tasks : loaded'[u] <= alive'
             /\ queue' # <<>> /\ alive' = 0 => \E u \in Tasks : Sizing(u)'
  <2>1. CASE alive = loaded[t]
    <3>1. alive' = alive + 1 /\ loaded' = loaded
      BY <1>5, <2>1 DEF CompareAndSwap
    <3> QED
      BY <1>1, <3>1
  <2>2. CASE alive # loaded[t]
    <3>1. alive' = alive /\ loaded' = loaded /\ Sizing(t)'
      BY <1>5, <2>2 DEF CompareAndSwap
    <3> QED
      BY <1>1, <3>1
  <2> QED
    BY <2>1, <2>2
<1>6. ASSUME NEW t \in Tasks, Spawn(t) \/ Take(t) \/ Finish(t) \/ IdleTimeout(t)
      PROVE  /\ \A u \in Tasks : loaded'[u] <= alive'
             /\ queue' # <<>> /\ alive' = 0 => \E u \in Tasks : Sizing(u)'
  <2>1. alive' = alive /\ loaded' = loaded
    BY <1>6 DEF Spawn, Take, Finish, IdleTimeout
  <2>2. alive # 0
    BY <1>6, NobodyCounted DEF Spawn, Take, Finish, IdleTimeout
  <2> QED
    BY <1>1, <2>1, <2>2
<1>7. ASSUME NEW t \in Tasks, FinishDirect(t)
      PROVE  /\ \A u \in Tasks : loaded'[u] <= alive'
             /\ queue' # <<>> /\ alive' = 0 => \E u \in Tasks : Sizing(u)'
  BY <1>1, <1>7 DEF FinishDirect
<1>8. ASSUME NEW t \in Tasks, Retire(t) PROVE FALSE
  BY <1>8 DEF Retire, NobodyLeft
<1>9. CASE UNCHANGED vars
  BY <1>1, <1>9 DEF vars
<1> QED
  BY <1>2, <1>3, <1>4, <1>5, <1>6, <1>7, <1>8, <1>9 DEF Next, GoStep, WorkerStep

\* A pool that has lost no worker strands nothing, for any number of calls,
\* any queue and any limit: the backlog that NeverLost is refuted with needs an
\* exit (pool.go:27, 49-57).
THEOREM StrandedAfterExitCorrect == Spec => []StrandedAfterExit
<1>1. Init => Unleft
  BY DEF Init, Unleft
<1>2. CountInv /\ Unleft /\ [Next]_vars => Unleft'
  BY UnleftStep
<1>3. Unleft => StrandedAfterExit
  BY DEF Unleft, StrandedAfterExit, Stranded, Sizing
<1> QED
  BY <1>1, <1>2, <1>3, CountInvariant, PTL DEF Spec

\* The two steps that can strand a backlog are the exit of the last worker and
\* a sizing test that uses a count read before such an exit (pool.go:36-39, 49).
THEOREM StrandedByExitCorrect == Spec => StrandedByExit
<1> DEFINE Step == ~Stranded /\ Stranded' =>
               \E t \in Tasks : \/ Retire(t) /\ alive = 1
                                \/ Compare(t) /\ loaded[t] > alive
<1>1. ASSUME CountInv, [Next]_vars PROVE Step
  <2> SUFFICES ASSUME ~Stranded, Stranded'
               PROVE  \E t \in Tasks : \/ Retire(t) /\ alive = 1
                                       \/ Compare(t) /\ loaded[t] > alive
    OBVIOUS
  <2> USE <1>1 DEF CountInv, TypeOK, CallStates, WorkerStates
  <2>1. ASSUME NEW t \in Tasks, Retire(t) PROVE alive = 1
    BY <2>1, LeavingIsCounted DEF Retire, Stranded
  <2>2. ASSUME NEW t \in Tasks, Compare(t) PROVE loaded[t] > alive
    <3>1. queue # <<>> /\ alive = 0 /\ call'[t] = "returned"
      BY <2>2 DEF Compare, Stranded
    <3>2. EnoughWorkers(t)
      BY <2>2, <3>1 DEF Compare
    <3>3. loaded[t] # 0
      BY <3>1, <3>2, QueueLength, PoolAssumption DEF EnoughWorkers
    <3> QED
      BY <3>1, <3>3
  <2>3. ASSUME NEW t \in Tasks, Send(t) \/ Load(t) \/ CompareAndSwap(t) PROVE FALSE
    <3>1. call'[t] \notin {"new", "returned"}
      BY <2>3 DEF Send, Load, CompareAndSwap
    <3> QED
      BY <3>1 DEF Stranded
  <2>4. ASSUME NEW t \in Tasks, Spawn(t) \/ Take(t) \/ Finish(t) \/ IdleTimeout(t) PROVE FALSE
    <3>1. alive' = alive
      BY <2>4 DEF Spawn, Take, Finish, IdleTimeout
    <3>2. alive # 0
      BY <2>4, NobodyCounted DEF Spawn, Take, Finish, IdleTimeout
    <3> QED
      BY <3>1, <3>2 DEF Stranded
  <2>5. ASSUME NEW t \in Tasks, RunDirect(t) \/ FinishDirect(t) PROVE FALSE
    BY <2>5 DEF RunDirect, FinishDirect, Stranded
  <2>6. CASE UNCHANGED vars
    BY <2>6 DEF vars, Stranded
  <2> QED
    BY <2>1, <2>2, <2>3, <2>4, <2>5, <2>6 DEF Next, GoStep, WorkerStep
<1> HIDE DEF Step
<1>2. CountInv /\ [Next]_vars => Step
  BY <1>1
<1>3. [][Step]_vars => StrandedByExit
  BY PTL DEF StrandedByExit, Step
<1> QED
  BY <1>2, <1>3, CountInvariant, PTL DEF Spec

\* The rescue of a backlog without workers cannot be undone: the Go call that
\* will see it stays until it has counted a worker (pool.go:35-44).
THEOREM RescueHoldsCorrect == Spec => RescueHolds
<1> DEFINE Step == Rescued => Rescued' \/ alive' = 1
<1>1. ASSUME CountInv, [Next]_vars PROVE Step
  <2> SUFFICES ASSUME Rescued PROVE Rescued' \/ alive' = 1
    OBVIOUS
  <2> USE <1>1 DEF CountInv, TypeOK, CallStates, WorkerStates
  <2>1. PICK c \in Tasks : SeesNobody(c)
    BY DEF Rescued
  <2>2. queue # <<>> /\ alive = 0 /\ Len(queue) \in Nat \ {0}
    BY QueueLength DEF Rescued
  <2>3. ASSUME NEW t \in Tasks, CompareAndSwap(t) PROVE Rescued' \/ alive' = 1
    <3>1. CASE alive = loaded[t]
      BY <2>2, <2>3, <3>1 DEF CompareAndSwap
    <3>2. CASE alive # loaded[t]
      BY <2>2, <2>3, <3>2 DEF CompareAndSwap, Rescued, SeesNobody, Sizing
    <3> QED
      BY <3>1, <3>2
  <2>4. ASSUME NEW t \in Tasks, Compare(t) PROVE Rescued'
    <3>1. queue' = queue /\ alive' = alive /\ loaded' = loaded
      BY <2>4 DEF Compare
    <3>2. CASE t = c
      <4>1. loaded[c] = 0 /\ ~EnoughWorkers(c)
        BY <2>1, <2>2, <2>4, <3>2, PoolAssumption DEF Compare, SeesNobody, EnoughWorkers
      <4>2. SeesNobody(c)'
        BY <2>4, <3>1, <3>2, <4>1 DEF Compare, SeesNobody, Sizing
      <4> QED
        BY <2>2, <3>1, <4>2 DEF Rescued
    <3>3. CASE t # c
      BY <2>1, <2>2, <2>4, <3>1, <3>3 DEF Compare, Rescued, SeesNobody, Sizing
    <3> QED
      BY <3>2, <3>3
  <2>5. ASSUME NEW t \in Tasks, Load(t) PROVE Rescued'
    <3>1. SeesNobody(t)'
      BY <2>2, <2>5 DEF Load, SeesNobody, Sizing
    <3> QED
      BY <2>2, <2>5, <3>1 DEF Load, Rescued
  <2>6. ASSUME NEW t \in Tasks, Send(t) \/ RunDirect(t) PROVE Rescued'
    <3>1. queue' # <<>>
      <4>1. CASE Send(t)
        <5>1. Len(queue') = Len(queue) + 1
          BY <4>1, AppendProperties DEF Send
        <5> QED
          BY <2>2, <5>1
      <4>2. CASE RunDirect(t)
        BY <2>2, <4>2 DEF RunDirect
      <4> QED
        BY <2>6, <4>1, <4>2
    <3>2. SeesNobody(c)' /\ alive' = alive
      BY <2>1, <2>6 DEF Send, RunDirect, SeesNobody, Sizing
    <3> QED
      BY <2>2, <3>1, <3>2 DEF Rescued
  <2>7. ASSUME NEW t \in Tasks, Spawn(t) \/ WorkerStep(t) \/ IdleTimeout(t) PROVE FALSE
    BY <2>2, <2>7, NobodyCounted DEF Spawn, WorkerStep, Take, Finish, Retire, IdleTimeout
  <2>8. ASSUME NEW t \in Tasks, FinishDirect(t) PROVE Rescued'
    BY <2>1, <2>2, <2>8 DEF FinishDirect, Rescued, SeesNobody, Sizing
  <2>9. CASE UNCHANGED vars
    BY <2>1, <2>2, <2>9 DEF vars, Rescued, SeesNobody, Sizing
  <2> QED
    BY <2>3, <2>4, <2>5, <2>6, <2>7, <2>8, <2>9 DEF Next, GoStep
<1> HIDE DEF Step
<1>2. CountInv /\ [Next]_vars => Step
  BY <1>1
<1>3. [][Step]_vars => RescueHolds
  BY PTL DEF RescueHolds, Step
<1> QED
  BY <1>2, <1>3, CountInvariant, PTL DEF Spec
=============================================================================
