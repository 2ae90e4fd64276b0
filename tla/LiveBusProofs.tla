--------------------------- MODULE LiveBusProofs ---------------------------
(***************************************************************************)
(* One generation of background loops at a time, for any number of         *)
(* connections.  The invariant says that generations are numbered in the   *)
(* order of their start, who is in the map of subscribers, and that a      *)
(* subscriber without a generation is one that is about to start it.       *)
(* Then what the bus shows and to whom: the ring of the logs holds the     *)
(* latest entries, and a session admits whom it was opened for.            *)
(***************************************************************************)
EXTENDS LiveBus, Session, FiniteSetTheorems, TLAPS

InMap == Greeting \cup {"start", "stream"}

\* A connection is in the map from subscribe to unsubscribe.
Members ==
    /\ conn \in [Subs -> Greeting \cup {"none", "start", "stream", "stop", "unhook", "closed"}]
    /\ leaving \in [Subs -> Nat]
    /\ subs = {s \in Subs : conn[s] \in InMap}

\* The generations that exist, and those whose end is under way.
Numbered ==
    /\ gens \in Nat /\ gen \in 0..gens
    /\ ticking \cup logging \cup stopped \subseteq 1..gens
    /\ \A s \in Subs : conn[s] = "stop" => leaving[s] \in 1..gens /\ leaving[s] # gen

IInv == Members /\ Numbered /\ OneGeneration

\* The invariant holds initially.
LEMMA InitIInv == ASSUME Init PROVE IInv
BY DEF Init, IInv, Members, InMap, Numbered, OneGeneration, Greeted, Greeting

\* A connection that subscribes finds a generation, or will start one.
LEMMA SubscribeKeeps == ASSUME IInv, NEW s \in Subs, Subscribe(s) PROVE IInv'
<1> USE DEF IInv, Subscribe, At, loops
<1>1. Members'
  BY DEF Members, InMap, Greeting
<1>2. Numbered'
  BY DEF Numbered, Members
<1>3. OneGeneration'
  BY DEF OneGeneration, Greeted, Greeting, Members, Numbered
<1> QED
  BY <1>1, <1>2, <1>3

\* Only one of those that found none starts the generation, and its number is
\* that of no earlier one.
LEMMA StartKeeps == ASSUME IInv, NEW s \in Subs, Start(s) PROVE IInv'
<1> USE DEF IInv, Start, At, Launch
<1>1. Members'
  BY DEF Members, InMap, Greeting
<1>2. s \in subs
  BY DEF Members, InMap, Greeting
<1>3. CASE gen = 0 /\ Launch(gens + 1)
  <2> USE <1>3
  <2>1. gens \in Nat /\ gens' = gens + 1 /\ gen' = gens + 1 /\ gens + 1 \notin stopped
    BY DEF Numbered
  <2>2. Numbered'
    BY <2>1 DEF Numbered, Members
  <2>3. OneGeneration'
    BY <1>2, <2>1 DEF OneGeneration, Greeted, Greeting, Members, Numbered
  <2> QED
    BY <1>1, <2>2, <2>3
<1>4. CASE gen # 0 /\ UNCHANGED <<gen, gens, ticking, logging, hook>>
  BY <1>1, <1>4 DEF Numbered, OneGeneration, Greeted, Greeting, Members
<1> QED
  BY <1>3, <1>4

\* The last one out takes the generation with it; if anyone stays, so does the
\* generation.
LEMMA UnsubscribeKeeps == ASSUME IInv, NEW s \in Subs, Unsubscribe(s) PROVE IInv'
<1>0. s \in DOMAIN conn /\ s \in DOMAIN leaving
  BY DEF IInv, Members
<1> USE DEF IInv, Unsubscribe, At, loops
<1>1. Members'
  BY DEF Members, Numbered, InMap, Greeting
<1>2. s \in subs
  BY DEF Members, InMap, Greeting
<1>3. gen # 0
  BY DEF OneGeneration, Greeted, Greeting
<1>4. CASE subs = {s}
  <2> USE <1>3, <1>4
  <2>1. gen' = 0 /\ subs' = {} /\ conn'[s] = "stop" /\ leaving'[s] = gen
    BY <1>0
  <2>2. \A r \in Subs : r # s => conn[r] \notin InMap /\ conn'[r] = conn[r] /\ leaving'[r] = leaving[r]
    BY DEF Members
  <2>3. Numbered'
    BY <2>1, <2>2 DEF Numbered, Members
  <2>4. \A r \in Subs : ~Greeted(r)'
    BY <2>1, <2>2 DEF Greeted, Greeting, InMap
  <2>5. OneGeneration'
    BY <2>1, <2>2, <2>4 DEF OneGeneration
  <2> QED
    BY <1>1, <2>3, <2>5
<1>5. CASE subs # {s}
  <2> USE <1>2, <1>5
  <2>1. gen' = gen /\ subs' # {} /\ conn'[s] = "closed"
    BY DEF Members
  <2>2. \A r \in Subs : r # s => conn'[r] = conn[r] /\ leaving'[r] = leaving[r]
    BY DEF Members
  <2>3. Numbered'
    BY <2>1, <2>2 DEF Numbered, Members
  <2>4. OneGeneration'
    BY <2>1, <2>2 DEF OneGeneration, Greeted, Greeting
  <2> QED
    BY <1>1, <2>3, <2>4
<1> QED
  BY <1>4, <1>5

\* Closing the stop channel turns a generation that is about to end into one
\* that has been told to.
LEMMA CloseGenKeeps == ASSUME IInv, NEW s \in Subs, CloseGen(s) PROVE IInv'
<1> USE DEF IInv, CloseGen, At, bus
<1>1. Members'
  BY DEF Members, InMap, Greeting
<1>2. Numbered'
  BY DEF Numbered, Members
<1>3. \A r \in Subs : r # s => conn'[r] = conn[r] /\ leaving'[r] = leaving[r]
  BY DEF Members
<1>4. OneGeneration'
  BY <1>3 DEF OneGeneration, Greeted, Greeting, Members, Numbered
<1> QED
  BY <1>1, <1>2, <1>4

\* A loop ends only after its stop channel is closed.
LEMMA LoopKeeps == ASSUME IInv, NEW g, LoopStep(g) PROVE IInv'
BY DEF IInv, LoopStep, TickEnds, LogSubscribe, LogEnds, bus, Members, Numbered, OneGeneration,
       Greeted, Greeting

\* The steps of a connection that stays on its side of the map.
LEMMA ConnKeeps ==
    ASSUME IInv, NEW s \in Subs,
           GreetSnapshot(s) \/ ReadJobs(s) \/ GreetJobs(s) \/ Deliver(s) \/ Unhook(s)
    PROVE  IInv'
<1> USE DEF IInv, GreetSnapshot, TrySend, Drain, ReadJobs, GreetJobs, Deliver, Unhook, At, bus, loops
<1>1. UNCHANGED <<bus, loops, leaving>>
  OBVIOUS
<1>2. Members'
  BY <1>1 DEF Members, InMap, Greeting
<1>3. Numbered'
  BY <1>1 DEF Numbered, Members
<1>4. OneGeneration'
  BY <1>1 DEF OneGeneration, Greeted, Greeting, Members
<1> QED
  BY <1>2, <1>3, <1>4

\* Changes of the job list and frames concern neither map nor generations.
LEMMA OtherKeeps ==
    ASSUME IInv, UNCHANGED <<bus, stopped, ticking, logging, conn, leaving>> PROVE IInv'
BY DEF IInv, Members, Numbered, OneGeneration, Greeted, Greeting, bus

\* The invariant holds in every reachable state.
LEMMA IInvAlways == Spec => []IInv
<1>1. ASSUME IInv, [Next]_vars PROVE IInv'
  <2> USE <1>1
  <2>1. CASE UNCHANGED vars
    BY <2>1, OtherKeeps DEF vars, loops
  <2>2. ASSUME NEW s \in Subs, Subscribe(s) \/ SubscribeStep(s) \/ Unsubscribe(s) \/ LeaveStep(s)
        PROVE  IInv'
    BY <2>2, SubscribeKeeps, StartKeeps, UnsubscribeKeeps, CloseGenKeeps, ConnKeeps
    DEF SubscribeStep, LeaveStep
  <2>3. ASSUME NEW c \in Changes, ChangeJobs(c) \/ ChangeStep(c) PROVE IInv'
    BY <2>3, OtherKeeps DEF ChangeJobs, ChangeStep, NotifyChanged, Bump, ReadList, PushList,
                             loops
  <2>4. ASSUME NEW g \in Gens, TickPush(g) \/ LogPush(g) \/ LoopStep(g) PROVE IInv'
    BY <2>4, OtherKeeps, LoopKeeps DEF TickPush, LogPush, loops
  <2>5. CASE LogHandle
    BY <2>5, OtherKeeps DEF LogHandle
  <2> QED
    BY <2>1, <2>2, <2>3, <2>4, <2>5 DEF Next
<1> QED
  BY InitIInv, <1>1, PTL DEF Spec

\* A connection past start is served by one generation with both loops; no
\* generation outlives its subscribers (live.go:27, 60-95).
THEOREM OneGenerationCorrect == Spec => []OneGeneration
<1>1. IInv => OneGeneration
  BY DEF IInv
<1> QED
  BY IInvAlways, <1>1, PTL

-----------------------------------------------------------------------------
(* The types.  A connection starts at most one generation and a change      *)
(* makes one version, so both are counted.                                  *)

Conns == Greeting \cup {"none", "start", "stream", "stop", "unhook", "closed"}

Past == {s \in Subs : conn[s] \notin {"none", "start"}}
Made == {c \in Changes : change[c] # "none"}

Counts ==
    /\ conn \in [Subs -> Conns]
    /\ change \in [Changes -> {"none", "notify", "bump", "read", "push", "done"}]
    /\ gens \in Nat /\ gens <= Cardinality(Past)
    /\ version \in Nat /\ version <= Cardinality(Made)

Frames == Versions \cup {Other}

Queues ==
    /\ chan \in [Subs -> Seq(Frames)]
    /\ \A s \in Subs : Len(chan[s]) <= QueueCap
    /\ list \in [Subs \cup Changes -> Versions]
    /\ view \in [Subs -> Versions \cup {NoView}]

Hub ==
    /\ DOMAIN hub \subseteq logging /\ hub \in [DOMAIN hub -> 0..LogCap]
    /\ hook \in BOOLEAN

LEMMA CountsInit == Init => Counts /\ Queues /\ Hub
<1> SUFFICES ASSUME Init  PROVE Counts /\ Queues /\ Hub
  OBVIOUS
<1> USE LiveAssumption DEF Init
<1>1. Past = {} /\ Made = {}
  BY DEF Past, Made
<1>2. Counts
  BY <1>1, FS_EmptySet DEF Counts, Conns
<1>3. Cardinality(Changes) \in Nat
  BY FS_CardinalityType
<1>4. Queues
  BY <1>3 DEF Queues, Frames, Versions, NoView, Other
<1>5. hub = [x \in {} |-> 0]
  OBVIOUS
<1> QED BY <1>2, <1>4, <1>5 DEF Hub

\* The sets that are counted only grow.
LEMMA CountsGrow ==
    ASSUME Counts, conn' \in [Subs -> Conns],
           change' \in [Changes -> {"none", "notify", "bump", "read", "push", "done"}],
           Past \subseteq Past', Made \subseteq Made'
    PROVE  /\ Cardinality(Past) \in Nat /\ Cardinality(Past') \in Nat
           /\ Cardinality(Past) <= Cardinality(Past')
           /\ Cardinality(Made) \in Nat /\ Cardinality(Made') \in Nat
           /\ Cardinality(Made) <= Cardinality(Made')
<1>1. IsFiniteSet(Past') /\ IsFiniteSet(Past) /\ IsFiniteSet(Made') /\ IsFiniteSet(Made)
  <2>1. Past \subseteq Subs /\ Past' \subseteq Subs /\ Made \subseteq Changes /\ Made' \subseteq Changes
    BY DEF Past, Made
  <2> QED BY <2>1, FS_Subset, LiveAssumption
<1> QED BY <1>1, FS_CardinalityType, FS_Subset

\* A connection moves on, and starts nothing.
LEMMA ConnMoves ==
    ASSUME Counts, NEW s \in Subs, NEW here, NEW there \in Conns, At(s, here, there),
           here \notin {"none", "start"} => there \notin {"none", "start"},
           UNCHANGED <<gens, version, change>>
    PROVE  Counts'
<1>1. conn' \in [Subs -> Conns]
  BY DEF At, Counts
<1>2. Past \subseteq Past' /\ Made' = Made
  BY DEF At, Past, Made, Counts
<1> QED BY <1>1, <1>2, CountsGrow DEF Counts

LEMMA ChangeMoves ==
    ASSUME Counts, NEW c \in Changes, NEW here,
           NEW there \in {"notify", "bump", "read", "push", "done"},
           Step(c, here, there), UNCHANGED <<conn, gens, version>>
    PROVE  Counts'
<1>1. change' \in [Changes -> {"none", "notify", "bump", "read", "push", "done"}]
  BY DEF Step, Counts
<1>2. Past' = Past /\ Made \subseteq Made'
  BY DEF Step, Past, Made, Counts
<1> QED BY <1>1, <1>2, CountsGrow DEF Counts

LEMMA CountsStep == Counts /\ [Next]_vars => Counts'
<1> SUFFICES ASSUME Counts, [Next]_vars  PROVE Counts'
  OBVIOUS
<1>1. ASSUME UNCHANGED <<conn, change, gens, version>>  PROVE Counts'
  BY <1>1 DEF Counts, Past, Made
<1>2. ASSUME NEW s \in Subs, Subscribe(s) \/ ReadJobs(s) \/ Unsubscribe(s) \/ LeaveStep(s)
      PROVE  Counts'
  BY <1>2, ConnMoves DEF Subscribe, ReadJobs, Unsubscribe, LeaveStep, CloseGen, Unhook, Conns,
                         Greeting, bus
<1>9. ASSUME NEW s \in Subs, GreetSnapshot(s) \/ GreetJobs(s)  PROVE Counts'
  <2>1. PICK here \in Greeting, there \in Greeting \cup {"stream"} : At(s, here, there)
    BY <1>9 DEF GreetSnapshot, GreetJobs, TrySend, Drain, Greeting
  <2>2. UNCHANGED <<gens, version, change>>
    BY <1>9 DEF GreetSnapshot, GreetJobs, bus
  <2> QED BY <2>1, <2>2, ConnMoves DEF Conns, Greeting
<1>3. ASSUME NEW s \in Subs, Start(s)  PROVE Counts'
  <2>1. conn[s] = "start" /\ conn' = [conn EXCEPT ![s] = "snapshot"]
        /\ UNCHANGED <<change, version>> /\ (gens' = gens \/ gens' = gens + 1)
    BY <1>3 DEF Start, At, Launch
  <2>2. Past' = Past \cup {s} /\ s \notin Past /\ Made' = Made
    BY <2>1 DEF Past, Made, Counts
  <2>3. IsFiniteSet(Past)
    BY FS_Subset, LiveAssumption DEF Past
  <2>4. Cardinality(Past') = Cardinality(Past) + 1 /\ Cardinality(Past) \in Nat
    BY <2>2, <2>3, FS_AddElement, FS_CardinalityType
  <2> QED BY <2>1, <2>2, <2>4 DEF Counts, Conns, Greeting
<1>4. ASSUME NEW c \in Changes, ChangeJobs(c)  PROVE Counts'
  <2>1. change[c] = "none" /\ change' = [change EXCEPT ![c] = "notify"]
        /\ UNCHANGED <<conn, gens>> /\ version' = version + 1
    BY <1>4 DEF ChangeJobs, Step, bus
  <2>2. Made' = Made \cup {c} /\ c \notin Made /\ Past' = Past
    BY <2>1 DEF Past, Made, Counts
  <2>3. IsFiniteSet(Made)
    BY FS_Subset, LiveAssumption DEF Made
  <2>4. Cardinality(Made') = Cardinality(Made) + 1 /\ Cardinality(Made) \in Nat
    BY <2>2, <2>3, FS_AddElement, FS_CardinalityType
  <2> QED BY <2>1, <2>2, <2>4 DEF Counts
<1>5. ASSUME NEW c \in Changes, ChangeStep(c)  PROVE Counts'
  BY <1>5, ChangeMoves DEF ChangeStep, NotifyChanged, Bump, ReadList, PushList, bus
<1>6. ASSUME NEW s \in Subs, Deliver(s)  PROVE Counts'
  BY <1>1, <1>6 DEF Deliver, bus
<1>7. ASSUME NEW g \in Gens, TickPush(g) \/ LogPush(g) \/ LoopStep(g)  PROVE Counts'
  BY <1>1, <1>7 DEF TickPush, LogPush, LoopStep, TickEnds, LogSubscribe, LogEnds, bus
<1>8. CASE LogHandle \/ UNCHANGED vars
  BY <1>1, <1>8 DEF LogHandle, vars, bus
<1> QED BY <1>2, <1>3, <1>4, <1>5, <1>6, <1>7, <1>8, <1>9 DEF Next, SubscribeStep

\* The list is one of the versions.
LEMMA VersionIn == ASSUME Counts PROVE version \in Versions /\ gens <= Cardinality(Subs)
<1>1. Made \subseteq Changes /\ Past \subseteq Subs
  BY DEF Made, Past
<1>2. /\ Cardinality(Made) <= Cardinality(Changes) /\ Cardinality(Past) <= Cardinality(Subs)
      /\ Cardinality(Made) \in Nat /\ Cardinality(Changes) \in Nat
      /\ Cardinality(Past) \in Nat /\ Cardinality(Subs) \in Nat
  BY <1>1, FS_Subset, FS_CardinalityType, LiveAssumption
<1> QED BY <1>2 DEF Counts, Versions

LEMMA SentFits ==
    ASSUME NEW q \in Seq(Frames), Len(q) <= QueueCap, NEW f \in Frames
    PROVE  Sent(q, f) \in Seq(Frames) /\ Len(Sent(q, f)) <= QueueCap
  BY LiveAssumption DEF Sent

LEMMA PushFits ==
    ASSUME Queues, NEW f \in Frames, Push(f), UNCHANGED <<list, view>>
    PROVE  Queues'
  BY SentFits DEF Queues, Push

LEMMA QueuesStep == Counts /\ Queues /\ [Next]_vars => Queues'
<1> SUFFICES ASSUME Counts, Queues, [Next]_vars  PROVE Queues'
  OBVIOUS
<1>1. ASSUME UNCHANGED <<chan, list, view>>  PROVE Queues'
  BY <1>1 DEF Queues
<1>2. version \in Versions /\ Other \in Frames /\ Versions \subseteq Frames
  BY VersionIn DEF Frames
<1>3. ASSUME NEW s \in Subs, Subscribe(s) \/ Start(s) \/ CloseGen(s) \/ Unhook(s)  PROVE Queues'
  BY <1>1, <1>3 DEF Subscribe, Start, CloseGen, Unhook
<1>4. ASSUME NEW s \in Subs, GreetSnapshot(s) \/ GreetJobs(s)  PROVE Queues'
  <2>1. list[s] \in Frames
    BY <1>2 DEF Queues
  <2>2. \/ chan' = chan
        \/ chan' = [chan EXCEPT ![s] = <<>>]
        \/ Len(chan[s]) < QueueCap /\ \E f \in Frames : chan' = [chan EXCEPT ![s] = Append(@, f)]
    BY <1>2, <1>4, <2>1 DEF GreetSnapshot, GreetJobs, TrySend, Drain
  <2>3. UNCHANGED <<list, view>>
    BY <1>4 DEF GreetSnapshot, GreetJobs
  <2>4. \A r \in Subs : chan'[r] \in Seq(Frames) /\ Len(chan'[r]) <= QueueCap
    <3>1. CASE Len(chan[s]) < QueueCap /\ \E f \in Frames : chan' = [chan EXCEPT ![s] = Append(@, f)]
      <4>1. PICK f \in Frames : chan' = [chan EXCEPT ![s] = Append(@, f)]
        BY <3>1
      <4>2. Append(chan[s], f) \in Seq(Frames) /\ Len(Append(chan[s], f)) = Len(chan[s]) + 1
            /\ Len(chan[s]) \in Nat
        BY DEF Queues
      <4> QED BY <3>1, <4>1, <4>2, LiveAssumption DEF Queues
    <3>2. CASE chan' = chan
      BY <3>2 DEF Queues
    <3>3. CASE chan' = [chan EXCEPT ![s] = <<>>]
      <4>1. <<>> \in Seq(Frames) /\ Len(<<>>) = 0 /\ QueueCap \in Nat
        BY LiveAssumption
      <4> HIDE DEF Frames
      <4> QED BY <3>3, <4>1 DEF Queues
    <3> QED BY <2>2, <3>1, <3>2, <3>3
  <2>5. chan' \in [Subs -> Seq(Frames)]
    BY <2>2, <2>4 DEF Queues
  <2> QED BY <2>3, <2>4, <2>5 DEF Queues
<1>5. ASSUME NEW s \in Subs, ReadJobs(s)  PROVE Queues'
  BY <1>2, <1>5 DEF ReadJobs, Queues
<1>6. ASSUME NEW s \in Subs, Deliver(s)  PROVE Queues'
  <2>1. /\ chan[s] \in Seq(Frames) /\ chan[s] # <<>> /\ Len(chan[s]) <= QueueCap
        /\ chan' = [chan EXCEPT ![s] = Tail(@)]
        /\ view' = [view EXCEPT ![s] = IF Head(chan[s]) = Other THEN @ ELSE Head(chan[s])]
        /\ list' = list
    BY <1>6 DEF Deliver, Queues
  <2>2. Head(chan[s]) \in Frames /\ Tail(chan[s]) \in Seq(Frames) /\ Len(Tail(chan[s])) <= QueueCap
    BY <2>1, LiveAssumption
  <2>3. view' \in [Subs -> Versions \cup {NoView}]
    BY <2>1, <2>2 DEF Queues, Frames, NoView
  <2> QED BY <2>1, <2>2, <2>3 DEF Queues
<1>7. ASSUME NEW s \in Subs, Unsubscribe(s)  PROVE Queues'
  BY <1>7, LiveAssumption DEF Unsubscribe, Queues
<1>8. ASSUME NEW c \in Changes, ReadList(c)  PROVE Queues'
  BY <1>2, <1>8 DEF ReadList, Queues
<1>9. ASSUME NEW c \in Changes, PushList(c)  PROVE Queues'
  <2>1. list[c] \in Frames
    BY <1>2 DEF Queues
  <2> QED BY <1>9, <2>1, PushFits DEF PushList
<1>10. ASSUME NEW c \in Changes, ChangeJobs(c) \/ NotifyChanged(c) \/ Bump(c)  PROVE Queues'
  BY <1>1, <1>10 DEF ChangeJobs, NotifyChanged, Bump
<1>11. ASSUME NEW g \in Gens, TickPush(g) \/ LogPush(g)  PROVE Queues'
  BY <1>2, <1>11, PushFits DEF TickPush, LogPush
<1>12. ASSUME NEW g \in Gens, LoopStep(g)  PROVE Queues'
  BY <1>1, <1>12 DEF LoopStep, TickEnds, LogSubscribe, LogEnds
<1>13. CASE LogHandle \/ UNCHANGED vars
  BY <1>1, <1>13 DEF LogHandle, vars
<1> QED BY <1>3, <1>4, <1>5, <1>6, <1>7, <1>8, <1>9, <1>10, <1>11, <1>12, <1>13
        DEF Next, SubscribeStep, LeaveStep, ChangeStep

LEMMA HubStep == Hub /\ [Next]_vars => Hub'
<1> SUFFICES ASSUME Hub, [Next]_vars  PROVE Hub'
  OBVIOUS
<1> USE LiveAssumption
<1>1. ASSUME UNCHANGED <<hub, logging, hook>>  PROVE Hub'
  BY <1>1 DEF Hub
<1>2. ASSUME NEW s \in Subs, \/ Subscribe(s) \/ GreetSnapshot(s) \/ ReadJobs(s) \/ GreetJobs(s)
                             \/ Deliver(s) \/ Unsubscribe(s) \/ CloseGen(s)
      PROVE  Hub'
  BY <1>1, <1>2 DEF Subscribe, GreetSnapshot, TrySend, Drain, ReadJobs, GreetJobs, Deliver, Unsubscribe,
                    CloseGen, loops
<1>3. ASSUME NEW s \in Subs, Start(s) \/ Unhook(s)  PROVE Hub'
  BY <1>3 DEF Start, Launch, Unhook, loops, Hub
<1>4. ASSUME NEW c \in Changes, ChangeJobs(c) \/ ChangeStep(c)  PROVE Hub'
  BY <1>1, <1>4 DEF ChangeJobs, ChangeStep, NotifyChanged, Bump, ReadList, PushList, loops
<1>5. ASSUME NEW g \in Gens, TickPush(g) \/ TickEnds(g)  PROVE Hub'
  BY <1>1, <1>5 DEF TickPush, TickEnds, loops
<1>6. ASSUME NEW g \in Gens, LogSubscribe(g)  PROVE Hub'
  BY <1>6 DEF LogSubscribe, HubSubscribed, Hub
<1>7. ASSUME NEW g \in Gens, LogPush(g)  PROVE Hub'
  BY <1>7 DEF LogPush, Hub
<1>8. ASSUME NEW g \in Gens, LogEnds(g)  PROVE Hub'
  BY <1>8 DEF LogEnds, HubLeft, Hub
<1>9. CASE LogHandle
  BY <1>9 DEF LogHandle, Broadcast, Hub
<1>10. CASE UNCHANGED vars
  BY <1>1, <1>10 DEF vars, loops
<1> QED BY <1>2, <1>3, <1>4, <1>5, <1>6, <1>7, <1>8, <1>9, <1>10
        DEF Next, SubscribeStep, LeaveStep, LoopStep

\* Who leaves last has taken a generation that exists.
Taken == leaving \in [Subs -> {0} \cup Gens]

LEMMA GensBound ==
    ASSUME IInv, Counts
    PROVE  gen \in {0} \cup Gens /\ gens \in {0} \cup Gens /\ 1..gens \subseteq Gens
<1>1. gens \in Nat /\ gens <= Cardinality(Subs) /\ Cardinality(Subs) \in Nat
  BY VersionIn, FS_CardinalityType, LiveAssumption DEF Counts
<1> QED BY <1>1 DEF IInv, Numbered, Gens

LEMMA TakenStep == IInv /\ Counts /\ Taken /\ [Next]_vars => Taken'
<1> SUFFICES ASSUME IInv, Counts, Taken, [Next]_vars  PROVE Taken'
  OBVIOUS
<1>1. ASSUME NEW s \in Subs, Unsubscribe(s)  PROVE Taken'
  BY <1>1, GensBound DEF Unsubscribe, Taken
<1>2. ASSUME NEW s \in Subs, Subscribe(s) \/ SubscribeStep(s) \/ LeaveStep(s)
      PROVE  UNCHANGED leaving
  BY <1>2 DEF Subscribe, SubscribeStep, LeaveStep, Start, GreetSnapshot, TrySend, Drain, ReadJobs, GreetJobs,
              Deliver, CloseGen, Unhook
<1>3. ASSUME NEW c \in Changes, ChangeJobs(c) \/ ChangeStep(c)  PROVE UNCHANGED leaving
  BY <1>3 DEF ChangeJobs, ChangeStep, NotifyChanged, Bump, ReadList, PushList
<1>4. ASSUME NEW g \in Gens, TickPush(g) \/ LogPush(g) \/ LoopStep(g)  PROVE UNCHANGED leaving
  BY <1>4 DEF TickPush, LogPush, LoopStep, TickEnds, LogSubscribe, LogEnds
<1>5. LogHandle \/ UNCHANGED vars => UNCHANGED leaving
  BY DEF LogHandle, vars
<1> QED BY <1>1, <1>2, <1>3, <1>4, <1>5 DEF Next, Taken

\* The types; no queue outgrows its capacity, and the log loops alone hold the
\* subscriptions to the log (live.go:45, 98-151).
THEOREM TypeCorrect == Spec => []TypeOK
<1>1. Init => Taken
  BY DEF Init, Taken
<1>2. ASSUME IInv, Counts, Queues, Hub, Taken  PROVE TypeOK
  <2>1. /\ subs \subseteq Subs /\ gen \in {0} \cup Gens /\ gens \in {0} \cup Gens
        /\ stopped \subseteq Gens /\ ticking \subseteq Gens /\ logging \subseteq Gens
    BY <1>2, GensBound DEF IInv, Members, Numbered
  <2>2. version \in Versions
    BY <1>2, VersionIn
  <2> QED BY <1>2, <2>1, <2>2 DEF Counts, Conns, Queues, Frames, Hub, Taken, TypeOK
<1> QED BY <1>1, <1>2, IInvAlways, CountsInit, CountsStep, QueuesStep, HubStep, TakenStep, PTL
        DEF Spec

-----------------------------------------------------------------------------
\* The hook is set by a start; from then on there is a generation, or the one
\* who took it is on the way to removing the hook.
Hooked == hook => gen # 0 \/ \E s \in Subs : conn[s] \in {"stop", "unhook"}

\* Nobody is connected, or on the way in or out.
Deserted == \A s \in Subs : conn[s] \in {"none", "closed"}

\* A deserted bus has no generation and no hook, and every loop or log
\* subscription that is still there has been told to stop: what remains of
\* IdleCostsNothing is that the loops listen (live.go:78-95).
IdleIsStopped ==
    Deserted => gen = 0 /\ ~hook /\ ticking \cup logging \cup DOMAIN hub \subseteq stopped

\* While the map of subscribers is empty nothing is started: no loop, no
\* generation, no hook (live.go:60-76).
QuietWhileEmpty ==
    [][subs = {} =>
           /\ ticking' \subseteq ticking /\ logging' \subseteq logging
           /\ gens' = gens /\ gen' = 0 /\ (hook' => hook)]_vars

\* A generation is used once: the bus goes from one to the next only through
\* none, a closed stop channel stays closed, and a loop that was told to stop
\* or has ended is not started again (live.go:27, 64-95).
UsedOnce ==
    [][/\ gen # 0 => gen' \in {0, gen}
       /\ stopped \subseteq stopped'
       /\ \A g \in 1..gens : /\ g \in ticking' => g \in ticking
                             /\ g \in logging' => g \in logging
       /\ gens' # gens => gen = 0 /\ gen' = gens']_vars

\* Each step keeps the hook accounted for.
LEMMA HookedStep == ASSUME IInv, Hooked, [Next]_vars PROVE Hooked'
<1> USE DEF Hooked, IInv, Members
<1>1. ASSUME UNCHANGED <<hook, gen, conn>> PROVE Hooked'
  BY <1>1
<1>2. ASSUME NEW s \in Subs, Subscribe(s) \/ GreetSnapshot(s) \/ ReadJobs(s) \/ GreetJobs(s)
      PROVE  Hooked'
  <2>1. UNCHANGED <<hook, gen>> /\ conn[s] \notin {"stop", "unhook"}
    BY <1>2 DEF Subscribe, GreetSnapshot, TrySend, Drain, ReadJobs, GreetJobs, At, bus
  <2>2. \A r \in Subs : r # s => conn'[r] = conn[r]
    BY <1>2 DEF Subscribe, GreetSnapshot, TrySend, Drain, ReadJobs, GreetJobs, At
  <2> QED
    BY <2>1, <2>2
<1>3. ASSUME NEW s \in Subs, Start(s) PROVE Hooked'
  <2>1. CASE gen = 0 /\ Launch(gens + 1)
    BY <2>1 DEF Launch, Numbered
  <2>2. CASE UNCHANGED <<gen, gens, ticking, logging, hook>>
    BY <1>3, <2>2 DEF Start, At
  <2> QED
    BY <1>3, <2>1, <2>2 DEF Start
<1>4. ASSUME NEW s \in Subs, Unsubscribe(s) PROVE Hooked'
  <2>1. hook' = hook /\ conn[s] = "stream" /\ \A r \in Subs : r # s => conn'[r] = conn[r]
    BY <1>4 DEF Unsubscribe, At
  <2>2. CASE subs = {s} /\ gen # 0
    BY <1>4, <2>2 DEF Unsubscribe, At
  <2>3. CASE ~(subs = {s} /\ gen # 0)
    BY <1>4, <2>1, <2>3 DEF Unsubscribe
  <2> QED
    BY <2>2, <2>3
<1>5. ASSUME NEW s \in Subs, CloseGen(s) PROVE Hooked'
  BY <1>5 DEF CloseGen, At, bus
<1>6. ASSUME NEW s \in Subs, Unhook(s) PROVE Hooked'
  BY <1>6 DEF Unhook
<1>7. ASSUME NEW s \in Subs, Deliver(s) PROVE Hooked'
  BY <1>1, <1>7 DEF Deliver, bus
<1>8. ASSUME NEW c \in Changes, ChangeJobs(c) \/ ChangeStep(c) PROVE Hooked'
  BY <1>1, <1>8 DEF ChangeJobs, ChangeStep, NotifyChanged, Bump, ReadList, PushList, bus
<1>9. ASSUME NEW g \in Gens, TickPush(g) \/ LogPush(g) \/ LoopStep(g) PROVE Hooked'
  BY <1>1, <1>9 DEF TickPush, LogPush, LoopStep, TickEnds, LogSubscribe, LogEnds, bus
<1>10. CASE LogHandle \/ UNCHANGED vars
  BY <1>1, <1>10 DEF LogHandle, vars, bus
<1> QED
  BY <1>2, <1>3, <1>4, <1>5, <1>6, <1>7, <1>8, <1>9, <1>10 DEF Next, SubscribeStep, LeaveStep

\* A bus that everybody has left is stopped: no generation, no hook, and every
\* remaining loop has been told to end, however the last ones to leave and the
\* first ones to come raced (live.go:17-18, 60-95).
THEOREM IdleIsStoppedCorrect == Spec => []IdleIsStopped
<1>1. Init => Hooked /\ Hub
  BY CountsInit DEF Init, Hooked
<1>2. IInv /\ Hooked /\ [Next]_vars => Hooked'
  BY HookedStep
<1>3. ASSUME IInv, Hooked, Hub, Deserted PROVE IdleIsStopped
  <2>1. subs = {} /\ \A s \in Subs : conn[s] \notin {"stop", "unhook"}
    BY <1>3 DEF IInv, Members, InMap, Greeting, Deserted
  <2>2. gen = 0
    BY <1>3, <2>1 DEF IInv, OneGeneration
  <2>3. ~hook
    BY <1>3, <2>1, <2>2 DEF Hooked
  <2>4. ticking \cup logging \subseteq stopped
    BY <1>3, <2>1, <2>2 DEF IInv, OneGeneration, Numbered
  <2> QED
    BY <1>3, <2>2, <2>3, <2>4 DEF IdleIsStopped, Hub
<1>4. IInv /\ Hooked /\ Hub => IdleIsStopped
  BY <1>3 DEF IdleIsStopped
<1> QED
  BY <1>1, <1>2, <1>4, IInvAlways, HubStep, PTL DEF Spec

\* Nothing starts on a bus without subscribers: only a connection that is in
\* the map starts a generation (live.go:53-76).
THEOREM QuietWhileEmptyCorrect == Spec => QuietWhileEmpty
<1> DEFINE Moved == subs = {} =>
               /\ ticking' \subseteq ticking /\ logging' \subseteq logging
               /\ gens' = gens /\ gen' = 0 /\ (hook' => hook)
<1>1. ASSUME IInv, [Next]_vars PROVE Moved
  <2> SUFFICES ASSUME subs = {}
               PROVE  /\ ticking' \subseteq ticking /\ logging' \subseteq logging
                      /\ gens' = gens /\ gen' = 0 /\ (hook' => hook)
    OBVIOUS
  <2>1. gen = 0 /\ \A s \in Subs : conn[s] \notin InMap
    BY <1>1 DEF IInv, OneGeneration, Members
  <2>2. ASSUME NEW s \in Subs, SubscribeStep(s) \/ Unsubscribe(s) PROVE conn[s] \in InMap
    BY <2>2 DEF SubscribeStep, Start, GreetSnapshot, TrySend, Drain, ReadJobs, GreetJobs, Deliver, Unsubscribe,
                At, InMap, Greeting
  <2>3. ASSUME NEW s \in Subs, Subscribe(s) \/ LeaveStep(s) PROVE Moved
    BY <2>1, <2>3 DEF Subscribe, LeaveStep, CloseGen, Unhook, bus, loops
  <2>4. ASSUME NEW c \in Changes, ChangeJobs(c) \/ ChangeStep(c) PROVE Moved
    BY <2>1, <2>4 DEF ChangeJobs, ChangeStep, NotifyChanged, Bump, ReadList, PushList, bus, loops
  <2>5. ASSUME NEW g \in Gens, TickPush(g) \/ LogPush(g) \/ LoopStep(g) PROVE Moved
    BY <2>1, <2>5 DEF TickPush, LogPush, LoopStep, TickEnds, LogSubscribe, LogEnds, bus, loops
  <2>6. CASE LogHandle \/ UNCHANGED vars
    BY <2>1, <2>6 DEF LogHandle, vars, bus, loops
  <2> QED
    BY <1>1, <2>1, <2>2, <2>3, <2>4, <2>5, <2>6 DEF Next
<1> HIDE DEF Moved
<1>2. IInv /\ [Next]_vars => Moved
  BY <1>1
<1>3. [][Moved]_vars => QuietWhileEmpty
  BY PTL DEF QuietWhileEmpty, Moved
<1> QED
  BY <1>2, <1>3, IInvAlways, PTL DEF Spec

\* Each generation is started once, runs until it is stopped and never again,
\* and the next one begins only after the bus has none (live.go:64-95).
THEOREM UsedOnceCorrect == Spec => UsedOnce
<1> DEFINE Moved ==
      /\ gen # 0 => gen' \in {0, gen}
      /\ stopped \subseteq stopped'
      /\ \A g \in 1..gens : /\ g \in ticking' => g \in ticking
                            /\ g \in logging' => g \in logging
      /\ gens' # gens => gen = 0 /\ gen' = gens'
<1>1. ASSUME IInv, [Next]_vars PROVE Moved
  <2>1. gens \in Nat
    BY <1>1 DEF IInv, Numbered
  <2>2. ASSUME UNCHANGED <<gen, gens>>, stopped \subseteq stopped', ticking' \subseteq ticking,
               logging' \subseteq logging
        PROVE  Moved
    BY <2>2
  <2>3. ASSUME NEW s \in Subs, Start(s) PROVE Moved
    BY <2>1, <2>3 DEF Start, Launch
  <2>4. ASSUME NEW s \in Subs, Unsubscribe(s) PROVE Moved
    BY <2>4 DEF Unsubscribe, loops
  <2>5. ASSUME NEW s \in Subs, \/ Subscribe(s) \/ GreetSnapshot(s) \/ ReadJobs(s) \/ GreetJobs(s)
                               \/ Deliver(s) \/ LeaveStep(s)
        PROVE  Moved
    BY <2>2, <2>5 DEF Subscribe, GreetSnapshot, TrySend, Drain, ReadJobs, GreetJobs, Deliver, LeaveStep, CloseGen,
                      Unhook, bus, loops
  <2>6. ASSUME NEW c \in Changes, ChangeJobs(c) \/ ChangeStep(c) PROVE Moved
    BY <2>2, <2>6 DEF ChangeJobs, ChangeStep, NotifyChanged, Bump, ReadList, PushList, bus, loops
  <2>7. ASSUME NEW g \in Gens, TickPush(g) \/ LogPush(g) \/ LoopStep(g) PROVE Moved
    BY <2>2, <2>7 DEF TickPush, LogPush, LoopStep, TickEnds, LogSubscribe, LogEnds, bus, loops
  <2>8. CASE LogHandle \/ UNCHANGED vars
    BY <2>2, <2>8 DEF LogHandle, vars, bus, loops
  <2> QED
    BY <1>1, <2>3, <2>4, <2>5, <2>6, <2>7, <2>8 DEF Next, SubscribeStep
<1> HIDE DEF Moved
<1>2. IInv /\ [Next]_vars => Moved
  BY <1>1
<1>3. [][Moved]_vars => UsedOnce
  BY PTL DEF UsedOnce, Moved
<1> QED
  BY <1>2, <1>3, IInvAlways, PTL DEF Spec
-----------------------------------------------------------------------------
(* The ring of the logs. *)

\* The remainder is the one number below the divisor that differs from the
\* dividend by a multiple of it.
LEMMA Remainder ==
    ASSUME NEW c \in Nat \ {0}, NEW q \in Int, NEW b \in 0..(c - 1)
    PROVE  (c * q + b) % c = b
BY Z3

\* What is added to a remainder may be added before it is taken ...
LEMMA ModMultiple ==
    ASSUME NEW c \in Nat \ {0}, NEW n \in Int, NEW k \in Int
    PROVE  ((n % c) + k) % c = (n + k) % c
<1> DEFINE q == n \div c
           b == n % c
           p == (b + k) \div c
           z == (b + k) % c
<1>1. q \in Int /\ b \in Int /\ n = c * q + b
  OBVIOUS
<1>2. p \in Int /\ z \in 0..(c - 1) /\ b + k = c * p + z
  OBVIOUS
<1> HIDE DEF q, b, p, z
<1>3. c * q \in Int /\ c * p \in Int /\ c * q + c * p = c * (q + p)
  BY <1>1, <1>2, Z3
<1>4. n + k = c * (q + p) + z
  BY <1>1, <1>2, <1>3
<1> DEFINE w == q + p
<1>5. w \in Int
  BY <1>1, <1>2
<1> HIDE DEF w
<1>6. (c * w + z) % c = z
  BY <1>2, <1>5, Remainder
<1>7. (n + k) % c = z
  BY <1>4, <1>6 DEF w
<1> QED BY <1>7 DEF z, b

\* ... and less than the divisor changes it.
LEMMA ModDiffers ==
    ASSUME NEW c \in Nat \ {0}, NEW n \in Int, NEW k \in 1..(c - 1)
    PROVE  (n - k) % c # n % c
<1> SUFFICES ASSUME (n - k) % c = n % c  PROVE FALSE
  OBVIOUS
<1> DEFINE q == n \div c
           p == (n - k) \div c
           b == n % c
<1>1. q \in Int /\ n = c * q + b /\ b \in Int /\ p \in Int /\ n - k = c * p + b
  OBVIOUS
<1> HIDE DEF q, p, b
<1>2. k = c * (q - p)
  BY <1>1, Z3
<1> DEFINE d == q - p
<1>3. d \in Int /\ k = c * d
  BY <1>1, <1>2
<1> HIDE DEF d
<1>4. k % c = 0
  BY <1>3, Remainder
<1>5. k % c = k
  OBVIOUS
<1> QED BY <1>4, <1>5

IsRing(r, E) == r \in [cap : Nat \ {0}, buf : Seq(E), pos : Nat, full : BOOLEAN]

\* The ring holds the latest of the entries h it was given.
HoldsLatest(r, h) ==
    IF r.full
    THEN /\ Len(r.buf) = r.cap /\ Len(h) > r.cap /\ r.pos = Len(h) % r.cap
         /\ \A j \in (Len(h) - r.cap + 1)..Len(h) : r.buf[((j - 1) % r.cap) + 1] = h[j]
    ELSE r.buf = h /\ r.pos = 0 /\ Len(h) <= r.cap

\* A ring that has not grown to its capacity appends, any other replaces.
LEMMA PushGrows ==
    ASSUME NEW E, NEW r, IsRing(r, E), NEW h \in Seq(E), NEW e \in E, HoldsLatest(r, h),
           ~r.full, Len(r.buf) < r.cap
    PROVE  IsRing(RingPush(r, e), E) /\ HoldsLatest(RingPush(r, e), Append(h, e))
<1> DEFINE s == [r EXCEPT !.buf = Append(@, e)]
<1>1. RingPush(r, e) = s
  BY DEF RingPush
<1>2. s.cap = r.cap /\ s.buf = Append(r.buf, e) /\ s.pos = r.pos /\ s.full = r.full
  BY DEF IsRing
<1>3. IsRing(s, E)
  <2>1. Append(r.buf, e) \in Seq(E)
    BY DEF IsRing
  <2> QED BY <2>1 DEF IsRing
<1> HIDE DEF s
<1>4. HoldsLatest(s, Append(h, e))
  BY <1>2 DEF IsRing, HoldsLatest
<1> QED BY <1>1, <1>3, <1>4

LEMMA FirstRound ==
    ASSUME NEW c \in Nat \ {0}
    PROVE  c % c = 0 /\ \A j \in 1..c : (j - 1) % c = j - 1
  OBVIOUS

\* The latest c entries but the oldest are not where the next one goes.
LEMMA OthersStay ==
    ASSUME NEW c \in Nat \ {0}, NEW n \in Nat, NEW j \in (n - c + 2)..n
    PROVE  (j - 1) % c # n % c
<1> DEFINE k == n - (j - 1)
<1>1. k \in 1..(c - 1) /\ j - 1 = n - k
  OBVIOUS
<1> HIDE DEF k
<1>2. n \in Int
  OBVIOUS
<1>3. (n - k) % c # n % c
  BY <1>1, <1>2, ModDiffers, Zenon
<1> QED BY <1>1, <1>3

LEMMA PushReplaces ==
    ASSUME NEW E, NEW r, IsRing(r, E), NEW h \in Seq(E), NEW e \in E, HoldsLatest(r, h),
           r.full \/ ~(Len(r.buf) < r.cap)
    PROVE  IsRing(RingPush(r, e), E) /\ HoldsLatest(RingPush(r, e), Append(h, e))
<1> DEFINE s == [r EXCEPT !.buf[r.pos + 1] = e, !.pos = (@ + 1) % r.cap, !.full = TRUE]
           c == r.cap
           n == Len(h)
           b == [r.buf EXCEPT ![r.pos + 1] = e]
           g == Append(h, e)
<1>1. RingPush(r, e) = s
  BY DEF RingPush, IsRing
<1>2. /\ s.cap = c /\ s.buf = b /\ s.pos = (r.pos + 1) % c /\ s.full
      /\ r.buf \in Seq(E) /\ c \in Nat \ {0} /\ n \in Nat /\ r.pos \in Nat
  BY DEF IsRing
<1>3. /\ Len(r.buf) = c /\ n >= c /\ r.pos = n % c
      /\ \A j \in (n - c + 1)..n : r.buf[((j - 1) % c) + 1] = h[j]
  <2>1. CASE r.full
    BY <1>2, <2>1 DEF HoldsLatest
  <2>2. CASE ~r.full
    <3>1. r.buf = h /\ r.pos = 0 /\ n = c
      BY <1>2, <2>2 DEF HoldsLatest
    <3>2. c % c = 0 /\ \A j \in 1..c : (j - 1) % c = j - 1
      BY <1>2, FirstRound, Zenon
    <3>3. ASSUME NEW j \in (n - c + 1)..n  PROVE r.buf[((j - 1) % c) + 1] = h[j]
      <4>1. j \in 1..c /\ j - 1 + 1 = j
        BY <1>2, <3>1
      <4>2. (j - 1) % c = j - 1
        BY <3>2, <4>1, Zenon
      <4> QED BY <3>1, <4>1, <4>2
    <3>4. r.pos = n % c /\ Len(r.buf) = c /\ n >= c
      BY <1>2, <3>1, <3>2
    <3> QED BY <3>3, <3>4
  <2> QED BY <2>1, <2>2
<1>4. /\ Len(g) = n + 1 /\ g[n + 1] = e /\ \A j \in 1..n : g[j] = h[j]
      /\ b \in Seq(E) /\ Len(b) = c /\ b[r.pos + 1] = e
      /\ \A i \in 1..c : i # r.pos + 1 => b[i] = r.buf[i]
  <2>1. r.pos + 1 \in 1..c
    BY <1>2, <1>3
  <2> QED BY <1>2, <1>3, <2>1
<1> HIDE DEF s, c, n, b, g
<1>5. r.pos \in 0..(c - 1) /\ (r.pos + 1) % c = (n + 1) % c
  <2>1. n % c \in 0..(c - 1) /\ n \in Int /\ 1 \in Int
    BY <1>2
  <2>2. ((n % c) + 1) % c = (n + 1) % c
    BY <1>2, <2>1, ModMultiple, Zenon
  <2> QED BY <1>3, <2>1, <2>2
<1>6. \A j \in (n - c + 2)..(n + 1) : b[((j - 1) % c) + 1] = g[j]
  <2> TAKE j \in (n - c + 2)..(n + 1)
  <2>1. j \in 1..(n + 1) /\ (j - 1) % c \in 0..(c - 1)
    BY <1>2, <1>3
  <2>2. CASE j = n + 1
    BY <1>2, <1>3, <1>4, <2>2
  <2>3. CASE j # n + 1
    <3>1. j \in (n - c + 2)..n /\ j \in (n - c + 1)..n
      BY <1>2, <2>3
    <3>2. (j - 1) % c # n % c
      BY <1>2, <3>1, OthersStay
    <3>3. b[((j - 1) % c) + 1] = r.buf[((j - 1) % c) + 1]
      BY <1>2, <1>3, <1>4, <2>1, <3>2
    <3>4. r.buf[((j - 1) % c) + 1] = h[j] /\ g[j] = h[j]
      BY <1>2, <1>3, <1>4, <2>1, <3>1
    <3> QED BY <3>3, <3>4
  <2> QED BY <2>2, <2>3
<1>7. IsRing(s, E)
  <2>1. (r.pos + 1) % c \in Nat
    BY <1>2
  <2> QED BY <1>2, <1>4, <2>1 DEF IsRing, s, b, c
<1>8. HoldsLatest(s, g)
  <2>1. s.full /\ s.buf = b /\ s.cap = c /\ s.pos = (n + 1) % c /\ Len(g) = n + 1
    BY <1>2, <1>4, <1>5, Zenon
  <2>2. n + 1 > c /\ (n + 1) - c + 1 = n - c + 2
    BY <1>2, <1>3
  <2> QED BY <1>4, <1>6, <2>1, <2>2 DEF HoldsLatest
<1> QED BY <1>1, <1>7, <1>8 DEF g

\* Whatever is written to the ring, it holds the latest entries it was given,
\* as many as it has room for (stream.go:75-127): a new ring holds what it was
\* given, nothing, and a push keeps that true of the entries and the new one.
THEOREM RingHoldsLatest ==
    ASSUME NEW E
    PROVE  /\ \A cap \in Int : IsRing(NewRing(cap), E) /\ HoldsLatest(NewRing(cap), <<>>)
           /\ \A r : \A h \in Seq(E), e \in E : (IsRing(r, E) /\ HoldsLatest(r, h)) =>
                  IsRing(RingPush(r, e), E) /\ HoldsLatest(RingPush(r, e), Append(h, e))
<1>1. ASSUME NEW cap \in Int  PROVE IsRing(NewRing(cap), E) /\ HoldsLatest(NewRing(cap), <<>>)
  BY DEF NewRing, IsRing, HoldsLatest, DefaultRing
<1>2. ASSUME NEW r, NEW h \in Seq(E), NEW e \in E, IsRing(r, E), HoldsLatest(r, h)
      PROVE  IsRing(RingPush(r, e), E) /\ HoldsLatest(RingPush(r, e), Append(h, e))
  BY <1>2, PushGrows, PushReplaces
<1> QED BY <1>1, <1>2

\* What a snapshot looks through, from the newest entry backwards, is the end
\* of what was written: nothing is skipped, repeated or reordered where the
\* ring goes round (stream.go:130-160).
THEOREM SnapshotReadsLatest ==
    ASSUME NEW E, NEW r, IsRing(r, E), NEW h \in Seq(E), HoldsLatest(r, h),
           NEW k \in 1..Len(r.buf)
    PROVE  Around(r, IF r.full THEN r.pos - 1 ELSE Len(r.buf) - 1, 1 - k) = h[Len(h) + 1 - k]
<1> DEFINE n == Len(h)
           c == Len(r.buf)
<1>0. c \in Nat \ {0} /\ k \in 1..c /\ n \in Nat /\ r.pos \in Nat
  BY DEF IsRing
<1>1. CASE ~r.full
  <2>1. c - 1 + (1 - k) = n - k /\ c = n /\ n - k \in 0..(c - 1) /\ r.buf = h
    BY <1>0, <1>1 DEF HoldsLatest
  <2>2. (n - k) % c = n - k
    BY <1>0, <2>1
  <2> QED BY <1>0, <1>1, <2>1, <2>2 DEF Around
<1>2. CASE r.full
  <2>1. /\ n > c /\ r.pos = n % c /\ r.cap = c
        /\ \A j \in (n - c + 1)..n : r.buf[((j - 1) % c) + 1] = h[j]
    BY <1>2 DEF HoldsLatest
  <2>2. r.pos - 1 + (1 - k) = r.pos + (-k)
    BY <1>0
  <2>3. (r.pos + (-k)) % c = (n + (-k)) % c
    <3> HIDE DEF n, c
    <3>1. -k \in Int
      BY <1>0
    <3>2. n \in Int
      BY <1>0
    <3>3. ((n % c) + (-k)) % c = (n + (-k)) % c
      BY <1>0, <3>1, <3>2, ModMultiple, Zenon
    <3> QED BY <2>1, <3>3
  <2>4. n + 1 - k \in (n - c + 1)..n /\ (n + 1 - k) - 1 = n + (-k)
    BY <1>0, <2>1
  <2>5. r.buf[((n + (-k)) % c) + 1] = h[n + 1 - k]
    BY <2>1, <2>4
  <2> QED BY <1>2, <2>2, <2>3, <2>5 DEF Around
<1> QED BY <1>1, <1>2

-----------------------------------------------------------------------------
(* Who may use the console. *)

\* Sessions that are open: a function from tokens to their passwords and ends.
IsSessions(f) == \A t \in DOMAIN f : f[t].expire \in Int

\* Whom each step admits, for every token, password and time: a login with the
\* right password admits its own token until its time is over, ...
THEOREM LoginAdmits ==
    ASSUME NEW f, NEW token, NEW password, NEW given, NEW remember \in BOOLEAN, NEW now \in Nat,
           NEW t, NEW p, NEW later \in Nat,
           password # Unprotected, given = password, IsSessions(f)
    PROVE  LET g == Login(f, token, password, given, remember, now)
           IN  /\ IsSessions(g)
               /\ Valid(g, t, p, later) <=>
                      IF t = token
                      THEN /\ p = password
                           /\ later <= now + (IF remember THEN TTLRemember ELSE TTLShort)
                      ELSE Valid(f, t, p, later)
<1> DEFINE g == Login(f, token, password, given, remember, now)
           ends == now + (IF remember THEN TTLRemember ELSE TTLShort)
<1>1. g = [u \in DOMAIN f \cup {token} |->
              IF u = token THEN [password |-> password, expire |-> ends] ELSE f[u]]
  BY DEF Login, Create
<1>2. ends \in Int
  BY SessionAssumption
<1> HIDE DEF g, ends
<1>3. IsSessions(g)
  BY <1>1, <1>2 DEF IsSessions
<1>4. Expired(g, t, later) <=> IF t = token THEN ~(later <= ends) ELSE Expired(f, t, later)
  BY <1>1, <1>2 DEF Expired
<1>5. Valid(g, t, p, later) <=> t \in DOMAIN g /\ ~Expired(g, t, later) /\ g[t].password = p
  BY DEF Valid, Swept, Delete, Restrict
<1>6. Valid(f, t, p, later) <=> t \in DOMAIN f /\ ~Expired(f, t, later) /\ f[t].password = p
  BY DEF Valid, Swept, Delete, Restrict
<1>7. Valid(g, t, p, later) <=>
          IF t = token THEN p = password /\ later <= ends ELSE Valid(f, t, p, later)
  <2>1. CASE t = token
    BY <1>1, <1>4, <1>5, <2>1
  <2>2. CASE t # token
    BY <1>1, <1>4, <1>5, <1>6, <2>2
  <2> QED BY <2>1, <2>2
<1> QED BY <1>3, <1>7 DEF g, ends

\* ... a logout takes that back and nothing else, ...
THEOREM LogoutRefuses ==
    ASSUME NEW f, IsSessions(f), NEW token, NEW t, NEW p, NEW later \in Nat
    PROVE  /\ IsSessions(Delete(f, token))
           /\ Valid(Delete(f, token), t, p, later) <=> t # token /\ Valid(f, t, p, later)
<1>1. IsSessions(Delete(f, token))
  BY DEF IsSessions, Delete, Restrict
<1>2. Valid(Delete(f, token), t, p, later) <=> t # token /\ Valid(f, t, p, later)
  BY DEF Valid, Swept, Delete, Restrict, Expired
<1> QED BY <1>1, <1>2

\* ... and asking decides nothing, for the token asked for and for all others,
\* although it removes the session it finds expired: who is admitted afterwards
\* is who would have been, and who is refused stays refused
\* (session.go:39-54, admin.go:69-87).
THEOREM AskingDecidesNothing ==
    ASSUME NEW f, IsSessions(f), NEW asked, NEW t, NEW password, NEW p,
           NEW now \in Nat, NEW later \in Nat, now <= later
    PROVE  /\ Valid(RequireAuth(f, asked, password, now), t, p, later) <=> Valid(f, t, p, later)
           /\ Valid(f, t, p, later) => Valid(f, t, p, now)
<1>1. \A g, n : Valid(g, t, p, n) <=> t \in DOMAIN g /\ ~Expired(g, t, n) /\ g[t].password = p
  BY DEF Valid, Swept, Delete, Restrict
<1>2. Expired(f, t, now) => Expired(f, t, later)
  BY DEF Expired, IsSessions
<1>5. Expired(f, asked, now) => Expired(f, asked, later)
  BY DEF Expired, IsSessions
<1> DEFINE g == RequireAuth(f, asked, password, now)
<1>3. CASE password = Unprotected \/ ~Expired(f, asked, now)
  <2>1. g = f
    BY <1>3 DEF RequireAuth, Swept
  <2> QED BY <1>1, <1>2, <2>1
<1>4. CASE password # Unprotected /\ Expired(f, asked, now)
  <2>1. DOMAIN g = DOMAIN f \ {asked} /\ \A u \in DOMAIN g : g[u] = f[u]
    BY <1>4 DEF RequireAuth, Swept, Delete, Restrict
  <2>2. t # asked => (Expired(g, t, later) <=> Expired(f, t, later))
    BY <2>1 DEF Expired
  <2> HIDE DEF g
  <2>3. /\ Valid(g, t, p, later) <=> Valid(f, t, p, later)
        /\ Valid(f, t, p, later) => Valid(f, t, p, now)
    <3>1. CASE t = asked
      <4>1. t \notin DOMAIN g /\ Expired(f, t, later)
        BY <1>4, <2>1, <3>1, <1>5
      <4> QED BY <1>1, <4>1
    <3>2. CASE t # asked
      BY <1>1, <1>2, <2>1, <2>2, <3>2
    <3> QED BY <3>1, <3>2
  <2> QED BY <2>3 DEF g
<1> QED BY <1>3, <1>4
=============================================================================
