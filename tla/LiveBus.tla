------------------------------ MODULE LiveBus ------------------------------
(***************************************************************************)
(* The live bus of the admin console, lib/admin/live.go: connections that  *)
(* subscribe and leave, the background loops that run while there is a     *)
(* subscriber, the hook through which lib/schedule reports changes of the  *)
(* job list, and the bounded frame queue of each connection.               *)
(*                                                                         *)
(* The bus reads the log entries of lib/logx from the hub of LogHub.       *)
(*                                                                         *)
(* A job list is a version number.  What a snapshot or a log frame holds   *)
(* is left out; neither holds the job list, so both are Other.             *)
(***************************************************************************)
EXTENDS LogHub, FiniteSets

CONSTANTS
    Subs,       \* connections to the stream, each made and left once
    Changes,    \* changes of the job list, each reported by NotifyChanged
    QueueCap,   \* capacity of liveSub.ch (8)
    LogCap      \* capacity of the channel of a subscriber to the log (128)

ASSUME LiveAssumption ==
    /\ IsFiniteSet(Subs) /\ IsFiniteSet(Changes)
    /\ QueueCap \in Nat \ {0} /\ LogCap \in Nat \ {0}

VARIABLES
    subs,       \* the map subs
    gen,        \* the generation b.gen points to, 0 for nil
    gens,       \* how many generations have been started
    stopped,    \* generations whose stop channel is closed
    ticking,    \* generations whose tickLoop runs
    logging,    \* generations whose logLoop runs
    hub,        \* the subscriptions to the log, held by generations
    hook,       \* schedule's changeHook is set
    version,    \* the job list
    conn,       \* where the handler of a connection stands
    leaving,    \* the generation an unsubscriber has taken from b.gen
    change,     \* where the goroutine that made a change stands
    list,       \* the job list a connection or a change has read
    chan,       \* liveSub.ch
    view        \* the job list the browser shows

bus      == <<subs, gen, gens>>
loops    == <<stopped, ticking, logging, hub>>
vars     == <<bus, loops, hook, version, conn, leaving, change, list, chan, view>>

Gens     == 1..Cardinality(Subs)
Versions == 0..Cardinality(Changes)
Other    == Cardinality(Changes) + 1     \* a frame without a job list
NoView   == Other

Init ==
    /\ subs = {} /\ gen = 0 /\ gens = 0
    /\ stopped = {} /\ ticking = {} /\ logging = {} /\ hub = <<>>
    /\ hook = FALSE /\ version = 0
    /\ conn = [s \in Subs |-> "none"]
    /\ leaving = [s \in Subs |-> 0]
    /\ change = [c \in Changes |-> "none"]
    /\ list = [x \in Subs \cup Changes |-> 0]
    /\ chan = [s \in Subs |-> <<>>]
    /\ view = [s \in Subs |-> NoView]

-----------------------------------------------------------------------------
\* send under mu: a full queue is emptied first.
SentUnboundedMutant(queue, frame) == Append(queue, frame)

Sent(queue, frame) == IF Len(queue) < QueueCap THEN Append(queue, frame) ELSE <<frame>>

\* push, under mu: to every subscriber.
Push(frame) == chan' = [s \in Subs |-> IF s \in subs THEN Sent(chan[s], frame) ELSE chan[s]]

\* The stages of subscribe after start.
Greeting == {"snapshot", "full", "again", "jobs", "send", "fullJobs", "againJobs"}

At(s, here, there) == conn[s] = here /\ conn' = [conn EXCEPT ![s] = there]

\* subscribe, its critical section: enter the map, and see whether to start.
Subscribe(s) ==
    /\ At(s, "none", IF gen = 0 THEN "start" ELSE "snapshot")
    /\ subs' = subs \cup {s}
    /\ UNCHANGED <<gen, gens, loops, hook, version, leaving, change, list, chan, view>>

\* start: unless another subscriber was faster, a generation with its loops,
\* and the hook.
Launch(g) ==
    /\ gens' = g /\ gen' = g
    /\ ticking' = ticking \cup {g} /\ logging' = logging \cup {g}
    /\ hook' = TRUE

StartAlwaysMutant(s) ==
    /\ At(s, "start", "snapshot")
    /\ Launch(gens + 1)
    /\ UNCHANGED <<subs, stopped, hub, version, leaving, change, list, chan, view>>

Start(s) ==
    /\ At(s, "start", "snapshot")
    /\ \/ gen = 0 /\ Launch(gens + 1)
       \/ gen # 0 /\ UNCHANGED <<gen, gens, ticking, logging, hook>>
    /\ UNCHANGED <<subs, stopped, hub, version, leaving, change, list, chan, view>>

\* send by the subscriber itself, which no longer holds mu: others push between
\* its look at a full queue, the moment it finds the queue empty, and the second
\* try, which gives the frame up.
TrySend(s, here, there, full, frame) ==
    LET room == Len(chan[s]) < QueueCap
    IN  /\ At(s, here, IF room THEN there ELSE full)
        /\ chan' = IF room THEN [chan EXCEPT ![s] = Append(@, frame)] ELSE chan

Drain(s, here, there) == At(s, here, there) /\ chan' = [chan EXCEPT ![s] = <<>>]

\* subscribe, after that: a snapshot, and the job list.
GreetSnapshot(s) ==
    /\ \/ TrySend(s, "snapshot", "jobs", "full", Other)
       \/ Drain(s, "full", "again")
       \/ TrySend(s, "again", "jobs", "jobs", Other)
    /\ UNCHANGED <<bus, loops, hook, version, leaving, change, list, view>>

ReadJobs(s) ==
    /\ At(s, "jobs", "send")
    /\ list' = [list EXCEPT ![s] = version]
    /\ UNCHANGED <<bus, loops, hook, version, leaving, change, chan, view>>

GreetJobs(s) ==
    /\ \/ TrySend(s, "send", "stream", "fullJobs", list[s])
       \/ Drain(s, "fullJobs", "againJobs")
       \/ TrySend(s, "againJobs", "stream", "stream", list[s])
    /\ UNCHANGED <<bus, loops, hook, version, leaving, change, list, view>>

\* handleStream: a frame is written to the client.
Deliver(s) ==
    /\ conn[s] = "stream" /\ chan[s] # <<>>
    /\ chan' = [chan EXCEPT ![s] = Tail(@)]
    /\ view' = [view EXCEPT ![s] = IF Head(chan[s]) = Other THEN @ ELSE Head(chan[s])]
    /\ UNCHANGED <<bus, loops, hook, version, conn, leaving, change, list>>

\* unsubscribe, its critical section: the last one takes the generation.
Unsubscribe(s) ==
    /\ LET last == subs = {s} /\ gen # 0
       IN  /\ At(s, "stream", IF last THEN "stop" ELSE "closed")
           /\ leaving' = [leaving EXCEPT ![s] = IF last THEN gen ELSE 0]
           /\ gen' = IF last THEN 0 ELSE gen
    /\ subs' = subs \ {s}
    /\ chan' = [chan EXCEPT ![s] = <<>>]
    /\ UNCHANGED <<gens, loops, hook, version, change, list, view>>

\* unsubscribe, after that: stop the loops, and remove the hook.
CloseGen(s) ==
    /\ At(s, "stop", "unhook")
    /\ stopped' = stopped \cup {leaving[s]}
    /\ UNCHANGED <<bus, ticking, logging, hub, hook, version, leaving, change, list, chan, view>>

UnhookNotMutant(s) ==
    /\ At(s, "unhook", "closed")
    /\ UNCHANGED <<bus, loops, hook, version, leaving, change, list, chan, view>>

Unhook(s) ==
    /\ At(s, "unhook", "closed")
    /\ hook' = FALSE
    /\ UNCHANGED <<bus, loops, version, leaving, change, list, chan, view>>

-----------------------------------------------------------------------------
\* tickLoop: a frame every second, also once more after the stop channel is
\* closed if both cases of the select are ready.
TickPush(g) ==
    /\ g \in ticking
    /\ Push(Other)
    /\ UNCHANGED <<bus, loops, hook, version, conn, leaving, change, list, view>>

TickEnds(g) ==
    /\ g \in stopped \cap ticking
    /\ ticking' = ticking \ {g}
    /\ UNCHANGED <<bus, stopped, logging, hub, hook, version, conn, leaving, change, list, chan, view>>

\* logLoop: it subscribes to the log, turns entries into frames, and leaves the
\* hub when it is stopped.
LogSubscribe(g) ==
    /\ g \in logging \ DOMAIN hub
    /\ hub' = HubSubscribed(hub, g)
    /\ UNCHANGED <<bus, stopped, ticking, logging, hook, version, conn, leaving, change, list,
                   chan, view>>

LogPush(g) ==
    /\ g \in DOMAIN hub /\ hub[g] > 0
    /\ hub' = [hub EXCEPT ![g] = @ - 1]
    /\ Push(Other)
    /\ UNCHANGED <<bus, stopped, ticking, logging, hook, version, conn, leaving, change, list, view>>

LogEnds(g) ==
    /\ g \in stopped \cap DOMAIN hub
    /\ hub' = HubLeft(hub, g)
    /\ logging' = logging \ {g}
    /\ UNCHANGED <<bus, stopped, ticking, hook, version, conn, leaving, change, list, chan, view>>

\* scopeHandler.Handle: any goroutine of the program writes to the log.
LogHandle ==
    /\ hub' = Broadcast(hub, LogCap)
    /\ UNCHANGED <<bus, stopped, ticking, logging, hook, version, conn, leaving, change, list,
                   chan, view>>

-----------------------------------------------------------------------------
Step(c, here, there) == change[c] = here /\ change' = [change EXCEPT ![c] = there]

\* A call of lib/schedule changes the list and then calls NotifyChanged, which
\* calls the hook it finds.
ChangeJobs(c) ==
    /\ Step(c, "none", "notify")
    /\ version' = version + 1
    /\ UNCHANGED <<bus, loops, hook, conn, leaving, list, chan, view>>

NotifyChanged(c) ==
    /\ Step(c, "notify", IF hook THEN "bump" ELSE "done")
    /\ UNCHANGED <<bus, loops, hook, version, conn, leaving, list, chan, view>>

\* bumpJobs: nothing without subscribers, else read the list and push it.
Bump(c) ==
    /\ Step(c, "bump", IF subs = {} THEN "done" ELSE "read")
    /\ UNCHANGED <<bus, loops, hook, version, conn, leaving, list, chan, view>>

ReadList(c) ==
    /\ Step(c, "read", "push")
    /\ list' = [list EXCEPT ![c] = version]
    /\ UNCHANGED <<bus, loops, hook, version, conn, leaving, chan, view>>

PushList(c) ==
    /\ Step(c, "push", "done")
    /\ Push(list[c])
    /\ UNCHANGED <<bus, loops, hook, version, conn, leaving, list, view>>

-----------------------------------------------------------------------------
SubscribeStep(s) == Start(s) \/ GreetSnapshot(s) \/ ReadJobs(s) \/ GreetJobs(s) \/ Deliver(s)
LeaveStep(s)     == CloseGen(s) \/ Unhook(s)
LoopStep(g)      == TickEnds(g) \/ LogSubscribe(g) \/ LogEnds(g)
ChangeStep(c)    == NotifyChanged(c) \/ Bump(c) \/ ReadList(c) \/ PushList(c)

Next ==
    \/ \E s \in Subs : Subscribe(s) \/ SubscribeStep(s) \/ Unsubscribe(s) \/ LeaveStep(s)
    \/ \E c \in Changes : ChangeJobs(c) \/ ChangeStep(c)
    \/ \E g \in Gens : TickPush(g) \/ LogPush(g) \/ LoopStep(g)
    \/ LogHandle

\* Goroutines run; a loop whose stop channel is closed takes that case in the
\* end.  Nobody has to subscribe, to leave or to change a job.
Fairness ==
    /\ \A s \in Subs : WF_vars(SubscribeStep(s)) /\ WF_vars(LeaveStep(s))
    /\ \A c \in Changes : WF_vars(ChangeStep(c))
    /\ \A g \in Gens : WF_vars(TickEnds(g)) /\ WF_vars(LogSubscribe(g) \/ LogEnds(g))

Spec == Init /\ [][Next]_vars

FairSpec == Spec /\ Fairness

-----------------------------------------------------------------------------
\* The types of the state; a queue stays within its capacity (live.go:45).
TypeOK ==
    /\ subs \subseteq Subs /\ gen \in {0} \cup Gens /\ gens \in {0} \cup Gens
    /\ stopped \subseteq Gens /\ ticking \subseteq Gens /\ logging \subseteq Gens
    /\ DOMAIN hub \subseteq logging /\ hub \in [DOMAIN hub -> 0..LogCap]
    /\ hook \in BOOLEAN /\ version \in Versions
    /\ conn \in [Subs -> Greeting \cup {"none", "start", "stream", "stop", "unhook", "closed"}]
    /\ leaving \in [Subs -> {0} \cup Gens]
    /\ change \in [Changes -> {"none", "notify", "bump", "read", "push", "done"}]
    /\ list \in [Subs \cup Changes -> Versions]
    /\ chan \in [Subs -> Seq(Versions \cup {Other})]
    /\ \A s \in Subs : Len(chan[s]) <= QueueCap
    /\ view \in [Subs -> Versions \cup {NoView}]

Greeted(s) == conn[s] \in Greeting \cup {"stream"}

\* However subscribers come and go, a connection that is past start has one
\* generation with both loops running, no generation outlives its subscribers,
\* and every other generation's loops have been or are about to be told to
\* stop (live.go:27, 60-95).
OneGeneration ==
    /\ \A s \in Subs : Greeted(s) => gen # 0
    /\ gen # 0 => subs # {} /\ gen \in (ticking \cap logging) \ stopped
    /\ \A g \in (ticking \cup logging) \ stopped :
          g = gen \/ \E s \in Subs : conn[s] = "stop" /\ leaving[s] = g

\* Once nobody is connected any more, the loops, the subscription to the log and
\* the hook are gone: the idle bus costs nothing (live.go:17-18).
IdleCostsNothing ==
    <>[](subs = {}) => <>[](ticking \cup logging \cup DOMAIN hub = {} /\ ~hook)

\* Nobody is changing the list or reporting a change, and every frame has
\* reached its client.
Settled ==
    /\ \A c \in Changes : change[c] \in {"none", "done"}
    /\ \A s \in Subs : conn[s] \in {"none", "stream", "closed"} /\ chan[s] = <<>>

\* What live.go:33 says: dropped frames heal themselves.  A client that has
\* received everything shows the job list.
SelfHealing == Settled => \A s \in Subs : conn[s] = "stream" => view[s] = version
=============================================================================
