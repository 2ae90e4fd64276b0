----------------------------- MODULE Lifecycle -----------------------------
(***************************************************************************)
(* The life of the program, main.go: start, the takeover of a running      *)
(* instance by the port it listens on, the control queue, the signal, the  *)
(* shutdown step by step and the restart, for several processes started in *)
(* any order and with the data store of each (Storage) in use all along.   *)
(*                                                                         *)
(* The protocol is websocket.  A process works while its scheduler or its  *)
(* gateway connection does: it answers events and runs jobs.  The port is  *)
(* only contended by this program.                                         *)
(***************************************************************************)
EXTENDS Storage

VARIABLES
    pc,       \* where main stands
    victim,   \* the instance ensureSingleInstance waits for
    signal,   \* the signal sent to a process
    control,  \* the instruction in opCh; controlOnce is set with it
    restart,  \* the instruction that shutdown carries out is opRestart
    srv,      \* the goroutine of ListenAndServe
    port,     \* the process that listens on the port
    jobs,     \* the scheduler runs
    gw        \* the gateway client

vars == <<pc, victim, signal, control, restart, srv, port, jobs, gw, store, calls>>

Boot  == {"init", "check", "await", "open", "jobs", "gateway", "serve", "notify"}
Leave == {"http", "gwStop", "gwWait", "sched", "close", "spawn", "exit"}
Alive == Boot \cup {"run"} \cup Leave

Init ==
    /\ pc = [p \in Procs |-> "absent"]
    /\ victim = [p \in Procs |-> NoProc]
    /\ signal = [p \in Procs |-> "none"]
    /\ control = [p \in Procs |-> "none"]
    /\ restart = [p \in Procs |-> FALSE]
    /\ srv = [p \in Procs |-> "none"]
    /\ port = NoProc
    /\ jobs = [p \in Procs |-> FALSE]
    /\ gw = [p \in Procs |-> "none"]
    /\ StoreInit

GoTo(p, stage) == pc' = [pc EXCEPT ![p] = stage]

\* NotifyContext has been called: SIGTERM no longer ends the process.
Notified(p) == pc[p] \in {"run"} \cup Leave

storage == <<store, calls>>
work    == <<jobs, gw>>
web     == <<srv, port>>
asked   == <<signal, control, restart>>

-----------------------------------------------------------------------------
(* Start.                                                                  *)

\* Somebody starts the program: the plugins are initialised, ...
Launch(p) ==
    /\ pc[p] = "absent"
    /\ GoTo(p, "init")
    /\ UNCHANGED <<victim, asked, web, work, storage>>

\* ... and the configuration is read.
ReadConfig(p) ==
    /\ pc[p] = "init"
    /\ GoTo(p, "check")
    /\ UNCHANGED <<victim, asked, web, work, storage>>

\* ensureSingleInstance: the process that listens on the port is terminated, ...
CheckInstance(p) ==
    /\ pc[p] = "check"
    /\ IF port = NoProc
       THEN GoTo(p, "open") /\ UNCHANGED <<victim, signal>>
       ELSE /\ victim' = [victim EXCEPT ![p] = port]
            /\ signal' = [signal EXCEPT ![port] = IF @ = "kill" THEN @ ELSE "term"]
            /\ GoTo(p, "await")
    /\ UNCHANGED <<control, restart, web, work, storage>>

\* ... waited for, ...
InstanceGone(p) ==
    /\ pc[p] = "await"
    /\ pc[victim[p]] = "dead"
    /\ victim' = [victim EXCEPT ![p] = NoProc]
    /\ GoTo(p, "open")
    /\ UNCHANGED <<asked, web, work, storage>>

\* ... and killed after five seconds.
KillInstance(p) ==
    /\ pc[p] = "await"
    /\ signal' = [signal EXCEPT ![victim[p]] = "kill"]
    /\ victim' = [victim EXCEPT ![p] = NoProc]
    /\ GoTo(p, "open")
    /\ UNCHANGED <<control, restart, web, work, storage>>

\* Settings and access rules are loaded, and the store is opened.
OpenStore(p) ==
    /\ pc[p] = "open"
    /\ Open(p)
    /\ GoTo(p, "jobs")
    /\ UNCHANGED <<victim, asked, web, work>>

OpenStoreFails(p) ==
    /\ pc[p] = "open"
    /\ OpenFails(p)
    /\ GoTo(p, "exit")
    /\ UNCHANGED <<victim, asked, web, work>>

StartJobs(p) ==
    /\ pc[p] = "jobs"
    /\ jobs' = [jobs EXCEPT ![p] = TRUE]
    /\ GoTo(p, "gateway")
    /\ UNCHANGED <<victim, asked, web, gw, storage>>

StartGateway(p) ==
    /\ pc[p] = "gateway"
    /\ gw' = [gw EXCEPT ![p] = "up"]
    /\ GoTo(p, "serve")
    /\ UNCHANGED <<victim, asked, web, jobs, storage>>

\* os.Exit(1): a configuration that cannot be read, an instance that cannot be
\* terminated, settings that are refused, no gateway address.
BootFails(p) ==
    /\ pc[p] \in {"init", "check", "await", "open", "gateway"}
    /\ GoTo(p, "exit")
    /\ UNCHANGED <<victim, asked, web, work, storage>>

Serve(p) ==
    /\ pc[p] = "serve"
    /\ srv' = [srv EXCEPT ![p] = "starting"]
    /\ GoTo(p, "notify")
    /\ UNCHANGED <<victim, asked, port, work, storage>>

Notify(p) ==
    /\ pc[p] = "notify"
    /\ GoTo(p, "run")
    /\ UNCHANGED <<victim, asked, web, work, storage>>

-----------------------------------------------------------------------------
(* Running.                                                                *)

\* queue: the first instruction counts, opCh has room for it.
Queue(p, what) ==
    control' = [control EXCEPT ![p] = IF @ = "none" THEN what ELSE @]

\* ListenAndServe: the port is taken or free; after Shutdown it returns
\* ErrServerClosed, which is no failure.
ListenFailSilentMutant(p) ==
    /\ srv[p] = "starting"
    /\ IF port = NoProc
       THEN srv' = [srv EXCEPT ![p] = "bound"] /\ port' = p
       ELSE srv' = [srv EXCEPT ![p] = "closed"] /\ UNCHANGED port
    /\ UNCHANGED <<pc, victim, asked, work, storage>>

Listen(p) ==
    /\ srv[p] = "starting"
    /\ IF port = NoProc
       THEN /\ srv' = [srv EXCEPT ![p] = "bound"]
            /\ port' = p
            /\ UNCHANGED control
       ELSE /\ srv' = [srv EXCEPT ![p] = "closed"]
            /\ Queue(p, "stop")
            /\ UNCHANGED port
    /\ UNCHANGED <<pc, victim, signal, restart, work, storage>>

\* The console asks for a stop or a restart (triggerControl); nobody reads opCh
\* or the signal once main is on its way out.
Control(p, what) ==
    /\ srv[p] = "bound"
    /\ pc[p] \notin Leave
    /\ Queue(p, what)
    /\ UNCHANGED <<pc, victim, signal, restart, web, work, storage>>

\* Somebody sends SIGTERM or an interrupt.
Terminate(p) ==
    /\ pc[p] \in Alive \ Leave
    /\ signal[p] = "none"
    /\ signal' = [signal EXCEPT ![p] = "term"]
    /\ UNCHANGED <<pc, victim, control, restart, web, work, storage>>

\* The gateway client gives up for good (4914, 4915).
GatewayEnds(p) ==
    /\ gw[p] = "up"
    /\ gw' = [gw EXCEPT ![p] = "down"]
    /\ UNCHANGED <<pc, victim, asked, web, jobs, storage>>

\* The select of main: a signal or an instruction, any if both are there; what
\* is not chosen is never looked at again.
SelectSignalMutant(p) ==
    /\ pc[p] = "run"
    /\ signal[p] # "none"
    /\ signal' = [signal EXCEPT ![p] = IF @ = "term" THEN "none" ELSE @]
    /\ control' = [control EXCEPT ![p] = "none"]
    /\ GoTo(p, "http")
    /\ UNCHANGED <<restart, victim, web, work, storage>>

Select(p) ==
    /\ pc[p] = "run"
    /\ \/ signal[p] # "none" /\ UNCHANGED restart
       \/ /\ control[p] # "none"
          /\ restart' = [restart EXCEPT ![p] = control[p] = "restart"]
    /\ signal' = [signal EXCEPT ![p] = IF @ = "term" THEN "none" ELSE @]
    /\ control' = [control EXCEPT ![p] = "none"]
    /\ GoTo(p, "http")
    /\ UNCHANGED <<victim, web, work, storage>>

-----------------------------------------------------------------------------
(* shutdown.                                                               *)

\* srv.Shutdown closes the listener, and waits for the connections, five seconds
\* at most.
CloseListener(p) ==
    /\ pc[p] = "http"
    /\ srv' = [srv EXCEPT ![p] = "closed"]
    /\ port' = IF port = p THEN NoProc ELSE port
    /\ GoTo(p, "gwStop")
    /\ UNCHANGED <<victim, asked, work, storage>>

\* gw.Stop: it may miss the connection that is being made (see Gateway), ...
StopGateway(p) ==
    /\ pc[p] = "gwStop"
    /\ gw' \in {[gw EXCEPT ![p] = s] : s \in IF gw[p] = "up" THEN {"down", "missed"} ELSE {gw[p]}}
    /\ GoTo(p, "gwWait")
    /\ UNCHANGED <<victim, asked, web, jobs, storage>>

\* ... which then ends when the server ends it.
MissedEnds(p) ==
    /\ gw[p] = "missed"
    /\ gw' = [gw EXCEPT ![p] = "down"]
    /\ UNCHANGED <<pc, victim, asked, web, jobs, storage>>

GatewayStopped(p) ==
    /\ pc[p] = "gwWait"
    /\ gw[p] = "down"
    /\ GoTo(p, "sched")
    /\ UNCHANGED <<victim, asked, web, work, storage>>

StopJobs(p) ==
    /\ pc[p] = "sched"
    /\ jobs' = [jobs EXCEPT ![p] = FALSE]
    /\ GoTo(p, "close")
    /\ UNCHANGED <<victim, asked, web, gw, storage>>

CloseStore(p) ==
    /\ pc[p] = "close"
    /\ Close(p)
    /\ GoTo(p, "spawn")
    /\ UNCHANGED <<victim, asked, web, work>>

\* spawnSelf may fail, or leave the start to a supervisor.
Spawn(p) ==
    /\ pc[p] = "spawn"
    /\ \/ GoTo(p, "exit")
       \/ \E q \in Procs :
            /\ restart[p] /\ pc[q] = "absent"
            /\ pc' = [pc EXCEPT ![p] = "exit", ![q] = "init"]
    /\ UNCHANGED <<victim, asked, web, work, storage>>

\* The process is gone, with everything that ran in it.
Die(p) ==
    /\ GoTo(p, "dead")
    /\ victim' = [victim EXCEPT ![p] = NoProc]
    /\ signal' = [signal EXCEPT ![p] = "none"]
    /\ control' = [control EXCEPT ![p] = "none"]
    /\ restart' = [restart EXCEPT ![p] = FALSE]
    /\ srv' = [srv EXCEPT ![p] = "none"]
    /\ port' = IF port = p THEN NoProc ELSE port
    /\ jobs' = [jobs EXCEPT ![p] = FALSE]
    /\ gw' = [gw EXCEPT ![p] = "none"]
    /\ Abandon(p)

Exit(p) == pc[p] = "exit" /\ Die(p)

\* SIGKILL, or SIGTERM before it is caught.
Killed(p) ==
    /\ pc[p] \in Alive
    /\ signal[p] = "kill" \/ (signal[p] = "term" /\ ~Notified(p))
    /\ Die(p)

Crash(p) == pc[p] \in Alive /\ Die(p)

-----------------------------------------------------------------------------
\* Plugins, handlers and jobs use the store at any time of a process's life.
Use(o) ==
    /\ \/ \E p \in Procs : pc[p] \in Alive /\ Look(o, p)
       \/ OpStep(o)
    /\ UNCHANGED <<pc, victim, asked, web, work>>

MainStep(p) ==
    \/ ReadConfig(p) \/ CheckInstance(p) \/ InstanceGone(p) \/ KillInstance(p)
    \/ OpenStore(p) \/ OpenStoreFails(p) \/ StartJobs(p)
    \/ StartGateway(p) \/ BootFails(p) \/ Serve(p) \/ Notify(p)
    \/ Select(p) \/ CloseListener(p) \/ StopGateway(p)
    \/ GatewayStopped(p) \/ StopJobs(p) \/ CloseStore(p) \/ Spawn(p) \/ Exit(p)

Next ==
    \/ \E p \in Procs :
        \/ Launch(p) \/ MainStep(p) \/ Listen(p) \/ Killed(p) \/ Crash(p)
        \/ Control(p, "stop") \/ Control(p, "restart") \/ Terminate(p)
        \/ GatewayEnds(p) \/ MissedEnds(p)
    \/ \E o \in Ops : Use(o)

Spec == Init /\ [][Next]_vars

\* A process runs: main or the goroutine of the server take steps, or a signal
\* is delivered, while one of them can; what the code waits for with a timeout
\* ends.  Nobody has to start or stop anything, and a connection that Stop
\* missed may last.
Fairness == \A p \in Procs : WF_vars(MainStep(p) \/ Listen(p) \/ Killed(p))

FairSpec == Spec /\ Fairness

-----------------------------------------------------------------------------
(* Properties *)

\* The types of the state; the port is held by the process whose server is
\* bound, and the store leaks no handle and, while main has a use for it, does
\* not keep one that is closed.
TypeOK ==
    /\ pc \in [Procs -> {"absent", "dead"} \cup Alive]
    /\ victim \in [Procs -> Procs \cup {NoProc}]
    /\ signal \in [Procs -> {"none", "term", "kill"}]
    /\ control \in [Procs -> {"none", "stop", "restart"}]
    /\ restart \in [Procs -> BOOLEAN]
    /\ srv \in [Procs -> {"none", "starting", "bound", "closed"}]
    /\ port \in Procs \cup {NoProc}
    /\ jobs \in [Procs -> BOOLEAN]
    /\ gw \in [Procs -> {"none", "up", "missed", "down"}]
    /\ StoreTypeOK
    /\ OneHandle
    /\ \A p \in Procs : pc[p] # "exit" => db[p] \in unclosed[p] \cup {Closed}
    /\ \A p \in Procs : srv[p] = "bound" <=> port = p

\* Between storage.Open and storage.Close of its process an operation that
\* succeeds worked on the configured file, before and after on the default
\* one: also a handler that is still running when the store has been closed,
\* and whose data the next start will not find; storage.go:58-69, main.go:226.
Opened(p) == pc[p] \in (Boot \ {"init", "check", "await", "open"}) \cup {"run"}
                       \cup (Leave \ {"spawn", "exit"})
Unopened(p) == pc[p] \in {"init", "check", "await", "open", "spawn"}

FileFollowsMain ==
    [][\A o \in Ops : Execute(o) =>
          LET p == by[o] IN
          /\ Opened(p) => file[p][handle[o]] = Configured
          /\ Unopened(p) => file[p][handle[o]] = Default]_vars

Works(p) == jobs[p] \/ gw[p] \in {"up", "missed"}

\* On the way out, or asked to go.
Leaving(p) == pc[p] \in Leave \/ signal[p] # "none" \/ control[p] # "none"

\* The single instance of main.go:250: two processes work at the same time only
\* while one of them has not tried to listen yet or is leaving.
TogetherOnlyBriefly ==
    \A p, q \in Procs : p # q /\ Works(p) /\ Works(q) =>
        \E r \in {p, q} : Leaving(r) \/ srv[r] \in {"none", "starting"}

\* Whoever is asked to go goes, and of two that work one stops; the exception is
\* a process that waits in gw.Stop for a connection that was missed.
Stuck(p) == pc[p] = "gwWait" /\ gw[p] = "missed"

TwoWork == \E p, q \in Procs : p # q /\ Works(p) /\ Works(q)

OneRemains ==
    /\ \A p \in Procs : Leaving(p) ~> (pc[p] = "dead" \/ Stuck(p))
    /\ TwoWork ~> (~TwoWork \/ \E p \in Procs : Stuck(p))
=============================================================================
