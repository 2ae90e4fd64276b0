------------------------------ MODULE Schedule ------------------------------
(***************************************************************************)
(* The job scheduler of lib/schedule/schedule.go: Register, Cancel, Pause, *)
(* Resume, Start and Stop called from any goroutine, one loop goroutine    *)
(* per interval job, one for all cron jobs, and the handlers they start.   *)
(*                                                                         *)
(* A registration is one accepted call of Register (one registeredJob);    *)
(* two registrations may be of the same job Id.  Register works in two     *)
(* critical sections, jobsLock then startMu, and others run between them.  *)
(* The goroutines in which the cron loop runs its handlers are left out: a *)
(* handler changes the scheduler only through the calls above.             *)
(***************************************************************************)
EXTENDS Cron, FiniteSets

CONSTANTS
    Regs,        \* registrations, each made at most once
    CronRegs,    \* those with a cron expression; the others have an interval
    Expr,        \* their cron expressions, see Cron
    Clock,       \* the date and time of the minutes of the clock
    Immediate,   \* interval registrations with Job.Immediate
    Id,          \* the job Id of a registration
    Pausable,    \* those that somebody pauses and resumes
    CronLoop,    \* marks the cron loop that Start launches
    MaxGen,      \* bound: calls of Start that take effect
    MaxMinute    \* bound: minutes that pass

ASSUME ScheduleAssumption ==
    /\ CronRegs \subseteq Regs
    /\ \A r \in CronRegs : Parses(Expr[r])
    /\ Clock \in [0..MaxMinute -> Seq(Nat)]
    /\ Immediate \subseteq Regs \ CronRegs
    /\ Pausable \subseteq Regs
    /\ Id \in [Regs -> {Id[r] : r \in Regs}]
    /\ CronLoop \notin Regs
    /\ MaxGen \in Nat /\ MaxMinute \in Nat

\* A loop goroutine is named by what launched it: <<r, 0>> by Register of r,
\* <<r, g>> and <<CronLoop, g>> by the g-th Start.
Loops == (Regs \X {0}) \cup ((Regs \ CronRegs) \X (1..MaxGen)) \cup ({CronLoop} \X (1..MaxGen))

IsCron(l) == l[1] \in CronRegs \cup {CronLoop}

VARIABLES
    jobs,        \* registrations in the list jobs
    cancelled,   \* registrations whose cancel channel is closed
    paused,      \* registrations with paused set
    lastFire,    \* lastFire of cron registrations: a minute, or Never
    started, cronLoopOn,
    gen,         \* stopCh: the channel made by the gen-th Start
    register,    \* where the Register call of a registration stands
    pc,          \* where a loop goroutine stands
    at,          \* the stopCh a waiting loop selects on (0 when not waiting)
    tick,        \* the minute of the tick a cron loop handles (0 when none)
    minute,      \* the clock
    overlap,     \* history: owners of loops that a Start may have doubled
    fired        \* history: cron firings per registration and minute, under
                 \* the first Start

regVars   == <<jobs, cancelled, paused, lastFire>>
startVars == <<started, cronLoopOn, gen>>
loopVars  == <<pc, at, tick>>
vars == <<regVars, startVars, register, loopVars, minute, overlap, fired>>

Never == MaxMinute + 1
NoneFired == [r \in CronRegs |-> [m \in 0..MaxMinute |-> 0]]
Closed(g) == g < gen \/ ~started

Init ==
    /\ jobs = {} /\ cancelled = {} /\ paused = {}
    /\ lastFire = [r \in CronRegs |-> Never]
    /\ started = FALSE /\ cronLoopOn = FALSE /\ gen = 0
    /\ register = [r \in Regs |-> "no"]
    /\ pc = [l \in Loops |-> "none"]
    /\ at = [l \in Loops |-> 0]
    /\ tick = [l \in Loops |-> 0]
    /\ minute = 0
    /\ overlap = {}
    /\ fired = NoneFired

\* A loop goroutine that runs, and the job it runs for; all cron jobs share one.
Running(l) == pc[l] \notin {"none", "gone"}
Owner(l) == IF IsCron(l) THEN CronLoop ELSE l[1]

-----------------------------------------------------------------------------
\* What a new loop does first: runInterval fires if the job says so, else
\* selects; runCronLoop sleeps to the next second and selects.
Entry(l) == IF l[1] \in Immediate THEN "check" ELSE "select"

SameId(r) == {q \in jobs : Id[q] = Id[r]}

\* Register, under jobsLock: stop and replace a job with the same Id, or append.
RegisterEnterNoStopMutant(r) ==
    /\ register[r] = "no"
    /\ jobs' = (jobs \ SameId(r)) \cup {r}
    /\ register' = [register EXCEPT ![r] = "listed"]
    /\ UNCHANGED <<cancelled, paused, lastFire, startVars, loopVars, minute, overlap, fired>>

RegisterEnter(r) ==
    /\ register[r] = "no"
    /\ jobs' = (jobs \ SameId(r)) \cup {r}
    /\ cancelled' = cancelled \cup SameId(r)
    /\ register' = [register EXCEPT ![r] = "listed"]
    /\ UNCHANGED <<paused, lastFire, startVars, loopVars, minute, overlap, fired>>

\* Register, under startMu: launch a loop if the scheduler runs; a cron job
\* needs one only if there is none.
RegisterLaunchNeverMutant(r) ==
    /\ register[r] = "listed"
    /\ register' = [register EXCEPT ![r] = "done"]
    /\ UNCHANGED <<regVars, startVars, loopVars, minute, overlap, fired>>

RegisterLaunchNoFlagMutant(r) ==
    /\ register[r] = "listed"
    /\ register' = [register EXCEPT ![r] = "done"]
    /\ pc' = IF started THEN [pc EXCEPT ![<<r, 0>>] = Entry(<<r, 0>>)] ELSE pc
    /\ cronLoopOn' = (cronLoopOn \/ (started /\ r \in CronRegs))
    /\ UNCHANGED <<regVars, started, gen, at, tick, minute, overlap, fired>>

RegisterLaunch(r) ==
    /\ register[r] = "listed"
    /\ register' = [register EXCEPT ![r] = "done"]
    /\ LET launch == started /\ (r \notin CronRegs \/ ~cronLoopOn)
       IN  /\ pc' = IF launch THEN [pc EXCEPT ![<<r, 0>>] = Entry(<<r, 0>>)] ELSE pc
           /\ cronLoopOn' = (cronLoopOn \/ (launch /\ r \in CronRegs))
    /\ UNCHANGED <<regVars, started, gen, at, tick, minute, overlap, fired>>

Cancel(r) ==
    /\ r \in jobs
    /\ cancelled' = cancelled \cup {r}
    /\ jobs' = jobs \ {r}
    /\ UNCHANGED <<paused, lastFire, startVars, register, loopVars, minute, overlap, fired>>

Pause(r) ==
    /\ r \in Pausable \cap (jobs \ paused)
    /\ paused' = paused \cup {r}
    /\ UNCHANGED <<jobs, cancelled, lastFire, startVars, register, loopVars,
                   minute, overlap, fired>>

Resume(r) ==
    /\ r \in jobs \cap paused
    /\ paused' = paused \ {r}
    /\ UNCHANGED <<jobs, cancelled, lastFire, startVars, register, loopVars,
                   minute, overlap, fired>>

\* Start holds startMu and does not wait for the loops of an earlier one: a new stopCh, and loops for the jobs listed now.
Start ==
    /\ ~started
    /\ gen < MaxGen
    /\ gen' = gen + 1
    /\ started' = TRUE
    /\ LET launched == {<<r, gen + 1>> : r \in jobs \ CronRegs}
                       \cup {<<CronLoop, gen + 1>> : r \in jobs \cap CronRegs}
       IN  pc' = [l \in Loops |-> IF l \in launched THEN Entry(l) ELSE pc[l]]
    /\ cronLoopOn' = (cronLoopOn \/ jobs \cap CronRegs # {})
    /\ overlap' = overlap \cup {Owner(l) : l \in {k \in Loops : Running(k)}}
                          \cup {r \in Regs \ CronRegs : register[r] = "listed"}
    /\ fired' = NoneFired
    /\ UNCHANGED <<regVars, register, at, tick, minute>>

\* Stop holds startMu: close stopCh.
StopKeepCronFlagMutant ==
    /\ started
    /\ started' = FALSE
    /\ UNCHANGED <<regVars, cronLoopOn, gen, register, loopVars, minute, overlap, fired>>

Stop ==
    /\ started
    /\ started' = FALSE
    /\ cronLoopOn' = FALSE
    /\ UNCHANGED <<regVars, gen, register, loopVars, minute, overlap, fired>>

-----------------------------------------------------------------------------
Goto(l, where) == pc' = [pc EXCEPT ![l] = where]

\* The select evaluates the variable stopCh: a loop listens to the channel
\* that is current when it comes by.
Listen(l) ==
    /\ pc[l] = "select"
    /\ at' = [at EXCEPT ![l] = gen]
    /\ Goto(l, "wait")
    /\ UNCHANGED <<regVars, startVars, register, tick, minute, overlap, fired>>

\* runInterval also selects on the cancel channel of its registration.
LeaveOnStopOnlyMutant(l) ==
    /\ pc[l] = "wait"
    /\ Closed(at[l])
    /\ Goto(l, "gone")
    /\ at' = [at EXCEPT ![l] = 0]
    /\ UNCHANGED <<regVars, startVars, register, tick, minute, overlap, fired>>

Leave(l) ==
    /\ pc[l] = "wait"
    /\ Closed(at[l]) \/ (~IsCron(l) /\ l[1] \in cancelled)
    /\ Goto(l, "gone")
    /\ at' = [at EXCEPT ![l] = 0]
    /\ UNCHANGED <<regVars, startVars, register, tick, minute, overlap, fired>>

\* A tick; a select with several ready cases takes any.
Tick(l) ==
    /\ pc[l] = "wait"
    /\ Goto(l, "check")
    /\ at' = [at EXCEPT ![l] = 0]
    /\ tick' = [tick EXCEPT ![l] = IF IsCron(l) THEN minute ELSE @]
    /\ UNCHANGED <<regVars, startVars, register, minute, overlap, fired>>

\* tryFire, under jobsLock: a paused or cancelled job does not fire; otherwise
\* the handler runs in the loop's goroutine.
TryFire(l) ==
    /\ pc[l] = "check" /\ ~IsCron(l)
    /\ Goto(l, IF l[1] \in paused \cup cancelled THEN "select" ELSE "fire")
    /\ UNCHANGED <<regVars, startVars, register, at, tick, minute, overlap, fired>>

\* fire returns: the handler ran, failed or panicked, or its plugin is disabled.
FireReturns(l) ==
    /\ pc[l] = "fire"
    /\ Goto(l, "select")
    /\ UNCHANGED <<regVars, startVars, register, at, tick, minute, overlap, fired>>

\* runCronLoop, under jobsLock: mark and launch every job due in the tick's
\* minute that has not been marked with it.
DueAt == [r \in CronRegs |-> {m \in 0..MaxMinute : Match(Expr[r], Clock[m])}]

Due(t) == {r \in jobs \cap CronRegs : r \notin paused /\ lastFire[r] # t /\ t \in DueAt[r]}

FireDue(l, toFire) ==
    /\ pc[l] = "check" /\ IsCron(l)
    /\ fired' = [r \in CronRegs |->
                    [fired[r] EXCEPT ![tick[l]] = @ + IF r \in toFire /\ gen = 1 THEN 1 ELSE 0]]
    /\ Goto(l, "select")
    /\ tick' = [tick EXCEPT ![l] = 0]
    /\ UNCHANGED <<jobs, cancelled, paused, startVars, register, at, minute, overlap>>

CronCheckNoMarkMutant(l) ==
    /\ FireDue(l, Due(tick[l]))
    /\ UNCHANGED lastFire

CronCheck(l) ==
    /\ FireDue(l, Due(tick[l]))
    /\ lastFire' = [r \in CronRegs |-> IF r \in Due(tick[l]) THEN tick[l] ELSE lastFire[r]]

MinutePasses ==
    /\ minute < MaxMinute
    /\ minute' = minute + 1
    /\ UNCHANGED <<regVars, startVars, register, loopVars, overlap, fired>>

-----------------------------------------------------------------------------
LoopStep(l) == Listen(l) \/ Leave(l) \/ TryFire(l) \/ FireReturns(l) \/ CronCheck(l)

Next ==
    \/ \E r \in Regs :
        \/ RegisterEnter(r) \/ RegisterLaunch(r)
        \/ Cancel(r) \/ Pause(r) \/ Resume(r)
    \/ Start \/ Stop
    \/ \E l \in Loops : LoopStep(l) \/ Tick(l)
    \/ MinutePasses

\* Goroutines run and handlers return.  A loop that may leave and may tick is
\* at a select: strong fairness, since Go picks among the ready cases at random.
\* Asked of the loops of one owner together, which is less than Go grants each.
Fairness ==
    \A o \in (Regs \ CronRegs) \cup {CronLoop} :
        LET own == {l \in Loops : Owner(l) = o}
        IN  WF_vars(\E l \in own : LoopStep(l)) /\ SF_vars(\E l \in own : Leave(l))

Spec == Init /\ [][Next]_vars

FairSpec == Spec /\ Fairness

-----------------------------------------------------------------------------
\* The types; the flag for the one cron loop is down when the scheduler is
\* stopped, and a loop holds a channel only while it selects (schedule.go:252-262).
TypeOK ==
    /\ jobs \subseteq Regs /\ cancelled \subseteq Regs /\ paused \subseteq Regs
    /\ lastFire \in [CronRegs -> 0..Never]
    /\ started \in BOOLEAN /\ cronLoopOn \in BOOLEAN /\ gen \in 0..MaxGen
    /\ register \in [Regs -> {"no", "listed", "done"}]
    /\ pc \in [Loops -> {"none", "select", "wait", "check", "fire", "gone"}]
    /\ at \in [Loops -> 0..MaxGen] /\ tick \in [Loops -> 0..MaxMinute]
    /\ minute \in 0..MaxMinute
    /\ overlap \subseteq Regs \cup {CronLoop}
    /\ fired \in [CronRegs -> [0..MaxMinute -> Nat]]
    /\ cronLoopOn => started
    /\ \A l \in Loops : at[l] > 0 <=> pc[l] = "wait"

\* A registration is listed or cancelled, never both or neither, and no job Id
\* is listed twice: whatever was replaced has been stopped (schedule.go:91-105).
ListedOrCancelled ==
    /\ \A r \in Regs : register[r] # "no" <=> r \in jobs \cup cancelled
    /\ jobs \cap cancelled = {}
    /\ \A q, r \in jobs : Id[q] = Id[r] => q = r

\* A loop that will still look at its jobs: it has not left and does not wait
\* on a closed channel.
Serving(l) == Running(l) /\ ~(pc[l] = "wait" /\ Closed(at[l]))

\* Once Register has returned, a listed job has a loop whenever the scheduler
\* runs, however Register, Start and Stop raced (schedule.go:107-122, 231-247).
\* This says what the code does, also after a Stop and a second Start, where
\* docs/schedule.md:210 says otherwise: see StartRestoresNothing.
EveryJobServed ==
    \A r \in jobs :
        started /\ register[r] = "done" =>
            \E l \in Loops : Serving(l) /\ (IF r \in CronRegs THEN IsCron(l) ELSE l[1] = r)

\* An interval job has one loop and all cron jobs share one, but for the two
\* ways to a second: a Start between the two critical sections of its Register,
\* and a Start that does not wait for the loops of the last one to leave
\* (schedule.go:107-124, 231-247, 273).
OneLoopEach ==
    \A k, l \in Loops :
        Running(k) /\ Running(l) /\ Owner(k) = Owner(l) /\ Owner(k) \notin overlap => k = l

\* Under one Start a cron registration fires at most once in a minute its
\* expression matches and never in another, though the loop looks every second
\* and its tick may be handled later (schedule.go:284, 305-308).  It is the
\* registration that keeps lastFire: a job registered anew may fire again.
OncePerMinute ==
    \A r \in CronRegs : \A m \in 0..MaxMinute :
        fired[r][m] <= IF Match(Expr[r], Clock[m]) THEN 1 ELSE 0

\* What docs/schedule.md:210 says of Stop: the registered jobs stay, but calling
\* Start again does not bring their loops back.  A second Start launches no loop
\* where one has left (schedule.go:231-247 does).
StartRestoresNothing ==
    [][gen > 0 /\ gen' # gen =>
          \A k, l \in Loops : pc[k] = "gone" /\ Owner(k) = Owner(l) /\ Running(l)' => Running(l)]_vars

Silent(r) == \A l \in Loops : l[1] = r => ~Running(l)

\* No loop outlives its reason.  Those of a cancelled or replaced interval job
\* leave for good, also the one that a Register still under way launches later
\* (docs/schedule.md:192); and a scheduler that stays stopped ends with no loop
\* (schedule.go:251), whichever channel a loop listens to (schedule.go:273).
LoopsLeave ==
    /\ \A r \in Regs \ CronRegs : (r \in cancelled /\ register[r] = "done") ~> [](Silent(r))
    /\ <>[](~started) => <>[](\A l \in Loops : ~Running(l))
=============================================================================
