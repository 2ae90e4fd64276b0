--------------------------- MODULE ScheduleProofs ---------------------------
(***************************************************************************)
(* Theorems about the scheduler for any set of registrations, any job Ids, *)
(* any number of starts and minutes and any cron expressions.  What keeps  *)
(* a job served and one loop per job is the agreement of cronLoopOn, the   *)
(* progress of Register and the loops that run (Served, Single); what      *)
(* keeps a minute from firing twice is the order of the ticks that one     *)
(* loop handles (Ordered).  Then, which loops come back and what they      *)
(* fire, and what the fields of a cron expression admit.                   *)
(***************************************************************************)
EXTENDS Schedule, TLAPS

\* Every listed job has a loop, or the flag that says the cron loop is there.
Served ==
    /\ \A r \in jobs : started /\ register[r] = "done" =>
         IF r \in CronRegs THEN cronLoopOn ELSE \E l \in Loops : l[1] = r /\ Serving(l)
    /\ cronLoopOn => \E l \in Loops : IsCron(l) /\ Serving(l)

\* No loop before its launch.
Fresh ==
    /\ \A r \in Regs : pc[<<r, 0>>] # "none" => register[r] = "done"
    /\ \A l \in Loops : l[2] > gen => pc[l] = "none"

\* One loop each: before the first Start there is none, an interval job has
\* none until Register is through, and under a running scheduler a cron loop
\* means the flag is up.
Single ==
    /\ OneLoopEach
    /\ gen = 0 => ~started /\ \A l \in Loops : ~Running(l)
    /\ \A l \in Loops : Running(l) /\ l[1] \in Regs \ CronRegs /\ l[1] \notin overlap
                            => register[l[1]] = "done"
    /\ \A l \in Loops : Running(l) /\ IsCron(l) /\ CronLoop \notin overlap /\ started => cronLoopOn
    /\ gen <= 1 => CronLoop \notin overlap

\* Under the first Start the marks of the jobs never run ahead of the tick in
\* hand, and what has fired is marked.
Ordered ==
    /\ OncePerMinute
    /\ \A r \in CronRegs : lastFire[r] # Never => lastFire[r] <= minute
    /\ \A l \in Loops : tick[l] <= minute
    /\ gen <= 1 => \A r \in CronRegs :
         /\ \A m \in 0..MaxMinute : fired[r][m] # 0 => lastFire[r] # Never /\ m <= lastFire[r]
         /\ \A l \in Loops : pc[l] = "check" /\ IsCron(l) /\ lastFire[r] # Never
                                 => lastFire[r] <= tick[l]

IInv == TypeOK /\ ListedOrCancelled /\ Fresh /\ Served /\ Single /\ Ordered

-----------------------------------------------------------------------------
\* A loop is named by a registration or the cron loop; the loops that Register
\* and Start launch are among them.
LEMMA LoopNames ==
    /\ \A l \in Loops : /\ l[1] \in Regs \cup {CronLoop}
                        /\ ~IsCron(l) <=> l[1] \in Regs \ CronRegs
                        /\ Owner(l) \in (Regs \ CronRegs) \cup {CronLoop}
                        /\ IsCron(l) <=> Owner(l) = CronLoop
                        /\ ~IsCron(l) => Owner(l) = l[1]
                        /\ l[2] \in Nat
    /\ \A r \in Regs : <<r, 0>> \in Loops
    /\ \A r \in Regs \ CronRegs : \A g \in 1..MaxGen : <<r, g>> \in Loops
    /\ \A g \in 1..MaxGen : <<CronLoop, g>> \in Loops
<1> USE ScheduleAssumption DEF Loops, IsCron, Owner
<1>1. ASSUME NEW l \in Loops PROVE l[1] \in Regs \cup {CronLoop} /\ l[2] \in Nat
  OBVIOUS
<1> QED
  BY <1>1

\* What a loop does on its own changes where it stands and nothing that lists,
\* stops or starts; a loop that runs goes on or leaves.
LoopMoves(l) ==
    /\ UNCHANGED <<jobs, cancelled, paused, startVars, register, minute, overlap>>
    /\ Running(l)
    /\ \E where \in {"select", "wait", "check", "fire", "gone"} : pc' = [pc EXCEPT ![l] = where]

LEMMA LoopStepsMove ==
    ASSUME TypeOK, NEW l \in Loops, LoopStep(l) \/ Tick(l)
    PROVE  LoopMoves(l)
<1> USE DEF LoopMoves, Goto, Running, loopVars, startVars, regVars
<1>1. CASE Listen(l)
  BY <1>1 DEF Listen
<1>2. CASE Leave(l)
  BY <1>2 DEF Leave
<1>3. CASE TryFire(l)
  BY <1>3 DEF TryFire
<1>4. CASE FireReturns(l)
  BY <1>4 DEF FireReturns
<1>5. CASE CronCheck(l)
  BY <1>5 DEF CronCheck, FireDue
<1>6. CASE Tick(l)
  BY <1>6 DEF Tick
<1> QED
  BY <1>1, <1>2, <1>3, <1>4, <1>5, <1>6 DEF LoopStep

-----------------------------------------------------------------------------
\* The invariant holds initially.
LEMMA InitIInv == ASSUME Init PROVE IInv
<1> USE ScheduleAssumption DEF Init, NoneFired
<1>0. fired \in [CronRegs -> [0..MaxMinute -> Nat]]
  OBVIOUS
<1>1. TypeOK
  <2>1. lastFire \in [CronRegs -> 0..Never]
    BY DEF Never
  <2>2. \A l \in Loops : at[l] > 0 <=> pc[l] = "wait"
    OBVIOUS
  <2>3. pc \in [Loops -> {"none", "select", "wait", "check", "fire", "gone"}]
        /\ at \in [Loops -> 0..MaxGen] /\ tick \in [Loops -> 0..MaxMinute]
    OBVIOUS
  <2>4. register \in [Regs -> {"no", "listed", "done"}] /\ gen \in 0..MaxGen /\ minute \in 0..MaxMinute
    OBVIOUS
  <2> QED
    BY <1>0, <2>1, <2>2, <2>3, <2>4 DEF TypeOK
<1>2. ListedOrCancelled /\ Fresh /\ Served /\ Single
  BY LoopNames DEF ListedOrCancelled, Fresh, Served, Single, OneLoopEach, Running
<1>3. Ordered
  BY DEF Ordered, OncePerMinute
<1> QED
  BY <1>1, <1>2, <1>3 DEF IInv

-----------------------------------------------------------------------------
\* Register's first critical section: what it takes out of the list it stops,
\* and the new job needs no loop yet.
LEMMA RegisterEnterKeeps ==
    ASSUME IInv, NEW r \in Regs, RegisterEnter(r)
    PROVE  IInv'
<1> USE ScheduleAssumption DEF IInv, RegisterEnter, SameId, startVars, loopVars
<1>1. TypeOK'
  BY DEF TypeOK
<1>2. ListedOrCancelled'
  BY DEF ListedOrCancelled, TypeOK
<1>3. Served'
  BY DEF Served, Serving, Running, Closed, TypeOK
<1>4. Single'
  BY DEF Single, OneLoopEach, Running, TypeOK
<1>5. Ordered'
  BY DEF Ordered, OncePerMinute
<1>6. Fresh'
  BY DEF Fresh, TypeOK
<1> QED
  BY <1>1, <1>2, <1>3, <1>4, <1>5, <1>6

\* Its second: the loop it launches under a running scheduler is the only one
\* of an interval job that no Start has seen, and of the cron jobs when the
\* flag is down.
LEMMA RegisterLaunchKeeps ==
    ASSUME IInv, NEW r \in Regs, RegisterLaunch(r)
    PROVE  IInv'
<1> USE ScheduleAssumption DEF IInv, regVars
<1> DEFINE launch == started /\ (r \notin CronRegs \/ ~cronLoopOn)
           new == <<r, 0>>
<1>0. /\ new \in Loops /\ new[1] = r /\ (IsCron(new) <=> r \in CronRegs)
      /\ Entry(new) \in {"check", "select"} /\ Owner(new) = (IF r \in CronRegs THEN CronLoop ELSE r)
      /\ IsCron(new) => Entry(new) = "select"
  BY LoopNames DEF Entry, IsCron, Owner
<1> HIDE DEF new
<1>1. /\ register[r] = "listed" /\ register' = [register EXCEPT ![r] = "done"]
      /\ pc' = IF launch THEN [pc EXCEPT ![new] = Entry(new)] ELSE pc
      /\ cronLoopOn' = (cronLoopOn \/ (launch /\ r \in CronRegs))
      /\ UNCHANGED <<jobs, cancelled, paused, lastFire, started, gen, at, tick, minute, overlap, fired>>
  BY DEF RegisterLaunch, new
<1>2. \A l \in Loops : Running(l)' <=> Running(l) \/ (launch /\ l = new)
  BY <1>0, <1>1 DEF Running, TypeOK
<1>3. \A l \in Loops : Serving(l) => Serving(l)'
  BY <1>0, <1>1, <1>2 DEF Serving, Running, Closed, TypeOK
<1>4. launch => Serving(new)'
  BY <1>0, <1>1, <1>2 DEF Serving, TypeOK
<1>5. TypeOK'
  <2>1. pc' \in [Loops -> {"none", "select", "wait", "check", "fire", "gone"}]
    BY <1>0, <1>1 DEF TypeOK
  <2>2. pc[new] = "none"
    BY <1>1 DEF Fresh, TypeOK, new
  <2>3. \A l \in Loops : at'[l] > 0 <=> pc'[l] = "wait"
    BY <1>0, <1>1, <2>2 DEF TypeOK
  <2>4. cronLoopOn' \in BOOLEAN /\ (cronLoopOn' => started')
    BY <1>1 DEF TypeOK
  <2>5. register' \in [Regs -> {"no", "listed", "done"}]
    BY <1>1 DEF TypeOK
  <2> QED
    BY <1>1, <2>1, <2>3, <2>4, <2>5 DEF TypeOK
<1>6. ListedOrCancelled'
  BY <1>1 DEF ListedOrCancelled, TypeOK
<1>7. Served'
  BY <1>0, <1>1, <1>3, <1>4 DEF Served, TypeOK
<1>8. Single'
  <2> USE LoopNames DEF Single, TypeOK
  <2>1. launch /\ Owner(new) \notin overlap =>
            \A l \in Loops : Running(l) => Owner(l) # Owner(new)
    <3> SUFFICES ASSUME launch, Owner(new) \notin overlap, NEW l \in Loops, Running(l),
                        Owner(l) = Owner(new)
                 PROVE  FALSE
      OBVIOUS
    <3>1. CASE r \in CronRegs
      BY <1>0, <1>1, <3>1
    <3>2. CASE r \notin CronRegs
      <4>1. l[1] = r /\ r \in Regs \ CronRegs /\ r \notin overlap
        BY <1>0, <3>2
      <4> QED
        BY <1>1, <4>1
    <3> QED
      BY <3>1, <3>2
  <2>2. OneLoopEach'
    <3> SUFFICES ASSUME NEW k \in Loops, NEW l \in Loops, Running(k)', Running(l)',
                        Owner(k) = Owner(l), Owner(k) \notin overlap
                 PROVE  k = l
      BY <1>1 DEF OneLoopEach, Owner
    <3>1. CASE Running(k) /\ Running(l)
      BY <3>1 DEF OneLoopEach
    <3>2. CASE ~(Running(k) /\ Running(l))
      BY <1>2, <2>1, <3>2
    <3> QED
      BY <3>1, <3>2
  <2>3. gen' # 0 \/ ~launch
    BY <1>1
  <2>4. \A l \in Loops : Running(l)' /\ l[1] \in Regs \ CronRegs /\ l[1] \notin overlap'
                              => register'[l[1]] = "done"
    BY <1>0, <1>1, <1>2
  <2>5. \A l \in Loops : Running(l)' /\ IsCron(l) /\ CronLoop \notin overlap' /\ started'
                              => cronLoopOn'
    BY <1>0, <1>1, <1>2
  <2> QED
    BY <1>1, <1>2, <2>2, <2>3, <2>4, <2>5
<1>9. Ordered'
  BY <1>0, <1>1 DEF Ordered, OncePerMinute, TypeOK
<1>10. Fresh'
  BY <1>0, <1>1 DEF Fresh, TypeOK, new
<1> QED
  BY <1>5, <1>6, <1>7, <1>8, <1>9, <1>10

\* Cancel, Pause and Resume touch the list and no loop; the clock touches neither.
LEMMA ListKeeps ==
    ASSUME IInv, (\E r \in Regs : Cancel(r) \/ Pause(r) \/ Resume(r)) \/ MinutePasses
    PROVE  IInv'
<1> USE ScheduleAssumption DEF IInv
<1>1. /\ UNCHANGED <<lastFire, started, cronLoopOn, gen, register, pc, at, tick, overlap, fired>>
      /\ jobs' \subseteq jobs
      /\ minute' \in minute..MaxMinute
  BY DEF Cancel, Pause, Resume, MinutePasses, startVars, loopVars, regVars, TypeOK
<1>2. TypeOK' /\ ListedOrCancelled'
  BY DEF Cancel, Pause, Resume, MinutePasses, startVars, loopVars, regVars, TypeOK, ListedOrCancelled
<1>3. Fresh' /\ Served' /\ Single'
  BY <1>1 DEF Fresh, Served, Single, OneLoopEach, Serving, Running, Closed
<1>4. Ordered'
  <2>1. \A r \in CronRegs : lastFire'[r] # Never => lastFire'[r] <= minute'
    BY <1>1 DEF Ordered, TypeOK, Never
  <2>2. \A l \in Loops : tick'[l] <= minute'
    BY <1>1 DEF Ordered, TypeOK
  <2> QED
    BY <1>1, <2>1, <2>2 DEF Ordered, OncePerMinute
<1> QED
  BY <1>2, <1>3, <1>4

\* Start: a loop for every interval job listed and one for the cron jobs; who
\* then has a second loop had one that still ran, or was about to get its own.
LEMMA StartKeeps == ASSUME IInv, Start PROVE IInv'
<1> USE ScheduleAssumption DEF IInv, regVars
<1> DEFINE g == gen + 1
           launched == {<<r, g>> : r \in jobs \ CronRegs} \cup {<<CronLoop, g>> : r \in jobs \cap CronRegs}
<1>1. /\ ~started /\ started' /\ gen' = g /\ g \in 1..MaxGen /\ ~cronLoopOn
      /\ pc' = [l \in Loops |-> IF l \in launched THEN Entry(l) ELSE pc[l]]
      /\ cronLoopOn' <=> jobs \cap CronRegs # {}
      /\ UNCHANGED <<jobs, cancelled, paused, lastFire, register, at, tick, minute>>
  <2>1. ~started /\ started' /\ gen' = g /\ g \in 1..MaxGen
        /\ UNCHANGED <<jobs, cancelled, paused, lastFire, register, at, tick, minute>>
    BY DEF Start, TypeOK
  <2>2. ~cronLoopOn
    BY <2>1 DEF TypeOK
  <2>3. cronLoopOn' <=> jobs \cap CronRegs # {}
    BY <2>2 DEF Start
  <2>4. pc' = [l \in Loops |-> IF l \in launched THEN Entry(l) ELSE pc[l]]
    BY DEF Start
  <2> QED
    BY <2>1, <2>2, <2>3, <2>4
<1>2. /\ \A l \in Loops : Running(l) => Owner(l) \in overlap'
      /\ \A r \in Regs \ CronRegs : register[r] = "listed" => r \in overlap'
      /\ overlap \subseteq overlap'
      /\ overlap' \subseteq Regs \cup {CronLoop}
  BY LoopNames DEF Start, TypeOK
<1>3. \A l \in launched : /\ l \in Loops /\ l[2] = g /\ pc[l] = "none"
                          /\ Entry(l) \in {"check", "select"}
                          /\ IsCron(l) => Entry(l) = "select" /\ cronLoopOn'
                          /\ ~IsCron(l) => l[1] \in jobs
                          /\ l = <<l[1], g>>
                          /\ IsCron(l) => l[1] = CronLoop
  BY <1>1, LoopNames DEF Fresh, TypeOK, Entry, IsCron
<1>4. \A r \in jobs : IF r \in CronRegs THEN <<CronLoop, g>> \in launched ELSE <<r, g>> \in launched
  BY DEF TypeOK
<1> HIDE DEF launched, g
<1>5. /\ \A l \in Loops : Running(l)' <=> Running(l) \/ l \in launched
      /\ \A l \in launched : Serving(l)' /\ pc'[l] = Entry(l)
      /\ \A l \in Loops : l \notin launched => pc'[l] = pc[l]
  BY <1>1, <1>3 DEF Running, Serving
<1>6. TypeOK'
  <2>1. pc' \in [Loops -> {"none", "select", "wait", "check", "fire", "gone"}]
    BY <1>1, <1>3 DEF TypeOK
  <2>2. \A l \in Loops : at'[l] > 0 <=> pc'[l] = "wait"
    BY <1>1, <1>3, <1>5 DEF TypeOK
  <2>3. cronLoopOn' \in BOOLEAN /\ started' \in BOOLEAN
    BY DEF Start, TypeOK
  <2>4. fired' \in [CronRegs -> [0..MaxMinute -> Nat]]
    BY DEF Start, NoneFired
  <2> QED
    BY <1>1, <1>2, <2>1, <2>2, <2>3, <2>4 DEF TypeOK
<1>7. ListedOrCancelled'
  BY <1>1 DEF ListedOrCancelled
<1>8. Fresh'
  <2>1. \A r \in Regs : pc'[<<r, 0>>] # "none" => register'[r] = "done"
    <3> SUFFICES ASSUME NEW r \in Regs PROVE pc'[<<r, 0>>] = pc[<<r, 0>>]
      BY <1>1 DEF Fresh
    <3>1. <<r, 0>> \in Loops /\ <<r, 0>>[2] # g
      BY <1>1, LoopNames
    <3> QED
      BY <1>3, <1>5, <3>1
  <2>2. \A l \in Loops : l[2] > gen' => pc'[l] = "none"
    BY <1>1, <1>3, <1>5, LoopNames DEF Fresh, TypeOK, g
  <2> QED
    BY <2>1, <2>2 DEF Fresh
<1>9. Served'
  <2>1. \A r \in jobs : r \in CronRegs => cronLoopOn'
    BY <1>1
  <2>2. \A r \in jobs \ CronRegs : \E l \in Loops : l[1] = r /\ Serving(l)'
    BY <1>3, <1>4, <1>5
  <2>3. cronLoopOn' => \E l \in Loops : IsCron(l) /\ Serving(l)'
    BY <1>1, <1>3, <1>4, <1>5, LoopNames DEF IsCron
  <2> QED
    BY <1>1, <2>1, <2>2, <2>3 DEF Served
<1>10. Single'
  <2> USE LoopNames DEF Single
  <2>1. OneLoopEach'
    <3> SUFFICES ASSUME NEW k \in Loops, NEW l \in Loops, Running(k)', Running(l)',
                        Owner(k) = Owner(l), Owner(k) \notin overlap'
                 PROVE  k = l
      BY DEF OneLoopEach, Owner
    <3>1. k \in launched /\ l \in launched
      BY <1>2, <1>5
    <3> QED
      BY <1>3, <3>1
  <2>2. gen' # 0
    BY <1>1
  <2>3. \A l \in Loops : Running(l)' /\ l[1] \in Regs \ CronRegs /\ l[1] \notin overlap'
                              => register'[l[1]] = "done"
    BY <1>1, <1>2, <1>3, <1>5 DEF ListedOrCancelled, TypeOK
  <2>4. \A l \in Loops : Running(l)' /\ IsCron(l) /\ CronLoop \notin overlap' => cronLoopOn'
    BY <1>2, <1>3, <1>5
  <2>5. gen' <= 1 => CronLoop \notin overlap'
    <3>1. gen = 0 => \A l \in Loops : ~Running(l)
      OBVIOUS
    <3>2. gen' <= 1 => gen = 0
      BY <1>1 DEF g, TypeOK
    <3>3. gen = 0 => overlap' \subseteq overlap \cup Regs
      BY <3>1 DEF Start
    <3> QED
      BY <3>2, <3>3
  <2> QED
    BY <1>1, <2>1, <2>2, <2>3, <2>4, <2>5
<1>11. Ordered'
  <2>1. \A l \in Loops : pc'[l] = "check" /\ IsCron(l) => pc[l] = "check"
    BY <1>3, <1>5
  <2>2. gen' <= 1 => gen <= 1
    BY <1>1 DEF TypeOK, g
  <2>3. \A r \in CronRegs : \A m \in 0..MaxMinute : fired'[r][m] = 0
    BY DEF Start, NoneFired
  <2> QED
    BY <1>1, <2>1, <2>2, <2>3 DEF Ordered, OncePerMinute
<1> QED
  BY <1>6, <1>7, <1>8, <1>9, <1>10, <1>11

\* Stop asks nothing of any loop, and takes the flag down.
LEMMA StopKeeps == ASSUME IInv, Stop PROVE IInv'
<1> USE ScheduleAssumption DEF IInv, Stop, regVars, loopVars
<1>1. TypeOK' /\ ListedOrCancelled' /\ Fresh' /\ Served'
  BY DEF TypeOK, ListedOrCancelled, Fresh, Served
<1>2. Single'
  BY DEF Single, OneLoopEach, Running
<1>3. Ordered'
  BY DEF Ordered, OncePerMinute
<1> QED
  BY <1>1, <1>2, <1>3

\* A loop's own steps: what it serves it goes on serving, unless it leaves on a
\* closed channel or a cancelled job.
LEMMA LoopKeeps ==
    ASSUME IInv, NEW l \in Loops, LoopStep(l) \/ Tick(l)
    PROVE  TypeOK' /\ ListedOrCancelled' /\ Fresh' /\ Served' /\ Single'
<1> USE ScheduleAssumption DEF IInv
<1>1. LoopMoves(l)
  BY LoopStepsMove
<1>2. /\ UNCHANGED <<jobs, cancelled, paused, started, cronLoopOn, gen, register, minute, overlap>>
      /\ Running(l) /\ pc' \in [Loops -> {"none", "select", "wait", "check", "fire", "gone"}]
      /\ \A k \in Loops \ {l} : pc'[k] = pc[k]
      /\ pc'[l] # "none"
  BY <1>1 DEF LoopMoves, startVars, TypeOK
<1>0. gen > 0
  <2>1. gen # 0
    BY <1>2 DEF Single
  <2> QED
    BY <2>1 DEF TypeOK
<1>3. /\ at' \in [Loops -> 0..MaxGen] /\ tick' \in [Loops -> 0..MaxMinute]
      /\ \A k \in Loops \ {l} : at'[k] = at[k]
      /\ at'[l] > 0 <=> pc'[l] = "wait"
  <2> USE <1>2 DEF TypeOK, Goto, loopVars, startVars, regVars
  <2>1. CASE Listen(l)
    BY <1>0, <2>1 DEF Listen
  <2>2. CASE Leave(l)
    BY <2>2 DEF Leave
  <2>3. CASE TryFire(l)
    BY <2>3 DEF TryFire
  <2>4. CASE FireReturns(l)
    BY <2>4 DEF FireReturns
  <2>5. CASE CronCheck(l)
    BY <2>5 DEF CronCheck, FireDue
  <2>6. CASE Tick(l)
    BY <2>6 DEF Tick
  <2> QED
    BY <2>1, <2>2, <2>3, <2>4, <2>5, <2>6 DEF LoopStep
<1>4. \/ UNCHANGED <<lastFire, fired>>
      \/ CronCheck(l)
  BY DEF LoopStep, Listen, Leave, TryFire, FireReturns, Tick, regVars
<1>5. lastFire' \in [CronRegs -> 0..Never] /\ fired' \in [CronRegs -> [0..MaxMinute -> Nat]]
  <2>1. CASE CronCheck(l)
    <3>1. tick[l] \in 0..MaxMinute /\ tick[l] \in 0..Never
      BY DEF TypeOK, Never
    <3>2. lastFire' \in [CronRegs -> 0..Never]
      BY <2>1, <3>1 DEF CronCheck, TypeOK
    <3>3. fired' \in [CronRegs -> [0..MaxMinute -> Nat]]
      BY <2>1, <3>1 DEF CronCheck, FireDue, TypeOK
    <3> QED
      BY <3>2, <3>3
  <2> QED
    BY <1>4, <2>1 DEF TypeOK
<1>6. TypeOK'
  BY <1>2, <1>3, <1>5 DEF TypeOK
<1>7. ListedOrCancelled'
  BY <1>2 DEF ListedOrCancelled
<1>8. ASSUME started, NEW k \in Loops, Serving(k)
      PROVE  Serving(k)' \/ (k = l /\ ~IsCron(l) /\ l[1] \in cancelled)
  <2>1. CASE k # l
    BY <1>2, <1>3, <1>8, <2>1 DEF Serving, Running, Closed
  <2>2. CASE k = l /\ pc'[l] \in {"select", "check", "fire"}
    BY <2>2 DEF Serving, Running
  <2>3. CASE k = l /\ Listen(l)
    <3>1. at'[l] = gen
      BY <2>3 DEF Listen, TypeOK
    <3>2. ~Closed(at[l])'
      BY <1>2, <1>8, <3>1 DEF Closed, TypeOK
    <3>3. Running(l)'
      BY <1>2, <2>3 DEF Running, Listen, Goto, TypeOK
    <3> QED
      BY <2>3, <3>2, <3>3 DEF Serving
  <2>4. CASE k = l /\ Leave(l)
    BY <1>8, <2>4 DEF Leave, Serving
  <2>5. LoopStep(l) \/ Tick(l) => Listen(l) \/ Leave(l) \/ pc'[l] \in {"select", "check", "fire"}
    BY DEF LoopStep, TryFire, FireReturns, CronCheck, FireDue, Tick, Goto, TypeOK
  <2> QED
    BY <2>1, <2>2, <2>3, <2>4, <2>5
<1>9. Fresh'
  <2>1. l[2] <= gen /\ (\A r \in Regs : l = <<r, 0>> => register[r] = "done")
    BY <1>2, LoopNames DEF Fresh, Running, TypeOK
  <2>2. \A r \in Regs : pc'[<<r, 0>>] # "none" => register'[r] = "done"
    <3> SUFFICES ASSUME NEW r \in Regs, pc'[<<r, 0>>] # "none"
                 PROVE  register[r] = "done"
      BY <1>2
    <3>1. <<r, 0>> \in Loops
      BY LoopNames
    <3>2. CASE <<r, 0>> = l
      BY <2>1, <3>2
    <3>3. CASE <<r, 0>> # l
      BY <1>2, <3>1, <3>3 DEF Fresh
    <3> QED
      BY <3>2, <3>3
  <2>3. \A k \in Loops : k[2] > gen' => pc'[k] = "none"
    BY <1>2, <2>1, LoopNames DEF Fresh, TypeOK
  <2> QED
    BY <2>2, <2>3 DEF Fresh
<1>10. Served'
  <2>1. \A r \in jobs : r \notin cancelled
    BY DEF ListedOrCancelled
  <2>2. ASSUME NEW r \in jobs, started, register[r] = "done", r \notin CronRegs
        PROVE  \E k \in Loops : k[1] = r /\ Serving(k)'
    <3>1. PICK k \in Loops : k[1] = r /\ Serving(k)
      BY <2>2 DEF Served
    <3> QED
      BY <1>8, <2>1, <2>2, <3>1
  <2>3. ASSUME cronLoopOn
        PROVE  \E k \in Loops : IsCron(k) /\ Serving(k)'
    <3>1. PICK k \in Loops : IsCron(k) /\ Serving(k)
      BY <2>3 DEF Served
    <3> QED
      BY <1>8, <2>3, <3>1 DEF TypeOK
  <2> QED
    BY <1>2, <2>2, <2>3 DEF Served
<1>11. Single'
  <2>1. \A k \in Loops : Running(k)' => Running(k)
    BY <1>2 DEF Running
  <2> QED
    BY <1>2, <2>1 DEF Single, OneLoopEach
<1> QED
  BY <1>6, <1>7, <1>9, <1>10, <1>11

\* The order of the ticks: under the first Start there is one cron loop, so
\* what another has marked is behind the tick it handles.
LEMMA LoopKeepsOrder ==
    ASSUME IInv, NEW l \in Loops, LoopStep(l) \/ Tick(l)
    PROVE  Ordered'
<1> USE ScheduleAssumption DEF IInv
<1>0. LoopMoves(l)
  BY LoopStepsMove
<1>1. /\ UNCHANGED <<gen, minute, overlap>>
      /\ \A k \in Loops \ {l} : pc'[k] = pc[k]
      /\ Running(l)
      /\ minute \in Nat /\ \A k \in Loops : tick[k] \in Nat /\ tick[k] <= minute
      /\ \A r \in CronRegs : lastFire[r] \in Nat /\ \A m \in 0..MaxMinute : fired[r][m] \in Nat
  BY <1>0 DEF LoopMoves, startVars, TypeOK, Ordered, Never
<1>2. CASE Tick(l)
  <2>1. /\ UNCHANGED <<lastFire, fired>>
        /\ \A k \in Loops : tick'[k] = IF k = l /\ IsCron(l) THEN minute ELSE tick[k]
    BY <1>2 DEF Tick, regVars, TypeOK
  <2>2. ASSUME NEW r \in CronRegs, NEW k \in Loops, pc'[k] = "check", IsCron(k), lastFire[r] # Never,
               gen <= 1
        PROVE  lastFire[r] <= tick'[k]
    BY <1>1, <2>1, <2>2 DEF Ordered
  <2>3. \A k \in Loops : tick'[k] <= minute'
    BY <1>1, <2>1
  <2> QED
    BY <1>1, <2>1, <2>2, <2>3 DEF Ordered, OncePerMinute
<1>3. CASE LoopStep(l) /\ ~CronCheck(l)
  <2>1. UNCHANGED <<lastFire, fired, tick>>
    BY <1>3 DEF LoopStep, Listen, Leave, TryFire, FireReturns, regVars
  <2>2. IsCron(l) => pc'[l] # "check"
    BY <1>3 DEF LoopStep, Listen, Leave, TryFire, FireReturns, Goto, TypeOK
  <2> QED
    BY <1>1, <2>1, <2>2 DEF Ordered, OncePerMinute
<1>4. CASE CronCheck(l)
  <2> DEFINE t == tick[l]
  <2>1. /\ pc[l] = "check" /\ IsCron(l) /\ pc'[l] = "select"
        /\ \A r \in CronRegs : lastFire'[r] = IF r \in Due(t) THEN t ELSE lastFire[r]
        /\ \A k \in Loops : tick'[k] = tick[k] \/ tick'[k] = 0
        /\ t \in 0..MaxMinute /\ t # Never
    BY <1>4 DEF CronCheck, FireDue, Goto, TypeOK, Never
  <2>2. \A r \in CronRegs : \A m \in 0..MaxMinute :
          fired'[r][m] = fired[r][m] + IF m = t /\ r \in Due(t) /\ gen = 1 THEN 1 ELSE 0
    BY <1>4, <2>1 DEF CronCheck, FireDue, TypeOK
  <2>3. \A r \in Due(t) : /\ lastFire[r] # t /\ Match(Expr[r], Clock[t])
    BY DEF Due, DueAt
  <2>4. t <= minute
    BY DEF Ordered
  <2>5. gen <= 1 => \A r \in CronRegs : lastFire[r] # Never => lastFire[r] <= t
    BY <2>1 DEF Ordered
  <2> HIDE DEF t
  <2>6. OncePerMinute'
    <3> SUFFICES ASSUME NEW r \in CronRegs, NEW m \in 0..MaxMinute
                 PROVE  fired'[r][m] <= IF Match(Expr[r], Clock[m]) THEN 1 ELSE 0
      BY DEF OncePerMinute
    <3>1. fired[r][m] <= IF Match(Expr[r], Clock[m]) THEN 1 ELSE 0
      BY DEF Ordered, OncePerMinute
    <3>2. CASE m = t /\ r \in Due(t) /\ gen = 1
      <4>1. fired[r][m] = 0
        BY <2>1, <2>3, <2>5, <3>2 DEF Ordered, TypeOK, Never
      <4> QED
        BY <2>2, <2>3, <3>2, <4>1
    <3> QED
      BY <2>2, <3>1, <3>2 DEF TypeOK
  <2>7. \A r \in CronRegs : lastFire'[r] # Never => lastFire'[r] <= minute'
    BY <1>1, <2>1, <2>4 DEF Ordered
  <2>8. ASSUME gen <= 1, NEW r \in CronRegs, NEW m \in 0..MaxMinute, fired'[r][m] # 0
        PROVE  lastFire'[r] # Never /\ m <= lastFire'[r]
    <3>1. CASE m = t /\ r \in Due(t)
      BY <2>1, <3>1
    <3>2. CASE ~(m = t /\ r \in Due(t))
      <4>1. lastFire[r] # Never /\ m <= lastFire[r]
        <5>0. fired'[r][m] = fired[r][m] + 0
          BY <2>2, <2>8, <3>2
        <5>1. fired[r][m] # 0
          BY <2>8, <5>0
        <5> QED
          BY <2>8, <5>1 DEF Ordered
      <4> QED
        BY <1>1, <2>1, <2>5, <2>8, <4>1
    <3> QED
      BY <3>1, <3>2
  <2>9. ASSUME gen <= 1, NEW r \in CronRegs, NEW k \in Loops, pc'[k] = "check", IsCron(k)
        PROVE  FALSE
    <3>1. k # l /\ pc[k] = "check"
      BY <1>1, <2>1, <2>9
    <3>2. Running(k) /\ Owner(k) = Owner(l) /\ Owner(k) \notin overlap
      BY <2>1, <2>9, <3>1, LoopNames DEF Running, Single
    <3> QED
      BY <1>1, <3>1, <3>2 DEF Single, OneLoopEach
  <2>10. \A k \in Loops : tick'[k] <= minute'
    BY <1>1, <2>1
  <2> QED
    BY <1>1, <2>6, <2>7, <2>8, <2>9, <2>10 DEF Ordered
<1> QED
  BY <1>2, <1>3, <1>4

-----------------------------------------------------------------------------
\* Every step keeps the invariant.
LEMMA NextKeepsIInv == ASSUME IInv, [Next]_vars PROVE IInv'
<1>1. CASE \E r \in Regs : RegisterEnter(r)
  BY <1>1, RegisterEnterKeeps
<1>2. CASE \E r \in Regs : RegisterLaunch(r)
  BY <1>2, RegisterLaunchKeeps
<1>3. CASE (\E r \in Regs : Cancel(r) \/ Pause(r) \/ Resume(r)) \/ MinutePasses
  BY <1>3, ListKeeps
<1>4. CASE Start \/ Stop
  BY <1>4, StartKeeps, StopKeeps
<1>5. CASE \E l \in Loops : LoopStep(l) \/ Tick(l)
  BY <1>5, LoopKeeps, LoopKeepsOrder DEF IInv
<1>6. CASE UNCHANGED vars
  BY <1>6 DEF IInv, TypeOK, ListedOrCancelled, Fresh, Served, Single, Ordered, OneLoopEach,
              OncePerMinute, Serving, Running, Closed, vars, regVars, startVars, loopVars
<1> QED
  BY <1>1, <1>2, <1>3, <1>4, <1>5, <1>6 DEF Next

LEMMA Invariance == Spec => []IInv
<1> QED
  BY InitIInv, NextKeepsIInv, PTL DEF Spec

\* The flag of the one cron loop is down whenever the scheduler is stopped.
THEOREM TypeCorrect == Spec => []TypeOK
<1>1. IInv => TypeOK
  BY DEF IInv
<1> QED
  BY <1>1, Invariance, PTL

\* Whatever leaves the list has been stopped, and an Id is listed once.
THEOREM ListConsistent == Spec => []ListedOrCancelled
<1>1. IInv => ListedOrCancelled
  BY DEF IInv
<1> QED
  BY <1>1, Invariance, PTL

\* No race of Register with Start and Stop leaves a listed job without a loop.
THEOREM JobsServed == Spec => []EveryJobServed
<1>1. IInv => EveryJobServed
  BY DEF IInv, Served, EveryJobServed
<1> QED
  BY <1>1, Invariance, PTL

\* A second loop of a job comes only of the two races that overlap records.
THEOREM LoopsSingle == Spec => []OneLoopEach
<1>1. IInv => OneLoopEach
  BY DEF IInv, Single
<1> QED
  BY <1>1, Invariance, PTL

\* A minute that an expression matches fires a registration at most once.
THEOREM MinuteFiresOnce == Spec => []OncePerMinute
<1>1. IInv => OncePerMinute
  BY DEF IInv, Ordered
<1> QED
  BY <1>1, Invariance, PTL

-----------------------------------------------------------------------------
\* The safety half of LoopsLeave: what has left, or may not be launched any
\* more, never comes back.

\* The loops of interval registrations that were registered.
Registered == \A l \in Loops : Running(l) /\ ~IsCron(l) => register[l[1]] # "no"

\* A loop that has left stays away; a scheduler that is stopped launches none;
\* and a job that was cancelled or replaced gets none from a later Start, nor
\* from a Register that is through (schedule.go:94-122, 231-247).
NoneComesBack ==
    [][\A l \in Loops : /\ pc[l] = "gone" => pc'[l] = "gone"
                        /\ Running(l)' /\ ~Running(l) => started'
                        /\ /\ Running(l)' /\ ~Running(l) /\ ~IsCron(l)
                           /\ register[l[1]] = "done"
                           => l[1] \notin cancelled']_vars

\* A handler starts only for a registration that is listed and not paused at
\* that moment, whatever loops of an earlier Start or of a replaced job are
\* still running (schedule.go:292-308, 324-341).
FiresOnlyListed ==
    [][/\ \A l \in Loops : pc'[l] = "fire" /\ pc[l] # "fire" => l[1] \in jobs \ paused
       /\ \A r \in CronRegs : gen' = gen /\ fired'[r] # fired[r] => r \in jobs \ paused]_vars

\* A loop that comes to run has never run, and was launched under a started
\* scheduler: by Start for a listed job, or by the end of a Register.
LEMMA NewLoops ==
    ASSUME IInv, [Next]_vars, NEW l \in Loops, Running(l)', ~Running(l)
    PROVE  /\ pc[l] = "none" /\ started'
           /\ ~IsCron(l) => \/ l[1] \in jobs /\ cancelled' = cancelled /\ register' = register
                            \/ register[l[1]] = "listed" /\ register'[l[1]] = "done"
<1> USE ScheduleAssumption DEF IInv
<1>1. ASSUME NEW r \in Regs, RegisterEnter(r) \/ Cancel(r) \/ Pause(r) \/ Resume(r) PROVE FALSE
  BY <1>1 DEF RegisterEnter, Cancel, Pause, Resume, loopVars, Running
<1>2. ASSUME NEW r \in Regs, RegisterLaunch(r)
      PROVE  /\ l = <<r, 0>> /\ pc[l] = "none" /\ started'
             /\ register[r] = "listed" /\ register'[r] = "done"
  <2>1. /\ register[r] = "listed" /\ register' = [register EXCEPT ![r] = "done"]
        /\ \/ pc' = pc
           \/ started /\ pc' = [pc EXCEPT ![<<r, 0>>] = Entry(<<r, 0>>)]
        /\ started' = started
    BY <1>2 DEF RegisterLaunch
  <2>2. l = <<r, 0>> /\ started
    BY <2>1 DEF Running, TypeOK
  <2>3. pc[<<r, 0>>] = "none"
    BY <2>1 DEF Fresh
  <2> QED
    BY <2>1, <2>2, <2>3 DEF TypeOK
<1>3. ASSUME Start
      PROVE  /\ pc[l] = "none" /\ started'
             /\ ~IsCron(l) => l[1] \in jobs /\ cancelled' = cancelled /\ register' = register
  <2>1. /\ \/ l \in {<<r, gen + 1>> : r \in jobs \ CronRegs}
           \/ l \in {<<CronLoop, gen + 1>> : r \in jobs \cap CronRegs}
        /\ started' /\ UNCHANGED <<cancelled, register>>
    BY <1>3 DEF Start, Running, regVars
  <2>2. l[2] = gen + 1 /\ gen \in Nat /\ (~IsCron(l) => l[1] \in jobs)
    BY <2>1 DEF TypeOK, IsCron
  <2>3. pc[l] = "none"
    BY <2>2 DEF Fresh
  <2> QED
    BY <2>1, <2>2, <2>3
<1>4. ASSUME Stop \/ MinutePasses \/ UNCHANGED vars PROVE FALSE
  BY <1>4 DEF Stop, MinutePasses, vars, loopVars, Running
<1>5. ASSUME NEW k \in Loops, LoopStep(k) \/ Tick(k) PROVE FALSE
  <2>1. LoopMoves(k)
    BY <1>5, LoopStepsMove
  <2> QED
    BY <2>1 DEF LoopMoves, Running, TypeOK
<1> QED
  BY <1>1, <1>2, <1>3, <1>4, <1>5 DEF Next

\* A registration that was made stays made, and one that is through stays so.
LEMMA RegisterGoesOn ==
    ASSUME IInv, [Next]_vars, NEW r \in Regs
    PROVE  /\ register[r] # "no" => register'[r] # "no"
           /\ register[r] = "done" => register'[r] = "done"
<1>1. ASSUME NEW q \in Regs, RegisterEnter(q) \/ RegisterLaunch(q) \/ Cancel(q) \/ Pause(q) \/ Resume(q)
      PROVE  /\ register[r] # "no" => register'[r] # "no"
             /\ register[r] = "done" => register'[r] = "done"
  BY <1>1 DEF RegisterEnter, RegisterLaunch, Cancel, Pause, Resume, IInv, TypeOK
<1>2. ASSUME NEW k \in Loops, LoopStep(k) \/ Tick(k) PROVE register' = register
  BY <1>2, LoopStepsMove DEF LoopMoves, IInv
<1>3. Start \/ Stop \/ MinutePasses \/ UNCHANGED vars => register' = register
  BY DEF Start, Stop, MinutePasses, vars
<1> QED
  BY <1>1, <1>2, <1>3 DEF Next

\* Who is listed has been registered, so a loop runs only for a registration.
LEMMA RegisteredStep == ASSUME IInv, Registered, [Next]_vars PROVE Registered'
<1> SUFFICES ASSUME NEW l \in Loops, Running(l)', ~IsCron(l) PROVE register'[l[1]] # "no"
  BY DEF Registered, IsCron
<1>1. l[1] \in Regs
  BY LoopNames
<1>2. CASE Running(l)
  BY <1>1, <1>2, RegisterGoesOn DEF Registered
<1>3. CASE ~Running(l)
  BY <1>1, <1>3, NewLoops, RegisterGoesOn DEF IInv, ListedOrCancelled
<1> QED
  BY <1>2, <1>3

\* A loop that has left stays away, and what was stopped, cancelled or replaced
\* gets no new one, however the calls race (schedule.go:94-122, 231-251).
THEOREM NoneComesBackCorrect == Spec => NoneComesBack
<1> DEFINE Step ==
      \A l \in Loops : /\ pc[l] = "gone" => pc'[l] = "gone"
                       /\ Running(l)' /\ ~Running(l) => started'
                       /\ /\ Running(l)' /\ ~Running(l) /\ ~IsCron(l)
                          /\ register[l[1]] = "done"
                          => l[1] \notin cancelled'
<1>1. ASSUME IInv, [Next]_vars PROVE Step
  <2> SUFFICES ASSUME NEW l \in Loops
               PROVE  /\ pc[l] = "gone" => pc'[l] = "gone"
                      /\ Running(l)' /\ ~Running(l) => started'
                      /\ /\ Running(l)' /\ ~Running(l) /\ ~IsCron(l)
                         /\ register[l[1]] = "done"
                         => l[1] \notin cancelled'
    OBVIOUS
  <2>1. Running(l)' /\ ~Running(l) => started' /\ pc[l] = "none"
    BY <1>1, NewLoops
  <2>2. ASSUME pc[l] = "gone" PROVE pc'[l] = "gone"
    <3>1. ~Running(l) /\ ~Running(l)'
      BY <2>1, <2>2 DEF Running
    <3>2. pc'[l] # "none"
      <4>1. CASE UNCHANGED pc
        BY <2>2, <4>1
      <4>2. ASSUME NEW k \in Loops, LoopStep(k) \/ Tick(k) PROVE pc'[l] # "none"
        BY <1>1, <2>2, <4>2, LoopStepsMove DEF LoopMoves, IInv, TypeOK
      <4>3. ASSUME NEW r \in Regs, RegisterLaunch(r) PROVE pc'[l] # "none"
        BY <1>1, <2>2, <4>3 DEF RegisterLaunch, Entry, IInv, TypeOK
      <4>4. ASSUME Start PROVE pc'[l] # "none"
        BY <1>1, <2>2, <4>4 DEF Start, Entry, IInv, TypeOK
      <4>5. ASSUME NEW r \in Regs, RegisterEnter(r) \/ Cancel(r) \/ Pause(r) \/ Resume(r)
            PROVE  UNCHANGED pc
        BY <4>5 DEF RegisterEnter, Cancel, Pause, Resume, loopVars
      <4>6. Stop \/ MinutePasses \/ UNCHANGED vars => UNCHANGED pc
        BY DEF Stop, MinutePasses, vars, loopVars
      <4> QED
        BY <1>1, <4>1, <4>2, <4>3, <4>4, <4>5, <4>6 DEF Next
    <3> QED
      BY <3>1, <3>2 DEF Running
  <2>3. ASSUME Running(l)', ~Running(l), ~IsCron(l), register[l[1]] = "done"
        PROVE  l[1] \notin cancelled'
    <3>1. l[1] \in jobs /\ cancelled' = cancelled
      BY <1>1, <2>3, NewLoops
    <3> QED
      BY <1>1, <3>1 DEF IInv, ListedOrCancelled
  <2> QED
    BY <2>1, <2>2, <2>3
<1> HIDE DEF Step
<1>2. IInv /\ [Next]_vars => Step
  BY <1>1
<1>3. [][Step]_vars => NoneComesBack
  BY PTL DEF NoneComesBack, Step
<1> QED
  BY <1>2, <1>3, Invariance, PTL DEF Spec

\* A count to which nothing is added.
LEMMA AddsNothing ==
    ASSUME NEW S, NEW f \in [S -> Nat], NEW x PROVE [f EXCEPT ![x] = @ + 0] = f
<1> DEFINE h == [f EXCEPT ![x] = @ + 0]
<1>1. h = [y \in S |-> IF y = x THEN f[x] + 0 ELSE f[y]]
  OBVIOUS
<1>2. \A y \in S : h[y] = f[y]
  BY <1>1
<1>3. f = [y \in S |-> f[y]]
  OBVIOUS
<1> HIDE DEF h
<1>4. h = [y \in S |-> f[y]]
  BY <1>1, <1>2
<1> QED
  BY <1>3, <1>4 DEF h

\* Nothing fires for a job that is cancelled, replaced or paused when its loop
\* looks, not even through a loop that should have left (schedule.go:324-341).
THEOREM FiresOnlyListedCorrect == Spec => FiresOnlyListed
<1> DEFINE Step ==
      /\ \A l \in Loops : pc'[l] = "fire" /\ pc[l] # "fire" => l[1] \in jobs \ paused
      /\ \A r \in CronRegs : gen' = gen /\ fired'[r] # fired[r] => r \in jobs \ paused
<1>1. ASSUME IInv, Registered, [Next]_vars
      PROVE  \A l \in Loops : pc'[l] = "fire" /\ pc[l] # "fire" => l[1] \in jobs \ paused
  <2> SUFFICES ASSUME NEW l \in Loops, pc'[l] = "fire", pc[l] # "fire"
               PROVE  l[1] \in jobs \ paused
    OBVIOUS
  <2> USE <1>1 DEF IInv
  <2>1. ASSUME NEW k \in Loops, LoopStep(k) \/ Tick(k) PROVE TryFire(l)
    BY <2>1 DEF LoopStep, Listen, Leave, TryFire, FireReturns, CronCheck, FireDue, Tick, Goto,
                TypeOK
  <2>2. ASSUME TryFire(l) PROVE l[1] \in jobs \ paused
    <3>1. Running(l) /\ ~IsCron(l) /\ l[1] \notin paused \cup cancelled
      BY <2>2 DEF TryFire, Goto, Running, TypeOK
    <3>2. l[1] \in Regs /\ register[l[1]] # "no"
      BY <3>1, LoopNames DEF Registered
    <3> QED
      BY <3>1, <3>2 DEF ListedOrCancelled
  <2>3. ASSUME NEW r \in Regs,
               RegisterEnter(r) \/ RegisterLaunch(r) \/ Cancel(r) \/ Pause(r) \/ Resume(r)
        PROVE  FALSE
    BY <2>3 DEF RegisterEnter, RegisterLaunch, Cancel, Pause, Resume, loopVars, Entry, TypeOK
  <2>4. Start \/ Stop \/ MinutePasses \/ UNCHANGED vars => FALSE
    BY DEF Start, Stop, MinutePasses, vars, loopVars, Entry, TypeOK
  <2> QED
    BY <2>1, <2>2, <2>3, <2>4 DEF Next
<1>2. ASSUME IInv, [Next]_vars
      PROVE  \A r \in CronRegs : gen' = gen /\ fired'[r] # fired[r] => r \in jobs \ paused
  <2> SUFFICES ASSUME NEW r \in CronRegs, gen' = gen, fired'[r] # fired[r] PROVE r \in jobs \ paused
    OBVIOUS
  <2> USE <1>2 DEF IInv
  <2>1. ASSUME NEW l \in Loops, CronCheck(l) PROVE r \in jobs \ paused
    <3>1. fired[r] \in [0..MaxMinute -> Nat]
      BY DEF TypeOK
    <3>2. r \notin Due(tick[l]) => fired'[r] = [fired[r] EXCEPT ![tick[l]] = @ + 0]
      BY <2>1 DEF CronCheck, FireDue
    <3>3. [fired[r] EXCEPT ![tick[l]] = @ + 0] = fired[r]
      BY <3>1, AddsNothing
    <3>4. r \in Due(tick[l])
      BY <3>2, <3>3
    <3> QED
      BY <3>4 DEF Due
  <2>2. ASSUME NEW l \in Loops, Listen(l) \/ Leave(l) \/ TryFire(l) \/ FireReturns(l) \/ Tick(l)
        PROVE  FALSE
    BY <2>2 DEF Listen, Leave, TryFire, FireReturns, Tick
  <2>3. ASSUME NEW q \in Regs,
               RegisterEnter(q) \/ RegisterLaunch(q) \/ Cancel(q) \/ Pause(q) \/ Resume(q)
        PROVE  FALSE
    BY <2>3 DEF RegisterEnter, RegisterLaunch, Cancel, Pause, Resume
  <2>4. Start \/ Stop \/ MinutePasses \/ UNCHANGED vars => FALSE
    BY DEF Start, Stop, MinutePasses, vars, TypeOK
  <2> QED
    BY <2>1, <2>2, <2>3, <2>4 DEF Next, LoopStep
<1>3. IInv /\ Registered /\ [Next]_vars => Step
  BY <1>1, <1>2
<1> HIDE DEF Step
<1>4. Init => Registered
  BY DEF Init, Registered, Running
<1>5. IInv /\ Registered /\ [Next]_vars => Registered'
  BY RegisteredStep
<1>6. [][Step]_vars => FiresOnlyListed
  BY PTL DEF FiresOnlyListed, Step
<1> QED
  BY <1>3, <1>4, <1>5, <1>6, Invariance, PTL DEF Spec

-----------------------------------------------------------------------------
\* A multiple of the step leaves no remainder.
LEMMA Multiple == ASSUME NEW s \in Nat \ {0}, NEW k \in Int PROVE (s * k) % s = 0
  BY SMT

\* The neighbours of a multiple are one step away.
LEMMA Neighbours ==
    ASSUME NEW s \in Nat \ {0}, NEW n \in Int, n % s = 0
    PROVE  (n + s) % s = 0 /\ (n - s) % s = 0 /\ (n > 0 => n >= s)
<1> DEFINE q == n \div s
<1>1. q \in Int /\ n = s * q
  OBVIOUS
<1>2. n > 0 => n >= s
  OBVIOUS
<1> HIDE DEF q
<1>3. n + s = s * (q + 1) /\ n - s = s * (q - 1)
  BY <1>1, Z3
<1>4. (s * (q + 1)) % s = 0 /\ (s * (q - 1)) % s = 0
  BY <1>1, Multiple
<1> QED
  BY <1>2, <1>3, <1>4

\* The parts of an expression that parseField accepts: the loop over a range
\* starts at its first value, keeps to the bounds of the field and takes every
\* value a whole number of steps from the start (cron.go:79-88).
THEOREM PartSteps ==
    ASSUME NEW f \in 1..5, NEW part, part.from \in Int, part.to \in Int, part.step \in Int,
           InBounds(part, f)
    PROVE  /\ First(part, f) \in Values(part, f)
           /\ Values(part, f) \subseteq Lowest[f]..Highest[f]
           /\ \A v \in Values(part, f) :
                 v + part.step \in Values(part, f) \/ v + part.step > Last(part, f)
           /\ \A v \in Values(part, f) :
                 v = First(part, f) \/ v - part.step \in Values(part, f)
<1> DEFINE a == First(part, f)
           b == Last(part, f)
           s == part.step
<1>1. a \in Int /\ b \in Int /\ s \in Nat \ {0} /\ a <= b /\ Lowest[f] <= a /\ b <= Highest[f]
      /\ Lowest[f] \in Int /\ Highest[f] \in Int
  BY DEF InBounds, First, Last, Lowest, Highest
<1>2. Values(part, f) = {v \in a..b : (v - a) % s = 0}
  BY DEF Values
<1> HIDE DEF a, b, s
<1>3. (a - a) % s = 0
  BY <1>1
<1>4. ASSUME NEW v \in a..b, (v - a) % s = 0
      PROVE  (v + s - a) % s = 0 /\ (v - s - a) % s = 0 /\ (v # a => v - s >= a)
  <2> DEFINE n == v - a
  <2>1. n \in Nat /\ v + s - a = n + s /\ v - s - a = n - s /\ (v # a => n > 0)
    BY <1>1
  <2>2. n % s = 0
    BY <1>4
  <2> HIDE DEF n
  <2>3. (n + s) % s = 0 /\ (n - s) % s = 0 /\ (n > 0 => n >= s)
    BY <1>1, <2>1, <2>2, Neighbours
  <2> QED
    BY <1>1, <2>1, <2>3 DEF n
<1> QED
  BY <1>1, <1>2, <1>3, <1>4 DEF a, b, s

-----------------------------------------------------------------------------
(* What a cron expression admits. *)

\* A part as it was split and converted.
Parted == [range : {"all", "one", "span", "bad"}, from : Int, to : Int, step : Nat]

\* A field of an accepted expression admits only times there are, and at least
\* where each of its parts starts; a * without a step admits them all.  No
\* field admits nothing, so a job waits for its days only; cron.go:16-87.
THEOREM AcceptedFieldsAdmit ==
    ASSUME NEW expr, Parses(expr), NEW f \in 1..5, expr[f] \in Seq(Parted) \ {<<>>}
    PROVE  /\ ParseField(expr[f], f) \subseteq Lowest[f]..Highest[f]
           /\ \A i \in DOMAIN expr[f] :
                 /\ First(expr[f][i], f) \in ParseField(expr[f], f)
                 /\ expr[f][i].range = "all" /\ expr[f][i].step = 1 =>
                        ParseField(expr[f], f) = Lowest[f]..Highest[f]
<1> DEFINE field == expr[f]
<1>1. \A i \in DOMAIN field : field[i] \in Parted /\ InBounds(field[i], f)
  BY DEF Parses
<1>2. Lowest[f] \in Nat /\ Highest[f] \in Nat
  BY DEF Lowest, Highest
<1>3. ASSUME NEW i \in DOMAIN field
      PROVE  /\ Values(field[i], f) \subseteq Lowest[f]..Highest[f]
             /\ First(field[i], f) \in Values(field[i], f)
             /\ field[i].range = "all" /\ field[i].step = 1 =>
                    Values(field[i], f) = Lowest[f]..Highest[f]
  <2>1. field[i].from \in Int /\ field[i].to \in Int /\ field[i].step \in Int
    BY <1>1 DEF Parted
  <2>2. /\ First(field[i], f) \in Values(field[i], f)
        /\ Values(field[i], f) \subseteq Lowest[f]..Highest[f]
    BY <1>1, <2>1, PartSteps
  <2>3. \A v \in Lowest[f]..Highest[f] : (v - Lowest[f]) % 1 = 0
    BY <1>2
  <2> QED BY <2>2, <2>3 DEF Values, First, Last
<1> QED BY <1>3 DEF ParseField
=============================================================================
