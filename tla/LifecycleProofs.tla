-------------------------- MODULE LifecycleProofs --------------------------
(***************************************************************************)
(* For any number of processes and of goroutines that use the store: two   *)
(* processes work together only while one of them is coming or going, no   *)
(* handle of the database leaks, an operation works on the file of the     *)
(* phase its process is in, and who is asked to go does not forget it.     *)
(***************************************************************************)
EXTENDS Lifecycle, TLAPS

Stages == {"absent", "dead"} \cup Alive

\* The port: who tried to listen and failed is on the way out.
PortTypes ==
    /\ pc \in [Procs -> Stages]
    /\ srv \in [Procs -> {"none", "starting", "bound", "closed"}]
    /\ control \in [Procs -> {"none", "stop", "restart"}]
    /\ signal \in [Procs -> {"none", "term", "kill"}]
    /\ port \in Procs \cup {NoProc}

Holds(p)  == srv[p] = "bound" <=> port = p
Failed(p) == srv[p] = "closed" => pc[p] \in Leave \/ control[p] # "none"

Early(p)  == pc[p] \in (Boot \ {"notify"}) \cup {"absent", "dead"} => srv[p] = "none"

PortInv == PortTypes /\ \A p \in Procs : Holds(p) /\ Failed(p) /\ Early(p)

\* The store: one open handle, on the file that dbPath names, which is that of
\* the phase.
StoreTypes ==
    /\ db \in [Procs -> Nat]
    /\ dbPath \in [Procs -> Paths]
    /\ opens \in [Procs -> Nat]
    /\ file \in [Procs -> [Handles -> Paths]]
    /\ unclosed \in [Procs -> SUBSET Handles]
    /\ op \in [Ops -> {"idle", "slow", "fetched"}]
    /\ by \in [Ops -> Procs \cup {NoProc}]
    /\ handle \in [Ops -> Nat]

Kept(p) ==
    /\ unclosed[p] \subseteq {db[p]} \ {Closed}
    /\ db[p] <= opens[p] /\ opens[p] <= MaxOpens
    /\ db[p] # Closed => file[p][db[p]] = dbPath[p]

Phase(p) ==
    /\ pc[p] = "absent" \/ Unopened(p) => dbPath[p] = Default
    /\ Opened(p) => dbPath[p] = Configured /\ db[p] # Closed
    /\ pc[p] # "exit" => db[p] \in unclosed[p] \cup {Closed}

Called(o) == op[o] # "idle" => by[o] \in Procs

StoreInv ==
    /\ StoreTypes
    /\ \A p \in Procs : Kept(p) /\ Phase(p)
    /\ \A o \in Ops : Called(o)

Inv == PortInv /\ StoreInv

-----------------------------------------------------------------------------
LEMMA InvInit == Init => Inv
<1> SUFFICES ASSUME Init PROVE Inv
  OBVIOUS
<1> USE DEF Init, StoreInit
<1>1. PortTypes
  BY DEF PortTypes, Stages
<1>2. \A p \in Procs : Holds(p) /\ Failed(p) /\ Early(p)
  BY StorageAssumption DEF Holds, Failed, Early, Boot
<1>3. StoreTypes
  BY DEF StoreTypes, Paths, Closed, Handles
<1>4. \A p \in Procs : Kept(p) /\ Phase(p)
  BY StorageAssumption DEF Kept, Phase, Opened, Unopened, Boot, Leave, Closed
<1>5. \A o \in Ops : Called(o)
  BY DEF Called
<1> QED BY <1>1, <1>2, <1>3, <1>4, <1>5 DEF Inv, PortInv, StoreInv

\* A step of main that leaves the server alone, and does not come back from the
\* way out.
LEMMA PortMove ==
    ASSUME PortInv, NEW p \in Procs, NEW stage \in Alive, GoTo(p, stage),
           pc[p] \in Leave => stage \in Leave,
           stage \in Boot \ {"notify"} => pc[p] \in (Boot \ {"serve", "notify"}) \cup {"absent"},
           signal' \in [Procs -> {"none", "term", "kill"}],
           UNCHANGED <<web, control>>
    PROVE  PortInv'
<1> USE DEF GoTo, web
<1>1. PortTypes'
  BY DEF PortInv, PortTypes, Stages
<1>2. ASSUME NEW q \in Procs PROVE Holds(q)' /\ Failed(q)' /\ Early(q)'
  BY <1>2 DEF PortInv, PortTypes, Holds, Failed, Early, Alive, Boot, Leave
<1> QED BY <1>1, <1>2 DEF PortInv

\* Phases in which the store is on the default file, on the configured one, or
\* on any.
Before == {"absent", "init", "check", "await", "open", "spawn"}
During == {"jobs", "gateway", "serve", "notify", "run",
           "http", "gwStop", "gwWait", "sched", "close"}

LEMMA PhaseByStage ==
    ASSUME NEW p \in Procs
    PROVE  Phase(p) <=> /\ pc[p] \in Before => dbPath[p] = Default
                        /\ pc[p] \in During => dbPath[p] = Configured /\ db[p] # Closed
                        /\ pc[p] # "exit" => db[p] \in unclosed[p] \cup {Closed}
  BY DEF Phase, Unopened, Opened, Boot, Leave, Before, During

\* A step of main that leaves the store alone and stays in its phase, or exits.
LEMMA StoreMove ==
    ASSUME StoreInv, PortTypes, NEW p \in Procs, NEW stage \in Alive, GoTo(p, stage),
           \/ pc[p] \in Before /\ stage \in Before
           \/ pc[p] \in During /\ stage \in During
           \/ stage = "exit",
           UNCHANGED storage
    PROVE  StoreInv'
<1> USE DEF GoTo, storage, store, calls
<1>1. StoreTypes' /\ \A o \in Ops : Called(o)'
  BY DEF StoreInv, StoreTypes, Called
<1>2. ASSUME NEW q \in Procs PROVE Kept(q)'
  BY <1>2 DEF StoreInv, Kept
<1>3. ASSUME NEW q \in Procs PROVE Phase(q)'
  <2>1. Phase(q) /\ pc' = [pc EXCEPT ![p] = stage] /\ pc \in [Procs -> Stages]
    BY DEF StoreInv, PortTypes
  <2>2. CASE q = p
    BY <2>1, <2>2 DEF Phase, Unopened, Opened, Boot, Leave, Before, During
  <2>3. CASE q # p
    BY <2>1, <2>3 DEF Phase, Unopened, Opened
  <2> QED BY <2>2, <2>3
<1> QED BY <1>1, <1>2, <1>3 DEF StoreInv

\* A step that moves no main and leaves the store alone.
LEMMA StoreStays ==
    ASSUME StoreInv, UNCHANGED <<pc, storage>>
    PROVE  StoreInv'
  BY DEF storage, store, calls, StoreInv, StoreTypes, Kept, Phase, Unopened, Opened, Called

\* A handle is opened in place of the one in db.
LEMMA OpenHandleStep ==
    ASSUME StoreTypes, NEW p \in Procs, Kept(p), NEW path \in Paths,
           NEW kept, kept = {}, OpenHandle(p, path, kept)
    PROVE  /\ db' \in [Procs -> Nat] /\ dbPath' \in [Procs -> Paths] /\ opens' \in [Procs -> Nat]
           /\ file' \in [Procs -> [Handles -> Paths]] /\ unclosed' \in [Procs -> SUBSET Handles]
           /\ Kept(p)' /\ db'[p] # Closed /\ db'[p] \in unclosed'[p] /\ dbPath'[p] = path
           /\ \A q \in Procs \ {p} : /\ db'[q] = db[q] /\ dbPath'[q] = dbPath[q]
                                     /\ opens'[q] = opens[q] /\ file'[q] = file[q]
                                     /\ unclosed'[q] = unclosed[q]
<1> DEFINE n == opens[p] + 1
<1>1. n \in Handles /\ n # Closed /\ opens[p] \in Nat /\ db[p] \in Nat
  BY StorageAssumption DEF OpenHandle, Handles, StoreTypes, Closed
<1>2. /\ opens' = [opens EXCEPT ![p] = n] /\ db' = [db EXCEPT ![p] = n]
      /\ dbPath' = [dbPath EXCEPT ![p] = path] /\ file' = [file EXCEPT ![p][n] = path]
      /\ unclosed' = [unclosed EXCEPT ![p] = {n}]
      /\ opens[p] < MaxOpens
  BY DEF OpenHandle
<1>4. unclosed'[p] = {n} /\ db'[p] = n /\ opens'[p] = n /\ dbPath'[p] = path
  BY <1>2 DEF StoreTypes
<1>5. file'[p][n] = path
  BY <1>1, <1>2 DEF StoreTypes
<1>6. Kept(p)'
  BY <1>1, <1>2, <1>4, <1>5, StorageAssumption DEF Kept
<1>7. file' \in [Procs -> [Handles -> Paths]]
  BY <1>1, <1>2 DEF StoreTypes
<1>8. unclosed' \in [Procs -> SUBSET Handles]
  BY <1>1, <1>2 DEF StoreTypes
<1>9. /\ db' \in [Procs -> Nat] /\ dbPath' \in [Procs -> Paths] /\ opens' \in [Procs -> Nat]
  BY <1>1, <1>2 DEF StoreTypes
<1>10. ASSUME NEW q \in Procs \ {p}
       PROVE  /\ db'[q] = db[q] /\ dbPath'[q] = dbPath[q] /\ opens'[q] = opens[q]
              /\ file'[q] = file[q] /\ unclosed'[q] = unclosed[q]
  BY <1>2, <1>10 DEF StoreTypes
<1> QED BY <1>1, <1>4, <1>6, <1>7, <1>8, <1>9, <1>10

-----------------------------------------------------------------------------
\* The store actions of main.
LEMMA OpenStoreStep ==
    ASSUME Inv, NEW p \in Procs, OpenStore(p)
    PROVE  Inv'
<1> USE DEF OpenStore
<1>1. PortInv'
  BY PortMove DEF Inv, PortInv, PortTypes, asked, Alive, Boot, Leave
<1>2. pc \in [Procs -> Stages] /\ pc' = [pc EXCEPT ![p] = "jobs"] /\ pc[p] = "open"
  BY DEF Inv, PortInv, PortTypes, GoTo
<1>3. dbPath[p] = Default
  BY <1>2 DEF Inv, StoreInv, Phase, Unopened
<1>4. OpenHandle(p, Configured, unclosed[p] \ {db[p]})
  BY <1>3, StorageAssumption DEF Open
<1>5. /\ StoreTypes /\ Kept(p) /\ Configured \in Paths
      /\ \A q \in Procs : Kept(q) /\ Phase(q)
      /\ \A o \in Ops : Called(o)
  BY DEF Inv, StoreInv, Paths
<1>6. /\ db' \in [Procs -> Nat] /\ dbPath' \in [Procs -> Paths] /\ opens' \in [Procs -> Nat]
      /\ file' \in [Procs -> [Handles -> Paths]] /\ unclosed' \in [Procs -> SUBSET Handles]
      /\ Kept(p)' /\ db'[p] # Closed /\ db'[p] \in unclosed'[p] /\ dbPath'[p] = Configured
      /\ \A q \in Procs \ {p} : /\ db'[q] = db[q] /\ dbPath'[q] = dbPath[q]
                                /\ opens'[q] = opens[q] /\ file'[q] = file[q]
                                /\ unclosed'[q] = unclosed[q]
  <2>1. unclosed[p] \ {db[p]} = {}
    BY <1>5 DEF Kept
  <2> QED BY <1>4, <1>5, <2>1, OpenHandleStep
<1>7. StoreTypes' /\ \A o \in Ops : Called(o)'
  BY <1>5, <1>6 DEF StoreTypes, Called, Open, calls
<1>8. ASSUME NEW q \in Procs PROVE Kept(q)' /\ Phase(q)'
  <2>1. CASE q = p
    BY <1>2, <1>6, <2>1 DEF Phase, Opened, Unopened
  <2>2. CASE q # p
    BY <1>2, <1>5, <1>6, <2>2 DEF Kept, Phase, Opened, Unopened
  <2> QED BY <2>1, <2>2
<1> QED BY <1>1, <1>7, <1>8 DEF Inv, StoreInv

LEMMA OpenStoreFailsStep ==
    ASSUME Inv, NEW p \in Procs, OpenStoreFails(p)
    PROVE  Inv'
<1> USE DEF OpenStoreFails, OpenFails, calls
<1>1. PortInv'
  BY PortMove DEF Inv, PortInv, PortTypes, asked, Alive, Boot, Leave
<1>2. StoreTypes'
  BY DEF Inv, StoreInv, StoreTypes, Paths, Closed
<1>3. \A o \in Ops : Called(o)'
  BY DEF Inv, StoreInv, Called
<1>4. ASSUME NEW q \in Procs PROVE Kept(q)' /\ Phase(q)'
  <2>1. pc \in [Procs -> Stages] /\ pc' = [pc EXCEPT ![p] = "exit"]
    BY DEF Inv, PortInv, PortTypes, GoTo
  <2>2. Kept(q) /\ Phase(q) /\ StoreTypes
    BY DEF Inv, StoreInv
  <2>3. CASE q = p
    <3>1. /\ unclosed'[p] = {} /\ opens'[p] = opens[p] /\ opens[p] \in Nat /\ file' = file
          /\ db'[p] = Closed \/ (db'[p] = db[p] /\ dbPath'[p] = dbPath[p])
      BY <2>2, <2>3 DEF StoreTypes, Kept
    <3>2. Kept(p)'
      BY <2>2, <2>3, <3>1 DEF Kept, Closed
    <3>3. pc'[p] = "exit"
      BY <2>1
    <3>4. Phase(p)'
      BY <3>3 DEF Phase, Opened, Unopened, Boot, Leave
    <3> QED BY <2>3, <3>2, <3>4
  <2>4. CASE q # p
    BY <2>1, <2>2, <2>4 DEF StoreTypes, Kept, Phase, Opened, Unopened
  <2> QED BY <2>3, <2>4
<1> QED BY <1>1, <1>2, <1>3, <1>4 DEF Inv, StoreInv

LEMMA CloseStoreStep ==
    ASSUME Inv, NEW p \in Procs, CloseStore(p)
    PROVE  Inv'
<1> USE DEF CloseStore, Close, calls
<1>1. PortInv'
  BY PortMove DEF Inv, PortInv, PortTypes, asked, Alive, Boot, Leave
<1>2. StoreTypes'
  BY DEF Inv, StoreInv, StoreTypes, Paths, Closed
<1>3. \A o \in Ops : Called(o)'
  BY DEF Inv, StoreInv, Called
<1>4. ASSUME NEW q \in Procs PROVE Kept(q)' /\ Phase(q)'
  <2>1. pc \in [Procs -> Stages] /\ pc' = [pc EXCEPT ![p] = "spawn"] /\ pc[p] = "close"
    BY DEF Inv, PortInv, PortTypes, GoTo
  <2>2. Kept(q) /\ Phase(q) /\ StoreTypes
    BY DEF Inv, StoreInv
  <2>3. CASE q = p
    <3>1. db[p] # Closed
      BY <2>1, <2>2, <2>3 DEF Phase, Opened, Leave
    <3>2. db'[p] = Closed /\ unclosed'[p] = {} /\ opens'[p] = opens[p] /\ opens[p] \in Nat
          /\ dbPath'[p] = Default
      BY <2>2, <2>3, <3>1 DEF StoreTypes, Kept
    <3>3. Kept(p)'
      BY <2>2, <2>3, <3>2 DEF Kept, Closed
    <3>4. pc'[p] = "spawn"
      BY <2>1
    <3>5. Phase(p)'
      BY <3>2, <3>4 DEF Phase, Opened, Unopened, Boot, Leave
    <3> QED BY <2>3, <3>3, <3>5
  <2>4. CASE q # p
    BY <2>1, <2>2, <2>4 DEF StoreTypes, Kept, Phase, Opened, Unopened
  <2> QED BY <2>3, <2>4
<1> QED BY <1>1, <1>2, <1>3, <1>4 DEF Inv, StoreInv

\* A process starts, or has its successor started.
LEMMA LaunchStep ==
    ASSUME Inv, NEW p \in Procs, Launch(p)
    PROVE  Inv'
<1> USE DEF Launch
<1>1. PortInv'
  BY PortMove DEF Inv, PortInv, PortTypes, asked, Alive, Boot, Leave
<1>2. StoreInv'
  BY StoreMove DEF Inv, PortInv, Before, Alive, Boot
<1> QED BY <1>1, <1>2 DEF Inv

LEMMA SpawnStep ==
    ASSUME Inv, NEW p \in Procs, Spawn(p)
    PROVE  Inv'
<1> USE DEF Spawn
<1>1. CASE GoTo(p, "exit")
  <2>1. PortInv'
    BY <1>1, PortMove DEF Inv, PortInv, PortTypes, asked, Alive, Boot, Leave
  <2>2. StoreInv'
    BY <1>1, StoreMove DEF Inv, PortInv, Alive, Leave
  <2> QED BY <2>1, <2>2 DEF Inv
<1>2. ASSUME NEW q \in Procs, pc[q] = "absent", pc' = [pc EXCEPT ![p] = "exit", ![q] = "init"]
      PROVE  Inv'
  <2> USE <1>2 DEF asked, web, storage, store, calls
  <2>1. pc \in [Procs -> Stages] /\ pc[p] = "spawn" /\ p # q
    BY DEF Inv, PortInv, PortTypes
  <2>2. pc'[p] = "exit" /\ pc'[q] = "init" /\ \A r \in Procs \ {p, q} : pc'[r] = pc[r]
    BY <2>1
  <2>3. PortTypes'
    BY DEF Inv, PortInv, PortTypes, Stages, Alive, Boot, Leave
  <2>4. ASSUME NEW r \in Procs PROVE Holds(r)' /\ Failed(r)' /\ Early(r)'
    BY <2>2 DEF Inv, PortInv, Holds, Failed, Early, Boot, Leave
  <2>5. ASSUME NEW r \in Procs PROVE Phase(r)'
    BY <2>1, <2>2 DEF Inv, StoreInv, Phase, Opened, Unopened, Boot, Leave
  <2>6. StoreTypes' /\ (\A r \in Procs : Kept(r)') /\ \A o \in Ops : Called(o)'
    BY DEF Inv, StoreInv, StoreTypes, Kept, Called
  <2> QED BY <2>3, <2>4, <2>5, <2>6 DEF Inv, PortInv, StoreInv
<1> QED BY <1>1, <1>2

LEMMA DieStep ==
    ASSUME Inv, NEW p \in Procs, Die(p)
    PROVE  Inv'
<1> USE DEF Die, GoTo
<1>1. PortTypes'
  BY StorageAssumption DEF Inv, PortInv, PortTypes, Stages
<1>2. ASSUME NEW q \in Procs PROVE Holds(q)' /\ Failed(q)' /\ Early(q)'
  BY <1>2, StorageAssumption DEF Inv, PortInv, PortTypes, Holds, Failed, Early, Boot
<1> USE DEF Abandon
<1>3. StoreTypes'
  BY DEF Inv, StoreInv, StoreTypes, Paths, Closed
<1>4. ASSUME NEW o \in Ops PROVE Called(o)'
  BY <1>4, StorageAssumption DEF Inv, StoreInv, StoreTypes, Called
<1>5. ASSUME NEW q \in Procs PROVE Kept(q)' /\ Phase(q)'
  <2>1. pc \in [Procs -> Stages] /\ StoreTypes /\ Kept(q) /\ Phase(q)
    BY DEF Inv, PortInv, PortTypes, StoreInv
  <2>2. CASE q = p
    <3>1. db'[p] = Closed /\ unclosed'[p] = {} /\ opens'[p] = 0 /\ pc'[p] = "dead"
      BY <2>1 DEF StoreTypes
    <3>2. Kept(p)'
      BY <3>1, StorageAssumption DEF Kept, Closed
    <3>3. Phase(p)'
      BY <3>1 DEF Phase, Opened, Unopened, Boot, Leave
    <3> QED BY <2>2, <3>2, <3>3
  <2>3. CASE q # p
    BY <2>1, <2>3 DEF StoreTypes, Kept, Phase, Opened, Unopened
  <2> QED BY <2>2, <2>3
<1> QED BY <1>1, <1>2, <1>3, <1>4, <1>5 DEF Inv, PortInv, StoreInv

\* ensureDB under the lock: the handle of another call, or one of its own.
LEMMA EnsureStep ==
    ASSUME StoreInv, NEW o \in Ops, NEW p \in Procs, by[o] = p, Ensure(o), UNCHANGED pc
    PROVE  StoreInv'
<1>1. StoreTypes /\ Kept(p) /\ \A q \in Procs : Kept(q) /\ Phase(q)
  BY DEF StoreInv
<1>2. /\ handle' = [handle EXCEPT ![o] = db'[p]]
      /\ op' = [op EXCEPT ![o] = "fetched"]
      /\ by' = by
  BY DEF Ensure
<1>3. \A u \in Ops : Called(u)'
  BY <1>2 DEF StoreInv, StoreTypes, Called
<1>4. CASE db[p] # Closed
  <2>1. UNCHANGED store
    BY <1>4 DEF Ensure
  <2>2. StoreTypes'
    BY <1>1, <1>2, <2>1 DEF StoreTypes, store
  <2>3. \A q \in Procs : Kept(q)' /\ Phase(q)'
    BY <1>1, <2>1 DEF store, Kept, Phase, Opened, Unopened
  <2> QED BY <1>3, <2>2, <2>3 DEF StoreInv
<1>5. CASE db[p] = Closed
  <2>1. unclosed[p] = {} /\ dbPath[p] \in Paths
    BY <1>1, <1>5 DEF Kept, StoreTypes
  <2>2. OpenHandle(p, dbPath[p], unclosed[p])
    BY <1>5 DEF Ensure
  <2>3. /\ db' \in [Procs -> Nat] /\ dbPath' \in [Procs -> Paths] /\ opens' \in [Procs -> Nat]
        /\ file' \in [Procs -> [Handles -> Paths]] /\ unclosed' \in [Procs -> SUBSET Handles]
        /\ Kept(p)' /\ db'[p] # Closed /\ db'[p] \in unclosed'[p] /\ dbPath'[p] = dbPath[p]
        /\ \A q \in Procs \ {p} : /\ db'[q] = db[q] /\ dbPath'[q] = dbPath[q]
                                  /\ opens'[q] = opens[q] /\ file'[q] = file[q]
                                  /\ unclosed'[q] = unclosed[q]
    BY <1>1, <2>1, <2>2, OpenHandleStep
  <2>4. StoreTypes'
    BY <1>1, <1>2, <2>3 DEF StoreTypes
  <2>5. ASSUME NEW q \in Procs PROVE Kept(q)' /\ Phase(q)'
    <3>1. CASE q = p
      BY <1>1, <2>3, <3>1 DEF Phase, Opened, Unopened
    <3>2. CASE q # p
      BY <1>1, <2>3, <3>2 DEF Kept, Phase, Opened, Unopened
    <3> QED BY <3>1, <3>2
  <2> QED BY <1>3, <2>4, <2>5 DEF StoreInv
<1> QED BY <1>4, <1>5

\* The call returns.
LEMMA ReturnStep ==
    ASSUME StoreInv, NEW o \in Ops, Return(o), UNCHANGED store, UNCHANGED pc
    PROVE  StoreInv'
<1>1. StoreTypes'
  BY DEF Return, store, StoreInv, StoreTypes, Closed
<1>2. \A u \in Ops : Called(u)'
  BY DEF Return, StoreInv, StoreTypes, Called
<1>3. \A q \in Procs : Kept(q)' /\ Phase(q)'
  BY DEF store, StoreInv, Kept, Phase, Opened, Unopened
<1> QED BY <1>1, <1>2, <1>3 DEF StoreInv

\* An operation of a goroutine.
LEMMA UseStep ==
    ASSUME Inv, NEW o \in Ops, Use(o)
    PROVE  Inv'
<1>0. UNCHANGED pc /\ UNCHANGED <<asked, web>>
  BY DEF Use
<1>1. PortInv'
  BY <1>0 DEF asked, web, Inv, PortInv, PortTypes, Holds, Failed, Early, Boot
<1>2. ASSUME NEW p \in Procs, Look(o, p) PROVE StoreInv'
  <2> USE <1>0, <1>2 DEF Look, store
  <2>1. StoreTypes'
    BY DEF Inv, StoreInv, StoreTypes
  <2>2. (\A q \in Procs : Kept(q)' /\ Phase(q)') /\ \A u \in Ops : Called(u)'
    BY DEF Inv, StoreInv, StoreTypes, Kept, Phase, Opened, Unopened, Called
  <2> QED BY <2>1, <2>2 DEF StoreInv
<1>3. CASE Ensure(o)
  <2>1. by[o] \in Procs
    BY <1>3 DEF Ensure, Inv, StoreInv, Called
  <2> QED BY <1>1, <1>0, <1>3, <2>1, EnsureStep DEF Inv
<1>4. CASE EnsureFails(o) \/ Execute(o) \/ ExecuteFails(o)
  <2>1. Return(o) /\ UNCHANGED store
    BY <1>4 DEF EnsureFails, Execute, ExecuteFails
  <2> QED BY <1>1, <1>0, <2>1, ReturnStep DEF Inv
<1> QED BY <1>1, <1>2, <1>3, <1>4 DEF Use, OpStep, Inv

-----------------------------------------------------------------------------
\* The server and who is asked to leave.
LEMMA ListenStep ==
    ASSUME Inv, NEW p \in Procs, Listen(p)
    PROVE  Inv'
<1> USE DEF Listen, Queue
<1>1. StoreInv'
  BY StoreStays DEF Inv
<1>2. PortTypes'
  BY DEF Inv, PortInv, PortTypes
<1>3. ASSUME NEW q \in Procs PROVE Holds(q)' /\ Failed(q)' /\ Early(q)'
  BY <1>3, StorageAssumption DEF Inv, PortInv, PortTypes, Holds, Failed, Early, Boot
<1> QED BY <1>1, <1>2, <1>3 DEF Inv, PortInv

LEMMA AskStep ==
    ASSUME Inv, NEW p \in Procs, NEW what \in {"stop", "restart"},
           Control(p, what) \/ Terminate(p) \/ GatewayEnds(p) \/ MissedEnds(p)
    PROVE  Inv'
<1> USE DEF Control, Terminate, GatewayEnds, MissedEnds, Queue, web, asked
<1>1. StoreInv'
  BY StoreStays DEF Inv
<1>2. PortTypes'
  BY DEF Inv, PortInv, PortTypes
<1>3. ASSUME NEW q \in Procs PROVE Holds(q)' /\ Failed(q)' /\ Early(q)'
  BY <1>3 DEF Inv, PortInv, PortTypes, Holds, Failed, Early, Boot
<1> QED BY <1>1, <1>2, <1>3 DEF Inv, PortInv

LEMMA ServerStep ==
    ASSUME Inv, NEW p \in Procs, Serve(p) \/ Select(p) \/ CloseListener(p)
    PROVE  Inv'
<1> USE DEF Serve, Select, CloseListener
<1>1. StoreInv'
  <2>1. CASE Serve(p)
    BY <2>1, StoreMove DEF Inv, PortInv, During, Alive, Boot
  <2>2. CASE Select(p) \/ CloseListener(p)
    BY <2>2, StoreMove DEF Inv, PortInv, During, Alive, Leave
  <2> QED BY <2>1, <2>2
<1>2. PortTypes'
  <2> USE DEF Inv, PortInv, PortTypes, GoTo, asked, web, Stages, Alive, Boot, Leave
  <2>1. CASE Serve(p)
    BY <2>1
  <2>2. CASE Select(p)
    BY <2>2
  <2>3. CASE CloseListener(p)
    BY <2>3
  <2> QED BY <2>1, <2>2, <2>3
<1>3. ASSUME NEW q \in Procs PROVE Holds(q)' /\ Failed(q)' /\ Early(q)'
  <2> USE DEF GoTo, asked
  <2>0. PortTypes /\ Holds(q) /\ Failed(q) /\ Early(q) /\ Holds(p) /\ Early(p)
    BY DEF Inv, PortInv
  <2>1. CASE Serve(p)
    BY <2>0, <2>1 DEF PortTypes, Holds, Failed, Early, Boot, Leave, Inv, PortInv
  <2>2. CASE Select(p)
    BY <2>0, <2>2 DEF PortTypes, Holds, Failed, Early, Boot, Leave, web
  <2>3. CASE CloseListener(p)
    BY <2>0, <2>3, StorageAssumption DEF PortTypes, Holds, Failed, Early, Boot, Leave
  <2> QED BY <2>1, <2>2, <2>3
<1> QED BY <1>1, <1>2, <1>3 DEF Inv, PortInv

\* The remaining steps of main.
LEMMA QuietStep ==
    ASSUME Inv, NEW p \in Procs,
           \/ ReadConfig(p) \/ CheckInstance(p) \/ InstanceGone(p) \/ KillInstance(p)
           \/ StartJobs(p) \/ StartGateway(p) \/ BootFails(p) \/ Notify(p)
           \/ StopGateway(p) \/ GatewayStopped(p) \/ StopJobs(p)
    PROVE  Inv'
<1> USE DEF asked, Alive, Boot, Leave
<1>0. PortInv /\ StoreInv /\ PortTypes
  BY DEF Inv, PortInv
<1>1. CASE ReadConfig(p)
  BY <1>0, <1>1, PortMove, StoreMove DEF ReadConfig, Inv, PortTypes, Before
<1>2. CASE CheckInstance(p)
  <2>1. signal' \in [Procs -> {"none", "term", "kill"}]
    BY <1>0, <1>2 DEF CheckInstance, PortTypes
  <2>2. \E stage \in {"open", "await"} : GoTo(p, stage)
    BY <1>2 DEF CheckInstance
  <2> QED BY <1>0, <1>2, <2>1, <2>2, PortMove, StoreMove DEF CheckInstance, Inv, Before
<1>3. CASE InstanceGone(p)
  BY <1>0, <1>3, PortMove, StoreMove DEF InstanceGone, Inv, PortTypes, Before
<1>4. CASE KillInstance(p)
  <2>1. signal' \in [Procs -> {"none", "term", "kill"}]
    BY <1>0, <1>4 DEF KillInstance, PortTypes
  <2> QED BY <1>0, <1>4, <2>1, PortMove, StoreMove DEF KillInstance, Inv, Before
<1>5. CASE StartJobs(p) \/ StartGateway(p) \/ Notify(p)
  BY <1>0, <1>5, PortMove, StoreMove DEF StartJobs, StartGateway, Notify, Inv, PortTypes, During
<1>6. CASE BootFails(p)
  BY <1>0, <1>6, PortMove, StoreMove DEF BootFails, Inv, PortTypes
<1>7. CASE StopGateway(p) \/ GatewayStopped(p) \/ StopJobs(p)
  BY <1>0, <1>7, PortMove, StoreMove DEF StopGateway, GatewayStopped, StopJobs, Inv, PortTypes, During
<1> QED BY <1>1, <1>2, <1>3, <1>4, <1>5, <1>6, <1>7

LEMMA InvStep == Inv /\ [Next]_vars => Inv'
<1> SUFFICES ASSUME Inv, [Next]_vars PROVE Inv'
  OBVIOUS
<1>1. CASE UNCHANGED vars
  <2>1. StoreInv'
    BY <1>1, StoreStays DEF vars, storage, Inv
  <2> QED BY <1>1, <2>1 DEF vars, Inv, PortInv, PortTypes, Holds, Failed, Early, Boot
<1>2. ASSUME NEW p \in Procs, MainStep(p) PROVE Inv'
  BY <1>2, QuietStep, OpenStoreStep, OpenStoreFailsStep, CloseStoreStep, SpawnStep, ServerStep,
     DieStep DEF MainStep, Exit
<1>3. ASSUME NEW p \in Procs, Launch(p) \/ Listen(p) PROVE Inv'
  BY <1>3, LaunchStep, ListenStep
<1>4. ASSUME NEW p \in Procs, Killed(p) \/ Crash(p) PROVE Inv'
  BY <1>4, DieStep DEF Killed, Crash
<1>5. ASSUME NEW p \in Procs, \/ Control(p, "stop") \/ Control(p, "restart") \/ Terminate(p)
                              \/ GatewayEnds(p) \/ MissedEnds(p)
      PROVE  Inv'
  BY <1>5, AskStep
<1>6. ASSUME NEW o \in Ops, Use(o) PROVE Inv'
  BY <1>6, UseStep
<1> QED BY <1>1, <1>2, <1>3, <1>4, <1>5, <1>6 DEF Next

-----------------------------------------------------------------------------
\* Two processes work together only while one is coming or going; main.go:250.
THEOREM TogetherCorrect == Spec => []TogetherOnlyBriefly
<1>1. ASSUME Inv PROVE TogetherOnlyBriefly
  <2> SUFFICES ASSUME NEW p \in Procs, NEW q \in Procs, p # q
               PROVE  \E r \in {p, q} : Leaving(r) \/ srv[r] \in {"none", "starting"}
    BY DEF TogetherOnlyBriefly
  <2> QED BY <1>1, StorageAssumption DEF Inv, PortInv, PortTypes, Holds, Failed, Early, Boot, Leaving
<1> QED BY <1>1, InvInit, InvStep, PTL DEF Spec

\* No handle leaks; storage.go:45-69, 284-302.
THEOREM OneHandleCorrect == Spec => []OneHandle
<1>1. Inv => OneHandle
  BY DEF Inv, StoreInv, Kept, OneHandle
<1> QED BY <1>1, InvInit, InvStep, PTL DEF Spec

\* Between Open and Close an operation works on the configured file, before and
\* after on the default one; storage.go:58-69.
THEOREM FileCorrect == Spec => FileFollowsMain
<1> DEFINE Placed == \A o \in Ops : Execute(o) =>
               /\ Opened(by[o]) => file[by[o]][handle[o]] = Configured
               /\ Unopened(by[o]) => file[by[o]][handle[o]] = Default
<1>1. ASSUME Inv PROVE Placed
  <2> SUFFICES ASSUME NEW o \in Ops, Execute(o)
               PROVE  /\ Opened(by[o]) => file[by[o]][handle[o]] = Configured
                      /\ Unopened(by[o]) => file[by[o]][handle[o]] = Default
    OBVIOUS
  <2>1. by[o] \in Procs /\ handle[o] \in unclosed[by[o]]
    BY <1>1 DEF Execute, Inv, StoreInv, Called
  <2>2. handle[o] = db[by[o]] /\ db[by[o]] # Closed
    BY <1>1, <2>1 DEF Inv, StoreInv, Kept
  <2> QED BY <1>1, <2>1, <2>2 DEF Inv, StoreInv, Kept, Phase
<1>2. Inv /\ [Next]_vars => [Placed]_vars
  BY <1>1
<1>3. Spec => [][Placed]_vars
  BY <1>2, InvInit, InvStep, PTL DEF Spec
<1> QED BY <1>3 DEF FileFollowsMain

-----------------------------------------------------------------------------
(* What is left of the types. *)

Rest ==
    /\ victim \in [Procs -> Procs \cup {NoProc}]
    /\ restart \in [Procs -> BOOLEAN]
    /\ jobs \in [Procs -> BOOLEAN]
    /\ gw \in [Procs -> {"none", "up", "missed", "down"}]

\* A process is killed, or dies.
LEMMA RestDie == ASSUME Rest, NEW p \in Procs, Die(p)  PROVE Rest'
  BY DEF Rest, Die

LEMMA RestStep == Inv /\ Rest /\ [Next]_vars => Rest'
<1> SUFFICES ASSUME Inv, Rest, [Next]_vars  PROVE Rest'
  OBVIOUS
<1>1. CASE UNCHANGED vars
  BY <1>1 DEF vars, Rest
<1>2. ASSUME NEW p \in Procs, MainStep(p)  PROVE Rest'
  <2>1. CASE \/ ReadConfig(p) \/ OpenStore(p) \/ OpenStoreFails(p) \/ BootFails(p)
             \/ Serve(p) \/ Notify(p) \/ CloseListener(p) \/ GatewayStopped(p)
             \/ CloseStore(p) \/ Spawn(p)
    BY <2>1 DEF ReadConfig, OpenStore, OpenStoreFails, BootFails, Serve, Notify, CloseListener,
                GatewayStopped, CloseStore, Spawn, asked, work, Rest
  <2>2. CASE CheckInstance(p) \/ InstanceGone(p) \/ KillInstance(p)
    BY <2>2 DEF CheckInstance, InstanceGone, KillInstance, asked, work, Rest,
                Inv, PortInv, PortTypes
  <2>3. CASE StartJobs(p) \/ StartGateway(p) \/ StopJobs(p)
    BY <2>3 DEF StartJobs, StartGateway, StopJobs, asked, Rest
  <2>4. CASE StopGateway(p)
    <3>1. \E s \in {"none", "up", "missed", "down"} : gw' = [gw EXCEPT ![p] = s]
      BY <2>4 DEF StopGateway, Rest
    <3> QED BY <2>4, <3>1 DEF StopGateway, asked, Rest
  <2>5. CASE Select(p)
    BY <2>5 DEF Select, work, Rest
  <2>6. CASE Exit(p)
    BY <2>6, RestDie DEF Exit
  <2> QED BY <1>2, <2>1, <2>2, <2>3, <2>4, <2>5, <2>6 DEF MainStep
<1>3. ASSUME NEW p \in Procs, \/ Launch(p) \/ Listen(p) \/ Control(p, "stop")
                              \/ Control(p, "restart") \/ Terminate(p)
                              \/ GatewayEnds(p) \/ MissedEnds(p)
      PROVE  Rest'
  BY <1>3 DEF Launch, Listen, Control, Terminate, GatewayEnds, MissedEnds, asked, work, Rest
<1>4. ASSUME NEW p \in Procs, Killed(p) \/ Crash(p)  PROVE Rest'
  BY <1>4, RestDie DEF Killed, Crash
<1>5. ASSUME NEW o \in Ops, Use(o)  PROVE Rest'
  BY <1>5 DEF Use, asked, work, Rest
<1> QED BY <1>1, <1>2, <1>3, <1>4, <1>5 DEF Next

\* An operation has fetched a handle that exists.
Fetched == handle \in [Ops -> 0..MaxOpens]

LEMMA FetchedStep == Inv /\ Inv' /\ Fetched /\ [Next]_vars => Fetched'
<1> SUFFICES ASSUME Inv, Inv', Fetched, [Next]_vars  PROVE Fetched'
  OBVIOUS
<1> USE StorageAssumption
<1>1. \A p \in Procs : db[p] \in 0..MaxOpens /\ db'[p] \in 0..MaxOpens
  BY DEF Inv, StoreInv, StoreTypes, Kept
<1>2. CASE UNCHANGED calls
  BY <1>2 DEF calls, Fetched
<1>3. ASSUME NEW p \in Procs, Die(p)  PROVE Fetched'
  BY <1>3 DEF Die, Abandon, Closed, Fetched
<1>4. ASSUME NEW o \in Ops, Use(o)  PROVE Fetched'
  <2>1. ASSUME NEW p \in Procs, Look(o, p)  PROVE Fetched'
    BY <1>1, <2>1 DEF Look, Fetched
  <2>2. CASE Ensure(o)
    <3>1. by[o] \in Procs
      BY <2>2 DEF Ensure, Inv, StoreInv, Called
    <3> QED BY <1>1, <2>2, <3>1 DEF Ensure, Fetched
  <2>3. CASE EnsureFails(o) \/ Execute(o) \/ ExecuteFails(o)
    BY <2>3 DEF EnsureFails, Execute, ExecuteFails, Return, Closed, Fetched
  <2> QED BY <1>4, <2>1, <2>2, <2>3 DEF Use, OpStep
<1>5. CASE \E p \in Procs : Exit(p) \/ Killed(p) \/ Crash(p)
  BY <1>3, <1>5 DEF Exit, Killed, Crash
<1>6. ASSUME NEW p \in Procs, \/ ReadConfig(p) \/ CheckInstance(p) \/ InstanceGone(p)
                              \/ KillInstance(p) \/ OpenStore(p) \/ OpenStoreFails(p)
                              \/ StartJobs(p) \/ StartGateway(p) \/ BootFails(p) \/ Serve(p)
                              \/ Notify(p) \/ Select(p) \/ CloseListener(p) \/ StopGateway(p)
                              \/ GatewayStopped(p) \/ StopJobs(p) \/ CloseStore(p) \/ Spawn(p)
                              \/ Launch(p) \/ Listen(p)
                              \/ Control(p, "stop") \/ Control(p, "restart") \/ Terminate(p)
                              \/ GatewayEnds(p) \/ MissedEnds(p)
      PROVE  UNCHANGED calls
  BY <1>6 DEF ReadConfig, CheckInstance, InstanceGone, KillInstance, OpenStore, OpenStoreFails,
     StartJobs, StartGateway, BootFails, Serve, Notify, Select, CloseListener, StopGateway,
     GatewayStopped, StopJobs, CloseStore, Spawn, Launch, Listen, Control, Terminate,
     GatewayEnds, MissedEnds, Open, OpenFails, Close, storage
<1>7. UNCHANGED vars => UNCHANGED calls
  BY DEF vars, calls
<1> QED BY <1>2, <1>4, <1>5, <1>6, <1>7 DEF Next, MainStep

\* The types; the port is held by the process whose server is bound, and no
\* handle leaks; main.go:54-260, storage.go:45-69.
THEOREM TypeCorrect == Spec => []TypeOK
<1>1. Init => Rest /\ Fetched
  BY StorageAssumption DEF Init, StoreInit, Rest, Fetched, Closed
<1>2. Inv /\ Rest /\ Fetched => TypeOK
  <2> SUFFICES ASSUME Inv, Rest, Fetched  PROVE TypeOK
    OBVIOUS
  <2>1. StoreTypeOK
    BY StorageAssumption DEF Inv, StoreInv, StoreTypes, Kept, Fetched, StoreTypeOK
  <2>2. OneHandle
    BY DEF Inv, StoreInv, Kept, OneHandle
  <2>3. \A p \in Procs : pc[p] # "exit" => db[p] \in unclosed[p] \cup {Closed}
    BY DEF Inv, StoreInv, Phase
  <2> QED BY <2>1, <2>2, <2>3 DEF Inv, PortInv, PortTypes, Stages, Holds, Rest, TypeOK
<1> QED BY <1>1, <1>2, InvInit, InvStep, RestStep, FetchedStep, PTL DEF Spec

-----------------------------------------------------------------------------
(* The way out: what OneRemains asks for, but that steps are taken. *)

\* The stages that main still has before it.
Left == [absent |-> 17, init |-> 16, check |-> 15, await |-> 14, open |-> 13, jobs |-> 12,
         gateway |-> 11, serve |-> 10, notify |-> 9, run |-> 8, http |-> 7, gwStop |-> 6,
         gwWait |-> 5, sched |-> 4, close |-> 3, spawn |-> 2, exit |-> 1, dead |-> 0]

\* A process that is asked to go stays on its way until it is dead, ...
KeepsLeaving(p) == Leaving(p) => Leaving(p)' \/ pc'[p] = "dead"

\* ... main goes through every stage once at most, and no process sends it back.
MovesOn(p) ==
    /\ Left[pc'[p]] <= Left[pc[p]]
    /\ MainStep(p) \/ Killed(p) => Left[pc'[p]] < Left[pc[p]]

WayOut == [][\A p \in Procs : KeepsLeaving(p) /\ MovesOn(p)]_vars

\* A process that dies.
LEMMA DieLeaves ==
    ASSUME PortTypes, NEW p \in Procs, pc[p] \in Alive, Die(p), NEW q \in Procs
    PROVE  KeepsLeaving(q) /\ Left[pc'[q]] <= Left[pc[q]] /\ Left[pc'[p]] < Left[pc[p]]
  BY DEF Die, GoTo, KeepsLeaving, Leaving, PortTypes, Stages, Alive, Boot, Leave, Left

\* A step of main to a later stage.
LEMMA MainLeaves ==
    ASSUME PortTypes, NEW p \in Procs, MainStep(p), NEW q \in Procs
    PROVE  KeepsLeaving(q) /\ Left[pc'[q]] <= Left[pc[q]] /\ Left[pc'[p]] < Left[pc[p]]
<1> USE DEF GoTo, asked, KeepsLeaving, Leaving, PortTypes, Stages, Alive, Boot, Leave, Left
<1>1. CASE ReadConfig(p) \/ InstanceGone(p) \/ OpenStore(p) \/ OpenStoreFails(p)
  BY <1>1 DEF ReadConfig, InstanceGone, OpenStore, OpenStoreFails
<1>2. CASE CheckInstance(p)
  BY <1>2 DEF CheckInstance
<1>3. CASE KillInstance(p)
  BY <1>3 DEF KillInstance
<1>4. CASE StartJobs(p) \/ StartGateway(p) \/ BootFails(p) \/ Serve(p) \/ Notify(p)
  BY <1>4 DEF StartJobs, StartGateway, BootFails, Serve, Notify
<1>5. CASE Select(p)
  BY <1>5 DEF Select
<1>6. CASE CloseListener(p) \/ StopGateway(p) \/ GatewayStopped(p) \/ StopJobs(p) \/ CloseStore(p)
  BY <1>6 DEF CloseListener, StopGateway, GatewayStopped, StopJobs, CloseStore
<1>7. CASE Spawn(p)
  BY <1>7 DEF Spawn
<1>8. CASE Exit(p)
  BY <1>8, DieLeaves DEF Exit
<1> QED BY <1>1, <1>2, <1>3, <1>4, <1>5, <1>6, <1>7, <1>8 DEF MainStep

\* Every other step.
LEMMA OthersLeave ==
    ASSUME Inv, [Next]_vars, NEW q \in Procs, \A p \in Procs : ~MainStep(p)
    PROVE  KeepsLeaving(q) /\ Left[pc'[q]] <= Left[pc[q]]
<1> USE DEF Inv, PortInv
<1>1. ASSUME NEW p \in Procs, Launch(p)  PROVE KeepsLeaving(q) /\ Left[pc'[q]] <= Left[pc[q]]
  BY <1>1 DEF Launch, GoTo, asked, KeepsLeaving, Leaving, PortTypes, Stages, Alive, Boot, Leave, Left
<1>2. ASSUME NEW p \in Procs, \/ Listen(p) \/ Control(p, "stop") \/ Control(p, "restart")
                              \/ Terminate(p) \/ GatewayEnds(p) \/ MissedEnds(p)
      PROVE  KeepsLeaving(q) /\ pc' = pc
  BY <1>2 DEF Listen, Control, Queue, Terminate, GatewayEnds, MissedEnds, asked,
              KeepsLeaving, Leaving, PortTypes
<1>3. ASSUME NEW p \in Procs, Killed(p) \/ Crash(p)
      PROVE  KeepsLeaving(q) /\ Left[pc'[q]] <= Left[pc[q]]
  BY <1>3, DieLeaves DEF Killed, Crash
<1>4. UNCHANGED <<pc, signal, control>> => KeepsLeaving(q)
  BY DEF KeepsLeaving, Leaving
<1>5. pc' = pc => Left[pc'[q]] <= Left[pc[q]]
  BY DEF PortTypes, Stages, Alive, Boot, Leave, Left
<1>6. UNCHANGED vars \/ (\E o \in Ops : Use(o)) => UNCHANGED <<pc, signal, control>>
  BY DEF vars, Use, asked
<1> QED BY <1>1, <1>2, <1>3, <1>4, <1>5, <1>6 DEF Next

\* What a process is asked once is never forgotten, whatever the select of main
\* leaves aside and however signals and instructions cross: it stays on its way
\* out, which has as many steps as there are stages; main.go:172-231.
THEOREM WayOutCorrect == Spec => WayOut
<1> DEFINE Step == \A p \in Procs : KeepsLeaving(p) /\ MovesOn(p)
<1>1. ASSUME Inv, [Next]_vars  PROVE Step
  <2> SUFFICES ASSUME NEW q \in Procs  PROVE KeepsLeaving(q) /\ MovesOn(q)
    OBVIOUS
  <2>1. PortTypes
    BY <1>1 DEF Inv, PortInv
  <2>2. KeepsLeaving(q) /\ Left[pc'[q]] <= Left[pc[q]]
    BY <1>1, <2>1, MainLeaves, OthersLeave
  <2>3. MainStep(q) \/ Killed(q) => Left[pc'[q]] < Left[pc[q]]
    BY <2>1, MainLeaves, DieLeaves DEF Killed
  <2> QED BY <2>2, <2>3 DEF MovesOn
<1> HIDE DEF Step
<1>2. Inv /\ [Next]_vars => Step
  BY <1>1
<1>3. [][Step]_vars => WayOut
  BY PTL DEF WayOut, Step
<1> QED BY <1>2, <1>3, InvInit, InvStep, PTL DEF Spec

\* Main waits for the gateway only while it ends, or in the case that OneRemains
\* excepts; main.go:216-224.
Connected(p) ==
    /\ pc[p] \in {"serve", "notify", "run", "http", "gwStop"} => gw[p] \in {"up", "down"}
    /\ pc[p] = "gwWait" => gw[p] = "down" \/ Stuck(p)

WaitsForMissed == \A p \in Procs : Connected(p)

LEMMA ConnectedStep == Inv /\ Rest /\ WaitsForMissed /\ [Next]_vars => WaitsForMissed'
<1> SUFFICES ASSUME Inv, Rest, WaitsForMissed, [Next]_vars, NEW q \in Procs  PROVE Connected(q)'
  BY DEF WaitsForMissed
<1> USE DEF WaitsForMissed, Connected, Stuck, GoTo, Rest, Inv, PortInv, PortTypes
<1>1. CASE UNCHANGED <<pc, gw>>
  BY <1>1
<1>2. ASSUME NEW p \in Procs, MainStep(p)  PROVE Connected(q)'
  <2>1. CASE \/ ReadConfig(p) \/ CheckInstance(p) \/ InstanceGone(p) \/ KillInstance(p)
             \/ OpenStore(p) \/ OpenStoreFails(p) \/ StartJobs(p) \/ BootFails(p) \/ Serve(p)
             \/ Notify(p) \/ Select(p) \/ CloseListener(p) \/ StopJobs(p) \/ CloseStore(p)
    BY <2>1 DEF ReadConfig, CheckInstance, InstanceGone, KillInstance, OpenStore, OpenStoreFails,
                StartJobs, BootFails, Serve, Notify, Select, CloseListener, StopJobs, CloseStore, work
  <2>2. CASE StartGateway(p) \/ GatewayStopped(p)
    BY <2>2 DEF StartGateway, GatewayStopped, work
  <2>3. CASE StopGateway(p)
    BY <2>3 DEF StopGateway
  <2>4. CASE Spawn(p)
    BY <2>4 DEF Spawn, work
  <2>5. CASE Exit(p)
    BY <2>5 DEF Exit, Die
  <2> QED BY <1>2, <2>1, <2>2, <2>3, <2>4, <2>5 DEF MainStep
<1>3. ASSUME NEW p \in Procs, Killed(p) \/ Crash(p)  PROVE Connected(q)'
  BY <1>3 DEF Killed, Crash, Die
<1>4. ASSUME NEW p \in Procs, Launch(p) \/ GatewayEnds(p) \/ MissedEnds(p)  PROVE Connected(q)'
  BY <1>4 DEF Launch, GatewayEnds, MissedEnds, work
<1>5. ASSUME NEW p \in Procs, \/ Listen(p) \/ Control(p, "stop") \/ Control(p, "restart")
                              \/ Terminate(p)
      PROVE  UNCHANGED <<pc, gw>>
  BY <1>5 DEF Listen, Control, Terminate, work
<1>6. UNCHANGED vars \/ (\E o \in Ops : Use(o)) => UNCHANGED <<pc, gw>>
  BY DEF vars, Use, work
<1> QED BY <1>1, <1>2, <1>3, <1>4, <1>5, <1>6 DEF Next

\* The wait for the gateway ends with its connection: what main waits for then
\* is gone, or was missed by Stop; main.go:216-224.
THEOREM WaitCorrect == Spec => []WaitsForMissed
<1>1. Init => Rest /\ WaitsForMissed
  BY DEF Init, Rest, WaitsForMissed, Connected
<1> QED BY <1>1, InvInit, InvStep, RestStep, ConnectedStep, PTL DEF Spec
=============================================================================
