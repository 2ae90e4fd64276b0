------------------------------ MODULE Storage ------------------------------
(***************************************************************************)
(* The data store of lib/storage/storage.go, in every process that runs:   *)
(* one handle db behind dbMu, opened on first use and replaced by Open,    *)
(* and the operations of a Store, which fetch the handle (ensureDB) and    *)
(* use it after the lock is released.                                      *)
(*                                                                         *)
(* Set, Get, Has, Delete and Clear differ in their SQL only: an operation  *)
(* is given by the file it worked on.  The keys are left out; the mutex    *)
(* queryMu makes an operation one step.                                    *)
(***************************************************************************)
EXTENDS Naturals, FiniteSets

CONSTANTS
    Procs,       \* processes of the program
    Ops,         \* goroutines that use the store, one operation at a time
    NoProc,      \* a goroutine of no process
    Default,     \* defaultDBPath
    Configured,  \* AppConfig.Database
    MaxOpens     \* bound: handles a process opens

ASSUME StorageAssumption ==
    /\ NoProc \notin Procs
    /\ Default # Configured
    /\ MaxOpens \in Nat

Paths   == {Default, Configured}
Handles == 1..MaxOpens
Closed  == 0    \* db = nil

VARIABLES
    db,       \* the handle in the variable db, or Closed
    dbPath,
    opens,    \* handles opened so far, numbered in that order
    file,     \* the file of a handle
    unclosed, \* handles that are not closed
    op,       \* where the operation of a goroutine stands
    by,       \* the process that called it
    handle    \* the handle it fetched

store == <<db, dbPath, opens, file, unclosed>>
calls == <<op, by, handle>>

StoreInit ==
    /\ db = [p \in Procs |-> Closed]
    /\ dbPath = [p \in Procs |-> Default]
    /\ opens = [p \in Procs |-> 0]
    /\ file = [p \in Procs |-> [h \in Handles |-> Default]]
    /\ unclosed = [p \in Procs |-> {}]
    /\ op = [o \in Ops |-> "idle"]
    /\ by = [o \in Ops |-> NoProc]
    /\ handle = [o \in Ops |-> Closed]

-----------------------------------------------------------------------------
\* openLocked: a new handle on a file, kept is what stays open besides it.
OpenHandle(p, path, kept) ==
    /\ opens[p] < MaxOpens
    /\ opens' = [opens EXCEPT ![p] = @ + 1]
    /\ db' = [db EXCEPT ![p] = opens[p] + 1]
    /\ dbPath' = [dbPath EXCEPT ![p] = path]
    /\ file' = [file EXCEPT ![p][opens[p] + 1] = path]
    /\ unclosed' = [unclosed EXCEPT ![p] = kept \cup {opens[p] + 1}]

\* Open closes a handle on another file before it opens its own.
OpenAnyMutant(p) ==
    /\ IF db[p] # Closed
       THEN UNCHANGED store
       ELSE OpenHandle(p, Configured, unclosed[p] \ {db[p]})
    /\ UNCHANGED calls

Open(p) ==
    /\ IF db[p] # Closed /\ dbPath[p] = Configured
       THEN UNCHANGED store
       ELSE OpenHandle(p, Configured, unclosed[p] \ {db[p]})
    /\ UNCHANGED calls

\* A failed openLocked closes what it opened, and the path stays that of the
\* call; a failed close of the handle on another file leaves that handle in db.
OpenFails(p) ==
    /\ db[p] = Closed \/ dbPath[p] # Configured
    /\ \/ /\ db' = [db EXCEPT ![p] = Closed]
          /\ dbPath' = [dbPath EXCEPT ![p] = Configured]
       \/ db[p] # Closed /\ UNCHANGED <<db, dbPath>>
    /\ unclosed' = [unclosed EXCEPT ![p] = @ \ {db[p]}]
    /\ UNCHANGED <<opens, file, calls>>

Close(p) ==
    /\ db' = [db EXCEPT ![p] = Closed]
    /\ dbPath' = [dbPath EXCEPT ![p] = IF db[p] = Closed THEN @ ELSE Default]
    /\ unclosed' = [unclosed EXCEPT ![p] = @ \ {db[p]}]
    /\ UNCHANGED <<opens, file, calls>>

-----------------------------------------------------------------------------
\* ensureDB, the look under the read lock.
Look(o, p) ==
    /\ op[o] = "idle"
    /\ by' = [by EXCEPT ![o] = p]
    /\ handle' = [handle EXCEPT ![o] = db[p]]
    /\ op' = [op EXCEPT ![o] = IF db[p] = Closed THEN "slow" ELSE "fetched"]
    /\ UNCHANGED store

\* The call returns.
Return(o) ==
    /\ op' = [op EXCEPT ![o] = "idle"]
    /\ by' = [by EXCEPT ![o] = NoProc]
    /\ handle' = [handle EXCEPT ![o] = Closed]

\* ensureDB, under the lock: another call may have opened it meanwhile.
EnsureBlindMutant(o) ==
    LET p == by[o]
    IN  /\ op[o] = "slow"
        /\ OpenHandle(p, dbPath[p], unclosed[p])
        /\ handle' = [handle EXCEPT ![o] = db'[p]]
        /\ op' = [op EXCEPT ![o] = "fetched"]
        /\ UNCHANGED by

Ensure(o) ==
    LET p == by[o]
    IN  /\ op[o] = "slow"
        /\ IF db[p] # Closed THEN UNCHANGED store
                             ELSE OpenHandle(p, dbPath[p], unclosed[p])
        /\ handle' = [handle EXCEPT ![o] = db'[p]]
        /\ op' = [op EXCEPT ![o] = "fetched"]
        /\ UNCHANGED by

EnsureFails(o) ==
    /\ op[o] = "slow"
    /\ db[by[o]] = Closed
    /\ Return(o)
    /\ UNCHANGED store

\* The statement runs if the handle is still open; database/sql refuses it
\* otherwise.
Execute(o) ==
    /\ op[o] = "fetched"
    /\ handle[o] \in unclosed[by[o]]
    /\ Return(o)
    /\ UNCHANGED store

ExecuteFails(o) ==
    /\ op[o] = "fetched"
    /\ Return(o)
    /\ UNCHANGED store

OpStep(o) == Ensure(o) \/ EnsureFails(o) \/ Execute(o) \/ ExecuteFails(o)

\* The process dies: the system closes its files, its calls never return, and
\* nothing of its state is left.
Abandon(p) ==
    /\ db' = [db EXCEPT ![p] = Closed]
    /\ unclosed' = [unclosed EXCEPT ![p] = {}]
    /\ op' = [o \in Ops |-> IF by[o] = p THEN "idle" ELSE op[o]]
    /\ by' = [o \in Ops |-> IF by[o] = p THEN NoProc ELSE by[o]]
    /\ handle' = [o \in Ops |-> IF by[o] = p THEN Closed ELSE handle[o]]
    /\ dbPath' = [dbPath EXCEPT ![p] = Default]
    /\ opens' = [opens EXCEPT ![p] = 0]
    /\ file' = [file EXCEPT ![p] = [h \in Handles |-> Default]]

-----------------------------------------------------------------------------
StoreTypeOK ==
    /\ db \in [Procs -> 0..MaxOpens]
    /\ dbPath \in [Procs -> Paths]
    /\ opens \in [Procs -> 0..MaxOpens]
    /\ file \in [Procs -> [Handles -> Paths]]
    /\ unclosed \in [Procs -> SUBSET Handles]
    /\ op \in [Ops -> {"idle", "slow", "fetched"}]
    /\ by \in [Ops -> Procs \cup {NoProc}]
    /\ handle \in [Ops -> 0..MaxOpens]

\* No handle leaks: none but the one in db is open, however first uses, Open and
\* Close race; storage.go:45-69, 284-302.
OneHandle == \A p \in Procs : unclosed[p] \subseteq {db[p]} \ {Closed}
=============================================================================
