---------------------------- MODULE TaskPoolAbs ----------------------------
(***************************************************************************)
(* What the event pool of lib/middleware/pool.go promises its callers,     *)
(* without queue, workers or counters: a task handed to Go waits, is run   *)
(* by one goroutine, and has then been run once.                           *)
(***************************************************************************)
EXTENDS Naturals

CONSTANT Tasks

VARIABLES
    waiting,  \* tasks accepted by Go and not started
    running,  \* tasks whose function is being executed
    ran       \* how many times each task has been executed to its end

absVars == <<waiting, running, ran>>

Init ==
    /\ waiting = {}
    /\ running = {}
    /\ ran = [t \in Tasks |-> 0]

\* A task that nobody has handed to the pool yet.
Fresh(t) == t \notin waiting \cup running /\ ran[t] = 0

Accept(t) ==
    /\ Fresh(t)
    /\ waiting' = waiting \cup {t}
    /\ UNCHANGED <<running, ran>>

\* Go found no room in the queue: the task starts at once.
AcceptAndStart(t) ==
    /\ Fresh(t)
    /\ running' = running \cup {t}
    /\ UNCHANGED <<waiting, ran>>

Start(t) ==
    /\ t \in waiting
    /\ waiting' = waiting \ {t}
    /\ running' = running \cup {t}
    /\ UNCHANGED ran

Finish(t) ==
    /\ t \in running
    /\ running' = running \ {t}
    /\ ran' = [ran EXCEPT ![t] = @ + 1]
    /\ UNCHANGED waiting

Next == \E t \in Tasks : Accept(t) \/ AcceptAndStart(t) \/ Start(t) \/ Finish(t)

Spec == Init /\ [][Next]_absVars
=============================================================================
