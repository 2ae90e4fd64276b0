---------------------------- MODULE EventStream ----------------------------
(***************************************************************************)
(* What the gateway client of lib/gateway promises the middleware, without *)
(* connections, heartbeats, resumes or rounds: it follows one session at a *)
(* time and hands its events on in the order of their numbers, each once.  *)
(* A session may be given up; the next one begins with its own event 1.    *)
(***************************************************************************)
EXTENDS Naturals

CONSTANTS Sessions, NoSession, MaxSeq

VARIABLES
    session,   \* the session that is followed
    position,  \* the number of its last event handed on, 0 without a session
    handled    \* how often each event of the session has been handed on

streamVars == <<session, position, handled>>

Init ==
    /\ session = NoSession
    /\ position = 0
    /\ handled = [n \in 1..MaxSeq |-> 0]

\* A new session, only after the last one was given up.
Open(s) ==
    /\ session = NoSession
    /\ session' = s
    /\ position' = 1
    /\ handled' = [n \in 1..MaxSeq |-> IF n = 1 THEN 1 ELSE 0]

\* The event after the last one.
HandOn ==
    /\ session # NoSession
    /\ position < MaxSeq
    /\ position' = position + 1
    /\ handled' = [handled EXCEPT ![position + 1] = @ + 1]
    /\ UNCHANGED session

GiveUp ==
    /\ session # NoSession
    /\ session' = NoSession
    /\ position' = 0
    /\ UNCHANGED handled

Next == HandOn \/ GiveUp \/ \E s \in Sessions : Open(s)

Spec == Init /\ [][Next]_streamVars
=============================================================================
