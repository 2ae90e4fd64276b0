--------------------------- MODULE GatewayProofs ---------------------------
(***************************************************************************)
(* Theorems about the gateway client for any set of sessions, any number   *)
(* of events and any number of strikes.  The invariant has three parts:    *)
(* the phases of a connection (Phases), the agreement of the number the    *)
(* client acknowledges with the server's position (Numbers), and the       *)
(* count of resumes against the count of strikes (Attempts).  On these     *)
(* rest what Stop promises, that no dead session revives, and that the     *)
(* client implements EventStream.                                          *)
(***************************************************************************)
EXTENDS Gateway, TLAPS

\* Where the loop stands, and what the connection is then: the server has been
\* asked something exactly while the loop serves, a round begins not ready, and
\* the flag of the last connection is cleared before the new one is published.
Opening == {"token", "dial", "adopt", "publish", "handshake"}

Phases ==
    /\ loop = "serve" <=> peer # "none"
    /\ loop \in Opening => ~ready
    /\ loop \in {"publish", "handshake"} => ~online
    /\ loop = "serve" /\ online => ready
    /\ peer = "identify" => session = NoSession

\* The server's position on the connection is the number the client holds.
Numbers ==
    /\ SeqOfSession
    /\ EventsOnce
    /\ peer \in {"resume", "ready"} => session # NoSession /\ cursor = seq
    /\ peer = "ready" /\ wire = "open" => session = held

\* Every unconfirmed RESUME but the current one has cost a strike.
Attempts ==
    /\ ready => tries = 0
    /\ tries <= strikes + (IF loop \in {"serve", "exited"} THEN 1 ELSE 0)

IInv == TypeOK /\ Phases /\ Numbers /\ Attempts

\* The invariant holds initially.
LEMMA InitIInv == ASSUME Init PROVE IInv
<1> USE GatewayAssumption DEF Init
<1>0. Flags
  BY DEF Flags
<1>1. TypeOK
  BY <1>0 DEF TypeOK, Conns
<1>2. Phases /\ Attempts
  BY DEF Phases, Opening, Attempts
<1>3. Numbers
  BY DEF Numbers, SeqOfSession, EventsOnce
<1> QED
  BY <1>1, <1>2, <1>3 DEF IInv

-----------------------------------------------------------------------------
\* A round that ends, for whatever reason, keeps the invariant: the session is
\* kept whole with its number, or dropped with it, and an unconfirmed RESUME
\* costs a strike.
LEMMA EndRoundKeeps ==
    ASSUME IInv, NEW err, EndRound(err),
           loop \in {"token", "dial", "handshake", "serve"},
           UNCHANGED server \/ (held' = NoSession /\ UNCHANGED sent)
    PROVE  IInv'
<1> USE GatewayAssumption DEF IInv, TypeOK, EndRound, ConnEnds, DropSession, CountStrike, server
<1>1. loop' \in {"breathe", "exited"} /\ UNCHANGED <<online, ready, handled, stopCh, stopper>>
      /\ wire' = "none" /\ peer' = "none" /\ cursor' = 0 /\ beats' = FALSE
      /\ hb' = FALSE /\ acked' = FALSE
  OBVIOUS
<1>2. \/ session' = session /\ seq' = seq
      \/ session' = NoSession /\ seq' = 0
  OBVIOUS
<1>3. tries' \in Nat /\ strikes' \in 0..StrikeLimit - 1
  OBVIOUS
<1>4. Attempts'
  BY DEF Attempts
<1> HIDE DEF EndRound, CountStrike, DropSession, ConnEnds
<1>5. cur' \in Conns /\ grabbed' \in Conns
  BY DEF EndRound, ConnEnds, Conns
<1>6. TypeOK'
  <2>1. Flags'
    BY <1>1 DEF Flags
  <2> QED
    BY <1>1, <1>2, <1>3, <1>5, <2>1
<1>7. Phases'
  BY <1>1 DEF Phases, Opening
<1>8. SeqOfSession'
  BY <1>2 DEF Numbers, SeqOfSession
<1>9. EventsOnce'
  BY <1>1, <1>2 DEF Numbers, EventsOnce
<1>10. Numbers'
  BY <1>1, <1>8, <1>9 DEF Numbers
<1> QED
  BY <1>4, <1>6, <1>7, <1>10

\* The steps of a round before the server is asked anything.
LEMMA OpeningKeeps ==
    ASSUME IInv, OpenRound \/ GetToken \/ Dial \/ Adopt \/ Publish \/ Breathe
    PROVE  IInv'
<1> USE GatewayAssumption
<1>1. CASE GetToken /\ EndRound("other")
  BY <1>1, EndRoundKeeps DEF GetToken
<1>2. CASE Dial /\ EndRound("other")
  BY <1>2, EndRoundKeeps DEF Dial
<1>3. CASE \/ OpenRound \/ Adopt \/ Publish \/ Breathe
           \/ (GetToken /\ ~EndRound("other")) \/ (Dial /\ ~EndRound("other"))
  <2> USE <1>3 DEF IInv, OpenRound, GetToken, Dial, Adopt, Publish, Breathe, link, server, client,
                   history, stopping
  <2>0. Flags'
    BY DEF Flags, TypeOK
  <2>1. TypeOK'
    BY <2>0 DEF TypeOK, Conns
  <2>2. Phases'
    BY DEF Phases, Opening
  <2>3. Numbers'
    BY DEF Numbers, SeqOfSession, EventsOnce, Phases
  <2>4. Attempts'
    BY DEF Attempts, TypeOK
  <2> QED
    BY <2>1, <2>2, <2>3, <2>4
<1> QED
  BY <1>1, <1>2, <1>3

\* HELLO: RESUME takes the client's number with it and is the attempt of this
\* round; IDENTIFY is sent without a session only.
LEMMA HelloKeeps == ASSUME IInv, Hello PROVE IInv'
<1> USE GatewayAssumption
<1>1. CASE EndRound("other")
  BY <1>1, EndRoundKeeps DEF Hello
<1>2. CASE ~EndRound("other")
  <2> USE <1>2 DEF IInv, Hello, server, client, stopping
  <2>0. Flags'
    BY DEF Flags, TypeOK
  <2>1. TypeOK'
    BY <2>0 DEF TypeOK, Conns
  <2>2. Phases'
    BY DEF Phases, Opening
  <2>3. Numbers'
    BY DEF Numbers, SeqOfSession, EventsOnce, Phases
  <2>4. Attempts'
    BY DEF Attempts, TypeOK, Phases, Opening
  <2> QED
    BY <2>1, <2>2, <2>3, <2>4
<1> QED
  BY <1>1, <1>2

\* READY begins a session with its first event.
LEMMA ReadyKeeps == ASSUME IInv, NEW s \in Sessions, Ready(s) PROVE IInv'
<1> USE GatewayAssumption DEF IInv, Ready, MarkReady, Reading
<1>1. seq' = 1 /\ session' = s /\ cursor' = 1 /\ sent' = 1 /\ held' = s
  BY DEF BumpSeq, Max2, Phases, Numbers, SeqOfSession
<1>0. Flags'
  BY DEF Flags, TypeOK, stopping
<1>2. TypeOK'
  BY <1>0, <1>1 DEF TypeOK, stopping
<1>3. Phases'
  BY DEF Phases, Opening
<1>4. EventsOnce'
  BY <1>1 DEF EventsOnce, TypeOK
<1>5. SeqOfSession'
  BY <1>1 DEF SeqOfSession
<1>6. Numbers'
  BY <1>1, <1>4, <1>5 DEF Numbers
<1>7. Attempts'
  BY DEF Attempts, TypeOK
<1> QED
  BY <1>2, <1>3, <1>6, <1>7

\* An event carries the number after the client's.
LEMMA EventKeeps == ASSUME IInv, Event PROVE IInv'
<1> USE GatewayAssumption DEF IInv, Event, Reading, server, stopping
<1>1. session # NoSession /\ session = held /\ cursor = seq /\ cursor \in Nat /\ seq < MaxSeq
  BY DEF Numbers, Resumable, TypeOK
<1>2. seq' = seq + 1 /\ cursor' = seq + 1 /\ seq' <= sent
  BY <1>1 DEF BumpSeq, Max2, TypeOK
<1>0. Flags'
  BY DEF Flags, TypeOK
<1>3. TypeOK'
  BY <1>0, <1>1, <1>2 DEF TypeOK
<1>4. Phases' /\ Attempts'
  BY DEF Phases, Opening, Attempts
<1>5. EventsOnce'
  BY <1>1, <1>2 DEF Numbers, EventsOnce, TypeOK
<1>6. SeqOfSession'
  BY <1>1, <1>2 DEF Numbers, SeqOfSession
<1>7. Numbers'
  BY <1>1, <1>2, <1>5, <1>6 DEF Numbers
<1> QED
  BY <1>3, <1>4, <1>7

\* RESUMED confirms the session at the number the client has reached.
LEMMA ResumedKeeps == ASSUME IInv, Resumed PROVE IInv'
<1> USE GatewayAssumption DEF IInv, Resumed, Reading, server, stopping
<1>1. session # NoSession /\ session = held /\ cursor = seq /\ seq = sent /\ seq \in Nat
  BY DEF Numbers, Resumable, TypeOK
<1>2. seq' = seq
  BY <1>1 DEF BumpSeq, Max2
<1>0. Flags'
  BY DEF Flags, TypeOK, MarkReady
<1>3. TypeOK'
  BY <1>0, <1>2 DEF TypeOK, MarkReady
<1>4. Phases' /\ Attempts'
  BY DEF Phases, Opening, Attempts, MarkReady, TypeOK
<1>5. Numbers'
  BY <1>1, <1>2 DEF Numbers, SeqOfSession, EventsOnce
<1> QED
  BY <1>3, <1>4, <1>5

\* The steps that only end the round.
LEMMA EndKeeps ==
    ASSUME IInv, \/ HeartbeatRequestFails \/ ServerReconnect \/ ServerInvalidates
                 \/ ServerBans \/ LineFails \/ ReadCut \/ ReadTimeout
    PROVE  IInv'
BY EndRoundKeeps DEF HeartbeatRequestFails, ServerReconnect, ServerInvalidates, ServerBans,
   LineFails, ReadCut, ReadTimeout, Reading

\* The heartbeat, Stop and the server change neither session nor round: they
\* can only take the connection away, number an event, or forget a session.
LEMMA OutsideKeeps ==
    ASSUME IInv, \/ Ack \/ Beat \/ StopSignal \/ StopStep \/ Emit \/ Forget \/ GoMute
    PROVE  IInv'
<1> USE GatewayAssumption DEF IInv, Ack, Beat, StopSignal, StopStep, StopGrab, StopKill, StopReturn,
        Emit, Forget, GoMute, client, link, server, stopping, history, Reading
<1>1. UNCHANGED <<session, seq, online, strikes, ready, peer, cursor, handled, tries, loop>>
  OBVIOUS
<1>0. Flags'
  BY DEF Flags, TypeOK
<1>2. TypeOK'
  BY <1>0 DEF TypeOK, Conns
<1>3. Phases' /\ Attempts'
  BY <1>1 DEF Phases, Opening, Attempts
<1>4. Numbers'
  <2>1. EventsOnce'
    BY <1>1 DEF Numbers, EventsOnce
  <2>2. SeqOfSession'
    BY <1>1 DEF Numbers, SeqOfSession, TypeOK
  <2>3. (peer = "ready" /\ wire = "open" => session = held)'
    BY <1>1 DEF Numbers
  <2> QED
    BY <1>1, <2>1, <2>2, <2>3 DEF Numbers
<1> QED
  BY <1>2, <1>3, <1>4

-----------------------------------------------------------------------------
\* The invariant holds in every reachable state.
LEMMA IInvAlways == Spec => []IInv
<1>1. ASSUME IInv, UNCHANGED vars PROVE IInv'
  BY <1>1 DEF IInv, Flags, TypeOK, Phases, Numbers, SeqOfSession, EventsOnce, Attempts, Opening,
     vars, client, link, server, stopping, history
<1>2. ASSUME IInv, Next PROVE IInv'
  BY <1>2, OpeningKeeps, HelloKeeps, ReadyKeeps, EventKeeps, ResumedKeeps, EndKeeps, OutsideKeeps
  DEF Next, LoopStep, Receive, Environment
<1>3. IInv /\ [Next]_vars => IInv'
  BY <1>1, <1>2
<1> QED
  BY InitIInv, <1>3, PTL DEF Spec

\* The gateway's state keeps its types; the strike count stays below the limit
\* at which the session is dropped (client.go:148-159).
THEOREM GatewayTypes == Spec => []TypeOK
<1>1. IInv => TypeOK
  BY DEF IInv
<1> QED
  BY IInvAlways, <1>1, PTL

\* The number the client would resume from belongs to its session: none without
\* a session, and none the server has not reached (conn.go:130-134).
THEOREM SeqBelongs == Spec => []SeqOfSession
<1>1. IInv => SeqOfSession
  BY DEF IInv, Numbers
<1> QED
  BY IInvAlways, <1>1, PTL

\* Over any number of reconnections the events handed to the middleware are
\* those up to the client's number, once each (conn.go:188-192).
THEOREM EventsOnceCorrect == Spec => []EventsOnce
<1>1. IInv => EventsOnce
  BY DEF IInv, Numbers
<1> QED
  BY IInvAlways, <1>1, PTL

\* A served connection is reported as connected only after its own READY or
\* RESUMED (client.go:231).
THEOREM OnlineCorrect == Spec => []OnlineIsReady
<1>1. IInv => OnlineIsReady
  BY DEF IInv, Phases, OnlineIsReady
<1> QED
  BY IInvAlways, <1>1, PTL

\* An unconfirmed session is offered at most StrikeLimit times (client.go:147).
THEOREM ResumesBounded == Spec => []BoundedResumes
<1>1. IInv => BoundedResumes
  BY GatewayAssumption DEF IInv, TypeOK, Attempts, BoundedResumes
<1> QED
  BY IInvAlways, <1>1, PTL

-----------------------------------------------------------------------------
\* What the connection is at each place of the loop: there is one from the dial
\* to the end of the round, Client.cur names it from its publication on, Stop
\* can have read it only there, and its heartbeat runs only while it is served.
Wired ==
    /\ wire # "none" <=> loop \in {"adopt", "publish", "handshake", "serve"}
    /\ cur = "this" <=> loop \in {"handshake", "serve"}
    /\ grabbed = "this" => cur = "this" /\ stopper \notin {"idle", "grab"}
    /\ hb => loop = "serve"
    /\ stopper # "idle" => stopCh
    /\ stopper \in {"wait", "returned"} /\ grabbed = "this" => wire = "cut"
    /\ stopper = "returned" => loop = "exited"

\* Stop cuts the connection it has read, and when it returns nothing is left:
\* no loop, no connection, no heartbeat (client.go:160-175, 217-240).
StopIsFinal ==
    /\ stopper = "wait" /\ grabbed = "this" => wire = "cut"
    /\ stopper = "returned" => loop = "exited" /\ wire = "none" /\ ~hb /\ cur # "this"

\* The farthest a place of the loop is from the end once Stop has signalled.
Distance(l) ==
    CASE l = "exited" -> 0
      [] l \in {"top", "breathe"} -> 1
      [] l \in {"dial", "serve"} -> 2
      [] l \in {"token", "handshake"} -> 3
      [] l = "publish" -> 4
      [] l = "adopt" -> 5

\* After the signal the loop only comes closer to its end, so it opens no round
\* and dials no connection, and takes at most five more steps: the safety half
\* of StopReturnsOrMisses (client.go:103, 201-215, 259-306).
StopConverges == [][stopCh /\ loop' # loop => Distance(loop') < Distance(loop)]_vars

\* A session the server has forgotten stays dead for as long as the client
\* holds on to it: no event of it is handed on and no round with it becomes
\* ready, so its strikes are not cleared (client.go:147-159, conn.go:182-188).
DeadStaysDead ==
    [][session \notin {NoSession, held} /\ session' = session =>
           session' # held' /\ handled' = handled /\ seq' = seq /\ (ready' => ready)]_vars

-----------------------------------------------------------------------------
\* Where a round can end, and what is left of its connection then.
LEMMA RoundOver ==
    ASSUME NEW err, EndRound(err)
    PROVE  /\ loop' \in {"breathe", "exited"} /\ wire' = "none" /\ ~hb'
           /\ cur' # "this" /\ grabbed' # "this" /\ stopCh' = stopCh /\ stopper' = stopper
           /\ handled' = handled /\ ready' = ready
BY DEF EndRound, ConnEnds

\* Ending the round takes the connection away wherever it was.
LEMMA OverKeepsWired ==
    ASSUME Wired, NEW err, EndRound(err), loop \in {"token", "dial", "handshake", "serve"}
    PROVE  Wired'
BY RoundOver DEF Wired

\* Each step keeps the connection in line with the loop.
LEMMA WiredStep == ASSUME TypeOK, Wired, [Next]_vars PROVE Wired'
<1>1. CASE OpenRound \/ Adopt \/ Publish \/ Breathe
  BY <1>1 DEF OpenRound, Adopt, Publish, Breathe, Wired, client, link, server, stopping, history
<1>2. CASE GetToken
  <2>1. CASE EndRound("other")
    BY <1>2, <2>1, OverKeepsWired DEF GetToken
  <2>2. CASE loop' = "dial" /\ UNCHANGED <<client, link, stopping, history>>
    BY <1>2, <2>2 DEF GetToken, Wired, client, link, stopping
  <2> QED
    BY <1>2, <2>1, <2>2 DEF GetToken
<1>3. CASE Dial
  <2>1. CASE EndRound("other")
    BY <1>3, <2>1, OverKeepsWired DEF Dial
  <2>2. CASE ~EndRound("other")
    BY <1>3, <2>2 DEF Dial, Wired, client, stopping
  <2> QED
    BY <2>1, <2>2
<1>4. CASE Hello
  <2>1. CASE EndRound("other")
    BY <1>4, <2>1, OverKeepsWired DEF Hello
  <2>2. CASE ~EndRound("other")
    BY <1>4, <2>2 DEF Hello, Wired, client, stopping
  <2> QED
    BY <2>1, <2>2
<1>5. CASE (\E s \in Sessions : Ready(s)) \/ Event \/ Resumed \/ Ack
  BY <1>5 DEF Ready, Event, Resumed, Ack, Reading, MarkReady, Wired, client, stopping
<1>6. CASE \/ HeartbeatRequestFails \/ ServerReconnect \/ ServerInvalidates \/ ServerBans
           \/ LineFails \/ ReadCut \/ ReadTimeout
  BY <1>6, OverKeepsWired DEF HeartbeatRequestFails, ServerReconnect, ServerInvalidates, ServerBans,
     LineFails, ReadCut, ReadTimeout, Reading
<1>7. CASE Beat
  BY <1>7 DEF Beat, Wired, client, stopping
<1>8. CASE StopSignal \/ StopStep
  BY <1>8 DEF StopSignal, StopStep, StopGrab, StopKill, StopReturn, Wired, client, link
<1>9. CASE Emit \/ Forget \/ GoMute
  BY <1>9 DEF Emit, Forget, GoMute, Wired, client, link, stopping
<1>10. CASE UNCHANGED vars
  BY <1>10 DEF vars, Wired, client, link, stopping
<1> QED
  BY <1>1, <1>2, <1>3, <1>4, <1>5, <1>6, <1>7, <1>8, <1>9, <1>10
  DEF Next, LoopStep, Receive, Environment

\* The connection is in line with the loop in every reachable state.
LEMMA WiredAlways == Spec => []Wired
<1>1. Init => Wired
  BY DEF Init, Wired
<1>2. IInv => TypeOK
  BY DEF IInv
<1>3. TypeOK /\ Wired /\ [Next]_vars => Wired'
  BY WiredStep
<1> QED
  BY <1>1, <1>2, <1>3, IInvAlways, PTL DEF Spec

\* Stop leaves nothing behind: what it read it has cut, and it returns only
\* after loop, connection and heartbeat have ended (client.go:160-175).
THEOREM StopIsFinalCorrect == Spec => []StopIsFinal
<1>1. Wired => StopIsFinal
  BY DEF Wired, StopIsFinal
<1> QED
  BY <1>1, WiredAlways, PTL

\* From the signal on, every move of the loop is towards its end: whatever
\* session, server or timer does, no further round is opened and no further
\* connection is dialled (client.go:103, 201-215, 259-306).
THEOREM StopConvergesCorrect == Spec => StopConverges
<1> DEFINE Step == stopCh /\ loop' # loop => Distance(loop') < Distance(loop)
<1>1. ASSUME IInv, [Next]_vars PROVE Step
  <2> SUFFICES ASSUME stopCh, loop' # loop PROVE Distance(loop') < Distance(loop)
    OBVIOUS
  <2>1. ASSUME NEW err, EndRound(err), loop \in {"token", "dial", "handshake", "serve"}
        PROVE  Distance(loop') < Distance(loop)
    <3>1. loop' \in {"breathe", "exited"}
      BY <2>1, RoundOver
    <3> QED
      BY <2>1, <3>1 DEF Distance
  <2>2. CASE OpenRound \/ Adopt \/ Publish \/ Breathe
    BY <2>2 DEF OpenRound, Adopt, Publish, Breathe, Distance
  <2>3. CASE GetToken
    <3>1. CASE EndRound("other")
      BY <2>1, <2>3, <3>1 DEF GetToken
    <3>2. CASE loop' = "dial"
      BY <2>3, <3>2 DEF GetToken, Distance
    <3> QED
      BY <2>3, <3>1, <3>2 DEF GetToken
  <2>4. CASE Dial
    BY <2>1, <2>4 DEF Dial
  <2>5. CASE Hello
    <3>1. CASE EndRound("other")
      BY <2>1, <2>5, <3>1 DEF Hello
    <3>2. CASE loop' = "serve"
      BY <2>5, <3>2 DEF Hello, Distance
    <3> QED
      BY <2>5, <3>1, <3>2 DEF Hello
  <2>6. CASE \/ HeartbeatRequestFails \/ ServerReconnect \/ ServerInvalidates \/ ServerBans
             \/ LineFails \/ ReadCut \/ ReadTimeout
    BY <2>1, <2>6 DEF HeartbeatRequestFails, ServerReconnect, ServerInvalidates, ServerBans,
       LineFails, ReadCut, ReadTimeout, Reading
  <2>7. loop' = loop
        \/ ~((\E s \in Sessions : Ready(s)) \/ Event \/ Resumed \/ Ack \/ Beat \/ StopSignal
             \/ StopStep \/ Emit \/ Forget \/ GoMute)
    BY DEF Ready, Event, Resumed, Ack, Beat, StopSignal, StopStep, StopGrab, StopKill, StopReturn,
           Emit, Forget, GoMute
  <2>8. CASE UNCHANGED vars
    BY <2>8 DEF vars
  <2> QED
    BY <1>1, <2>2, <2>3, <2>4, <2>5, <2>6, <2>7, <2>8 DEF Next, LoopStep, Receive, Environment
<1> HIDE DEF Step
<1>2. IInv /\ [Next]_vars => Step
  BY <1>1
<1>3. [][Step]_vars => StopConverges
  BY PTL DEF StopConverges, Step
<1> QED
  BY <1>2, <1>3, IInvAlways, PTL DEF Spec

\* No event, no answer and no forgetting revives a session that the server no
\* longer knows; only its strikes move until it is dropped (client.go:147-159).
THEOREM DeadStaysDeadCorrect == Spec => DeadStaysDead
<1> DEFINE Step ==
      session \notin {NoSession, held} /\ session' = session =>
          session' # held' /\ handled' = handled /\ seq' = seq /\ (ready' => ready)
<1>1. ASSUME IInv, [Next]_vars PROVE Step
  <2> SUFFICES ASSUME session # NoSession, session # held, session' = session
               PROVE  session' # held' /\ handled' = handled /\ seq' = seq /\ (ready' => ready)
    OBVIOUS
  <2>1. ASSUME NEW err, EndRound(err), UNCHANGED server \/ held' = NoSession PROVE Step
    <3>1. seq' = seq
      BY <1>1, <2>1 DEF EndRound, CountStrike, DropSession
    <3> QED
      BY <2>1, <3>1, RoundOver DEF server
  <2>2. CASE OpenRound \/ Adopt \/ Publish \/ Breathe
    BY <2>2 DEF OpenRound, Adopt, Publish, Breathe, client, server, history
  <2>3. CASE GetToken \/ Dial \/ Hello
    <3>1. CASE EndRound("other")
      BY <2>1, <2>3, <3>1 DEF GetToken, Dial, Hello
    <3>2. CASE ~EndRound("other")
      BY <2>3, <3>2 DEF GetToken, Dial, Hello, client, server, history
    <3> QED
      BY <3>1, <3>2
  <2>4. CASE (\E s \in Sessions : Ready(s)) \/ Event \/ Resumed
    BY <1>1, <2>4 DEF IInv, Phases, Numbers, Ready, Event, Resumed, Resumable, Reading
  <2>5. CASE Ack \/ Beat \/ StopSignal \/ StopStep \/ Emit \/ Forget \/ GoMute
    BY <2>5 DEF Ack, Beat, StopSignal, StopStep, StopGrab, StopKill, StopReturn, Emit, Forget,
       GoMute, client, server, history
  <2>6. CASE \/ HeartbeatRequestFails \/ ServerReconnect \/ ServerInvalidates \/ ServerBans
             \/ LineFails \/ ReadCut \/ ReadTimeout
    BY <2>1, <2>6 DEF HeartbeatRequestFails, ServerReconnect, ServerInvalidates, ServerBans,
       LineFails, ReadCut, ReadTimeout
  <2>7. CASE UNCHANGED vars
    BY <2>7 DEF vars, client, server, history
  <2> QED
    BY <1>1, <2>2, <2>3, <2>4, <2>5, <2>6, <2>7 DEF Next, LoopStep, Receive, Environment
<1> HIDE DEF Step
<1>2. IInv /\ [Next]_vars => Step
  BY <1>1
<1>3. [][Step]_vars => DeadStaysDead
  BY PTL DEF DeadStaysDead, Step
<1> QED
  BY <1>2, <1>3, IInvAlways, PTL DEF Spec

-----------------------------------------------------------------------------
\* The end of a round follows the stream: the session stays with its number,
\* or is given up.
LEMMA EndStreams ==
    ASSUME IInv, NEW err, EndRound(err) PROVE [Stream!Next]_(Stream!streamVars)
<1>1. handled' = handled
  BY RoundOver
<1>2. UNCHANGED <<session, seq>> \/ DropSession
  BY DEF EndRound, CountStrike
<1>3. CASE UNCHANGED <<session, seq>>
  BY <1>1, <1>3 DEF Stream!streamVars
<1>4. CASE DropSession /\ session # NoSession
  <2>1. Stream!GiveUp
    BY <1>1, <1>4 DEF DropSession, Stream!GiveUp
  <2> QED
    BY <2>1 DEF Stream!Next
<1>5. CASE DropSession /\ session = NoSession
  BY <1>1, <1>5 DEF DropSession, IInv, Numbers, SeqOfSession, Stream!streamVars
<1> QED
  BY <1>2, <1>3, <1>4, <1>5

\* READY opens the stream, a numbered event is the next one, and no other step
\* shows.
LEMMA StreamStep == ASSUME IInv, [Next]_vars PROVE [Stream!Next]_(Stream!streamVars)
<1>1. ASSUME UNCHANGED <<session, seq, handled>> PROVE [Stream!Next]_(Stream!streamVars)
  BY <1>1 DEF Stream!streamVars
<1>2. ASSUME NEW s \in Sessions, Ready(s) PROVE Stream!Open(s)
  <2>1. session = NoSession /\ seq = 0
    BY <1>2 DEF IInv, Phases, Numbers, SeqOfSession, Ready
  <2>2. seq' = 1
    BY <1>2, <2>1 DEF Ready, BumpSeq, Max2
  <2> QED
    BY <1>2, <2>1, <2>2 DEF Ready, Stream!Open
<1>3. ASSUME Event PROVE Stream!HandOn
  <2>1. session # NoSession /\ cursor = seq /\ cursor < sent /\ sent \in 0..MaxSeq /\ seq \in Nat
    BY <1>3 DEF IInv, TypeOK, Numbers, Event, Resumable
  <2>2. seq' = seq + 1 /\ seq < MaxSeq
    BY <1>3, <2>1, GatewayAssumption DEF Event, BumpSeq, Max2
  <2> QED
    BY <1>3, <2>1, <2>2 DEF Event, Stream!HandOn
<1>4. ASSUME Resumed PROVE UNCHANGED <<session, seq, handled>>
  <2>1. cursor = seq /\ cursor = sent /\ sent \in Nat
    BY <1>4, GatewayAssumption DEF IInv, TypeOK, Numbers, Resumed, Resumable
  <2> QED
    BY <1>4, <2>1 DEF Resumed, BumpSeq, Max2
<1>5. CASE OpenRound \/ Adopt \/ Publish \/ Breathe
  BY <1>1, <1>5 DEF OpenRound, Adopt, Publish, Breathe, client, history
<1>6. CASE GetToken \/ Dial \/ Hello
  <2>1. CASE EndRound("other")
    BY <2>1, EndStreams
  <2>2. CASE ~EndRound("other")
    BY <1>1, <1>6, <2>2 DEF GetToken, Dial, Hello, client, history
  <2> QED
    BY <2>1, <2>2
<1>7. CASE Ack \/ Beat \/ StopSignal \/ StopStep \/ Emit \/ Forget \/ GoMute
  BY <1>1, <1>7 DEF Ack, Beat, StopSignal, StopStep, StopGrab, StopKill, StopReturn, Emit, Forget,
     GoMute, client, history
<1>8. CASE \/ HeartbeatRequestFails \/ ServerReconnect \/ ServerInvalidates \/ ServerBans
           \/ LineFails \/ ReadCut \/ ReadTimeout
  BY <1>8, EndStreams DEF HeartbeatRequestFails, ServerReconnect, ServerInvalidates, ServerBans,
     LineFails, ReadCut, ReadTimeout
<1>9. CASE UNCHANGED vars
  BY <1>1, <1>9 DEF vars, client, history
<1> QED
  BY <1>1, <1>2, <1>3, <1>4, <1>5, <1>6, <1>7, <1>8, <1>9
  DEF Next, LoopStep, Receive, Environment, Stream!Next

\* The client implements the plain stream of a session's events: rounds,
\* resumes, heartbeats and Stop are invisible to the middleware, except that a
\* session may be given up and the next one begun (conn.go:170-192).
THEOREM StreamImplemented == Spec => StreamSpec
<1>1. Init => Stream!Init
  BY DEF Init, Stream!Init
<1>2. IInv /\ [Next]_vars => [Stream!Next]_(Stream!streamVars)
  BY StreamStep
<1> QED
  BY <1>1, <1>2, IInvAlways, PTL DEF Spec, StreamSpec, Stream!Spec
=============================================================================
