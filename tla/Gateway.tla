------------------------------ MODULE Gateway ------------------------------
(***************************************************************************)
(* The WebSocket gateway client of lib/gateway: the reconnect loop of      *)
(* Client.Start, one connection at a time (run, handshake, serve), its     *)
(* heartbeat goroutine (pump) and Client.Stop, against a server that keeps *)
(* at most one session for the bot, numbers its events, and may forget,    *)
(* reject, go silent or close at any time.                                 *)
(*                                                                         *)
(* A frame is handled in the step that reads it: the read loop is the only *)
(* reader and TCP keeps the order, so a frame in flight is a frame the     *)
(* server has not delivered.  Delays (backoff, jitter, quota) are left     *)
(* out: a wait may end at any time.  The access token is left out too.     *)
(***************************************************************************)
EXTENDS Naturals, FiniteSets

CONSTANTS
    Sessions,     \* session identifiers the server issues
    NoSession,    \* the empty session_id
    MaxSeq,       \* bound: events the server numbers in one session
    StrikeLimit   \* rounds without READY/RESUMED that cost the session (5)

ASSUME GatewayAssumption ==
    /\ NoSession \notin Sessions
    /\ Sessions # {}
    /\ MaxSeq \in Nat \ {0}
    /\ StrikeLimit \in Nat \ {0}

VARIABLES
    loop,      \* where Start (and run, which it calls) stands
    session, seq, online, strikes,
    ready,     \* readyN differs from the value the round began with
    cur,       \* the connection in Client.cur: none, an earlier one, this one
    wire,      \* the connection: none, open, mute (server silent), cut (killed)
    peer,      \* what the server has been asked on it
    cursor,    \* last event the server has delivered on it
    beats,     \* HELLO gave a positive heartbeat interval
    hb, acked, \* the pump goroutine and its acknowledgement flag
    held,      \* the session the server knows
    sent,      \* how many events of it the server has numbered
    stopCh,    \* Stop has closed the stop channel and cancelled the context
    stopper,   \* where Stop stands
    grabbed,   \* the connection Stop has read from Client.cur
    handled,   \* history: dispatches per event of the session
    tries      \* history: RESUMEs sent since the session was last confirmed

client   == <<session, seq, online, strikes, ready, cur>>
link     == <<wire, peer, cursor, beats, hb, acked>>
server   == <<held, sent>>
stopping == <<stopCh, stopper, grabbed>>
history  == <<handled, tries>>
vars     == <<loop, client, link, server, stopping, history>>

Conns == {"none", "old", "this"}
Max2(a, b) == IF a > b THEN a ELSE b

Init ==
    /\ loop = "top"
    /\ session = NoSession /\ seq = 0 /\ online = FALSE
    /\ strikes = 0 /\ ready = FALSE /\ cur = "none"
    /\ wire = "none" /\ peer = "none" /\ cursor = 0
    /\ beats = FALSE /\ hb = FALSE /\ acked = FALSE
    /\ held = NoSession /\ sent = 0
    /\ stopCh = FALSE /\ stopper = "idle" /\ grabbed = "none"
    /\ handled = [n \in 1..MaxSeq |-> 0] /\ tries = 0

-----------------------------------------------------------------------------
\* dropSession, and the history that goes with a session.
DropSessionKeepSeqMutant ==
    /\ session' = NoSession
    /\ tries' = 0
    /\ UNCHANGED seq

DropSession ==
    /\ session' = NoSession
    /\ seq' = 0
    /\ tries' = 0

\* countStrike: a round that became ready clears the count; otherwise the
\* round counts, and the last one allowed costs the session.
CountStrikeNeverDropsMutant ==
    /\ strikes' = IF ready \/ strikes + 1 >= StrikeLimit THEN 0 ELSE strikes + 1
    /\ UNCHANGED <<session, seq, tries>>

CountStrikeLateMutant ==
    IF ready
    THEN strikes' = 0 /\ UNCHANGED <<session, seq, tries>>
    ELSE IF strikes >= StrikeLimit
    THEN strikes' = 0 /\ DropSession
    ELSE strikes' = strikes + 1 /\ UNCHANGED <<session, seq, tries>>

CountStrike ==
    IF ready
    THEN strikes' = 0 /\ UNCHANGED <<session, seq, tries>>
    ELSE IF strikes + 1 >= StrikeLimit
    THEN strikes' = 0 /\ DropSession
    ELSE strikes' = strikes + 1 /\ UNCHANGED <<session, seq, tries>>

\* run returns err to Start.  Its deferred calls stop the heartbeat and close
\* the socket; Client.cur keeps pointing at the connection.  Start then gives
\* up (errStop), drops the session (errInvalidSession) or counts a strike
\* (errReconnect and everything else), and waits.
ConnEnds ==
    /\ wire' = "none" /\ peer' = "none" /\ cursor' = 0
    /\ beats' = FALSE /\ hb' = FALSE /\ acked' = FALSE
    /\ cur' = IF cur = "this" THEN "old" ELSE cur
    /\ grabbed' = IF grabbed = "this" THEN "old" ELSE grabbed

EndRound(err) ==
    /\ ConnEnds
    /\ \/ /\ err = "stop"
          /\ loop' = "exited"
          /\ UNCHANGED <<session, seq, strikes, tries>>
       \/ /\ err = "invalid"
          /\ loop' = "breathe"
          /\ DropSession
          /\ UNCHANGED strikes
       \/ /\ err \in {"reconnect", "other"}
          /\ loop' = "breathe"
          /\ CountStrike
    /\ UNCHANGED <<online, ready, handled, stopCh, stopper>>

-----------------------------------------------------------------------------
\* Start: the closed test that opens a round, and before := readyN.
OpenRound ==
    /\ loop = "top"
    /\ loop' = IF stopCh THEN "exited" ELSE "token"
    /\ ready' = FALSE
    /\ UNCHANGED <<session, seq, online, strikes, cur, link, server, stopping, history>>

\* run: AccessToken, which does not look at the stop signal.
GetToken ==
    /\ loop = "token"
    /\ \/ /\ loop' = "dial"
          /\ UNCHANGED <<client, link, stopping, history>>
       \/ EndRound("other")
    /\ UNCHANGED server

\* run: dial.  The context makes it fail once Stop has cancelled it.
Dial ==
    /\ loop = "dial"
    /\ \/ /\ ~stopCh
          /\ loop' = "adopt"
          /\ wire' = "open"
          /\ UNCHANGED <<client, peer, cursor, beats, hb, acked, stopping, history>>
       \/ EndRound("other")
    /\ UNCHANGED server

\* run: connAt and online under the lock, then cur under the lock.
AdoptKeepOnlineMutant ==
    /\ loop = "adopt"
    /\ loop' = "publish"
    /\ UNCHANGED <<client, link, server, stopping, history>>

Adopt ==
    /\ loop = "adopt"
    /\ loop' = "publish"
    /\ online' = FALSE
    /\ UNCHANGED <<session, seq, strikes, ready, cur, link, server, stopping, history>>

Publish ==
    /\ loop = "publish"
    /\ loop' = "handshake"
    /\ cur' = "this"
    /\ UNCHANGED <<session, seq, online, strikes, ready, link, server, stopping, history>>

\* handshake: HELLO arrives; RESUME if there is a session, IDENTIFY if not.
\* The write may fail.  Every other frame is skipped.
Hello ==
    /\ loop = "handshake"
    /\ wire = "open"
    /\ \/ /\ loop' = "serve"
          /\ \E positive \in BOOLEAN : beats' = positive
          /\ IF session # NoSession
             THEN peer' = "resume" /\ cursor' = seq /\ tries' = tries + 1
             ELSE peer' = "identify" /\ UNCHANGED <<cursor, tries>>
          /\ UNCHANGED <<client, wire, hb, acked, stopping, handled>>
       \/ EndRound("other")
    /\ UNCHANGED server

-----------------------------------------------------------------------------
Reading == loop = "serve" /\ wire = "open"

\* bumpSeq, and the dispatch of an event to the middleware.
BumpSeqMutant(s) == seq' = s

BumpSeq(s) == seq' = Max2(seq, s)

\* setOnline, markReady and startHeartbeat, common to READY and RESUMED.
MarkReady ==
    /\ online' = TRUE /\ ready' = TRUE /\ tries' = 0
    /\ hb' = beats
    /\ acked' = beats

\* onDispatch READY, the answer to IDENTIFY: a new session, event number 1.
Ready(s) ==
    /\ Reading /\ peer = "identify"
    /\ s # held
    /\ held' = s /\ sent' = 1
    /\ session' = s
    /\ MarkReady
    /\ BumpSeq(1)
    /\ peer' = "ready" /\ cursor' = 1
    /\ handled' = [n \in 1..MaxSeq |-> IF n = 1 THEN 1 ELSE 0]
    /\ UNCHANGED <<loop, strikes, cur, wire, beats, stopping>>

\* The server accepts a RESUME of the session it knows, within its numbering.
Resumable == peer = "resume" /\ session = held /\ cursor <= sent

\* onDispatch of an event: numbered before it is handed on.  After RESUME the
\* server first repeats what came after the number it was given.  Every event is
\* of a known type and has data that can be read: others are numbered and go no
\* further (conn.go:189-191, client.go:250-254).
Event ==
    /\ Reading
    /\ peer = "ready" \/ Resumable
    /\ cursor < sent
    /\ cursor' = cursor + 1
    /\ BumpSeq(cursor + 1)
    /\ handled' = [handled EXCEPT ![cursor + 1] = @ + 1]
    /\ UNCHANGED <<loop, session, online, strikes, ready, cur, wire, peer, beats,
                   hb, acked, server, stopping, tries>>

\* onDispatch RESUMED: nothing left to repeat.  The frame carries the last
\* number, or none (0).
Resumed ==
    /\ Reading /\ Resumable
    /\ cursor = sent
    /\ peer' = "ready"
    /\ MarkReady
    /\ \E s \in {0, sent} : BumpSeq(s)
    /\ UNCHANGED <<loop, session, strikes, cur, wire, cursor, beats, server,
                   stopping, handled>>

\* handle: the server acknowledges a heartbeat, or asks for one (the write may
\* fail; a written one changes nothing here).
Ack ==
    /\ Reading
    /\ acked' = TRUE
    /\ UNCHANGED <<loop, client, wire, peer, cursor, beats, hb, server, stopping, history>>

HeartbeatRequestFails ==
    /\ Reading
    /\ EndRound("other")
    /\ UNCHANGED server

\* handle and classify: the server ends the connection.  op 7 keeps the
\* session; op 9 and codes 4004, 4006, 4007 drop it; 4914 and 4915 stop the
\* client; any other code is a network failure.
ServerReconnect ==
    /\ Reading
    /\ EndRound("reconnect")
    /\ UNCHANGED server

ServerInvalidates ==
    /\ Reading
    /\ EndRound("invalid")
    /\ held' = NoSession
    /\ UNCHANGED sent

ServerBans ==
    /\ Reading
    /\ EndRound("stop")
    /\ UNCHANGED server

\* serve, handshake: a read or write fails because the network or a local
\* kill ended the connection.
LineFails ==
    /\ loop \in {"handshake", "serve"}
    /\ wire \in {"open", "mute"}
    /\ EndRound("other")
    /\ UNCHANGED server

ReadCut ==
    /\ loop \in {"handshake", "serve"}
    /\ wire = "cut"
    /\ EndRound("other")
    /\ UNCHANGED server

\* The read deadline of 90 seconds, set before every read.  A server that
\* acknowledges heartbeats keeps it from expiring.
ServerOwes == wire = "mute" \/ peer # "ready"

ReadTimeoutServeOnlyMutant ==
    /\ loop = "serve"
    /\ wire \in {"open", "mute"}
    /\ ServerOwes \/ ~hb
    /\ EndRound("other")
    /\ UNCHANGED server

ReadTimeout ==
    /\ loop \in {"handshake", "serve"}
    /\ wire \in {"open", "mute"}
    /\ ServerOwes \/ ~hb
    /\ EndRound("other")
    /\ UNCHANGED server

\* breathe (after countStrike or in waitForSlot): the delay or the stop signal.
BreatheDeafMutant ==
    /\ loop = "breathe"
    /\ loop' = "token"
    /\ ready' = FALSE
    /\ UNCHANGED <<session, seq, online, strikes, cur, link, server, stopping, history>>

Breathe ==
    /\ loop = "breathe"
    /\ loop' = IF stopCh THEN "exited" ELSE "top"
    /\ UNCHANGED <<client, link, server, stopping, history>>

-----------------------------------------------------------------------------
\* pump: one tick.  No acknowledgement since the last one: kill; otherwise
\* write a heartbeat, and kill if that fails.
Beat ==
    /\ hb /\ wire \in {"open", "mute"}
    /\ \/ /\ acked
          /\ acked' = FALSE
          /\ UNCHANGED <<hb, wire>>
       \/ /\ acked' = FALSE
          /\ hb' = FALSE
          /\ wire' = "cut"
    /\ UNCHANGED <<loop, client, peer, cursor, beats, server, stopping, history>>

\* Stop: close the channel and cancel; read cur; kill what was read; wait.
StopSignal ==
    /\ stopper = "idle"
    /\ stopCh' = TRUE
    /\ stopper' = "grab"
    /\ UNCHANGED <<loop, client, link, server, grabbed, history>>

StopGrab ==
    /\ stopper = "grab"
    /\ grabbed' = cur
    /\ stopper' = "kill"
    /\ UNCHANGED <<loop, client, link, server, stopCh, history>>

StopKill ==
    /\ stopper = "kill"
    /\ wire' = IF grabbed = "this" THEN "cut" ELSE wire
    /\ stopper' = "wait"
    /\ UNCHANGED <<loop, client, peer, cursor, beats, hb, acked, server, stopCh,
                   grabbed, history>>

StopReturn ==
    /\ stopper = "wait"
    /\ loop = "exited"
    /\ stopper' = "returned"
    /\ UNCHANGED <<loop, client, link, server, stopCh, grabbed, history>>

-----------------------------------------------------------------------------
\* The server: numbers an event, forgets a session that no healthy connection
\* uses, or stops answering on this connection.
Emit ==
    /\ held # NoSession
    /\ sent < MaxSeq
    /\ sent' = sent + 1
    /\ UNCHANGED <<loop, client, link, held, stopping, history>>

Forget ==
    /\ held # NoSession
    /\ ~(wire = "open" /\ peer = "ready")
    /\ held' = NoSession
    /\ UNCHANGED <<loop, client, link, sent, stopping, history>>

GoMute ==
    /\ wire = "open"
    /\ wire' = "mute"
    /\ UNCHANGED <<loop, client, peer, cursor, beats, hb, acked, server, stopping, history>>

-----------------------------------------------------------------------------
LoopStep == OpenRound \/ GetToken \/ Dial \/ Adopt \/ Publish \/ ReadCut \/ Breathe

Receive ==
    \/ Hello \/ (\E s \in Sessions : Ready(s)) \/ Event \/ Resumed \/ Ack
    \/ HeartbeatRequestFails \/ ServerReconnect \/ ServerInvalidates \/ ServerBans

StopStep == StopGrab \/ StopKill \/ StopReturn

Environment == Emit \/ Forget \/ GoMute \/ LineFails

Next == LoopStep \/ Receive \/ ReadTimeout \/ Beat \/ StopSignal \/ StopStep \/ Environment

\* The loop, Stop and the timers run; a deadline expires on a server that owes
\* an answer.  No frame is promised, and Stop need not be called.
Fairness ==
    /\ WF_vars(LoopStep)
    /\ WF_vars(StopStep)
    /\ WF_vars(ReadTimeout /\ ServerOwes)
    /\ WF_vars(Beat)

Spec == Init /\ [][Next]_vars

FairSpec == Spec /\ Fairness

-----------------------------------------------------------------------------
Flags ==
    /\ online \in BOOLEAN /\ ready \in BOOLEAN /\ stopCh \in BOOLEAN
    /\ beats \in BOOLEAN /\ hb \in BOOLEAN /\ acked \in BOOLEAN

\* The types of the state; the strike count stays below its limit.
TypeOK ==
    /\ loop \in {"top", "token", "dial", "adopt", "publish", "handshake", "serve",
                 "breathe", "exited"}
    /\ session \in Sessions \cup {NoSession} /\ held \in Sessions \cup {NoSession}
    /\ seq \in 0..MaxSeq /\ sent \in 0..MaxSeq /\ cursor \in 0..MaxSeq
    /\ strikes \in 0..StrikeLimit - 1 /\ tries \in Nat
    /\ Flags
    /\ cur \in Conns /\ grabbed \in Conns
    /\ wire \in {"none", "open", "mute", "cut"}
    /\ peer \in {"none", "identify", "resume", "ready"}
    /\ stopper \in {"idle", "grab", "kill", "wait", "returned"}
    /\ handled \in [1..MaxSeq -> Nat]

\* The client never asks the server to resume from a number the session has
\* not reached: the number belongs to the session it is sent with
\* (conn.go:130-134, client.go:349-354).
SeqOfSession ==
    /\ session = NoSession => seq = 0
    /\ session # NoSession /\ session = held => seq <= sent

\* Within a session the events handed to the middleware are those up to the
\* acknowledged number, each once: none is skipped or repeated over any number
\* of reconnections (conn.go:188-192).
EventsOnce ==
    session # NoSession => \A n \in 1..MaxSeq : handled[n] = IF n <= seq THEN 1 ELSE 0

\* Through any number of reconnections, resumes and kills the client is a plain
\* stream of the session's events: the middleware sees the next event, or the
\* first of a new session, and nothing else (conn.go:170-192).
Stream == INSTANCE EventStream WITH position <- seq

StreamSpec == Stream!Spec

\* While a connection is served, the status page reports it connected only
\* after its own READY or RESUMED (client.go:70, 231).
OnlineIsReady == loop \in {"handshake", "serve"} /\ online => ready

\* A session the server does not confirm is offered at most StrikeLimit times
\* (client.go:147).
BoundedResumes == tries <= StrikeLimit

\* A session the server has forgotten does not keep the client from coming
\* back: it is given up, unless the client has stopped for good.
DeadSessionDropped ==
    \A s \in Sessions :
        (session = s /\ held # s) ~> (session # s \/ loop = "exited")

\* A silent connection is abandoned, in the handshake too (conn.go:93, 111).
MuteAbandoned == (wire = "mute") ~> (wire # "mute")

\* Stop returns, unless the connection it should have cut was dialled before
\* the signal and published after Stop had looked (client.go:167-172, 224-237).
MissedConn ==
    /\ stopper = "wait" /\ grabbed # "this"
    /\ loop \in {"publish", "handshake", "serve"} /\ wire = "open"

StopReturnsOrMisses == (stopper = "grab") ~> (stopper = "returned" \/ MissedConn)
=============================================================================
