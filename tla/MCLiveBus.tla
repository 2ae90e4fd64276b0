----------------------------- MODULE MCLiveBus -----------------------------
(***************************************************************************)
(* Two connections, one of which may leave while the other subscribes, or *)
(* that both find the bus idle; one change of the job list; a queue that   *)
(* the greeting fills, as eight frames fill the one of the code; and a log *)
(* channel that one entry fills.  The functions behind the bus, the ring   *)
(* of the logs and the sessions that may open a stream, are compared with  *)
(* what they should compute.                                               *)
(***************************************************************************)
EXTENDS LiveBus, Session

CONSTANTS a, b, j

\* A ring of the given capacity after n entries, named by their order.
Entry(i)     == [id |-> i, level |-> IF i % 2 = 0 THEN "warn" ELSE "debug",
                 scope |-> IF i % 3 = 0 THEN "gateway" ELSE "system", texts |-> {}]
Ring(cap, n) == FoldLeft(RingPush, NewRing(cap), [i \in 1..n |-> Entry(i)])

Unfiltered  == [minLevel |-> "", scope |-> "", text |-> ""]
Filters     == {Unfiltered, [Unfiltered EXCEPT !.minLevel = "info"],
                [Unfiltered EXCEPT !.scope = "gateway"], [Unfiltered EXCEPT !.minLevel = "loud"],
                [Unfiltered EXCEPT !.text = "timeout"]}

Smaller(m, n) == IF m < n THEN m ELSE n

\* The newest entries from number n down, k of them, of which the filter admits.
Newest(n, k, f) == SelectSeq([i \in 1..k |-> Entry(n + 1 - i)], LAMBDA e : Matches(f, e))

\* A snapshot is what the filter admits of the newest entries the ring can hold,
\* the newest first (stream.go:41, 136).
ASSUME SnapshotIsNewest ==
    \A cap \in 1..4, n \in 0..9, f \in Filters : \A limit \in 0..5 :
        RingSnapshot(Ring(cap, n), limit, f) =
            LET held == Smaller(cap, n)
            IN  Newest(n, IF limit = 0 THEN held ELSE Smaller(limit, held), f)

\* A resized ring keeps the newest entries (stream.go:90) except when it shrinks
\* and was never overwritten: then it keeps the oldest.
ASSUME ResizedKeepsNewest ==
    \A cap \in 1..4, n \in 0..9, to \in 1..5 :
        LET kept == Smaller(to, Smaller(cap, n))
        IN  RingSnapshot(RingResized(Ring(cap, n), to), 0, Unfiltered) =
                Newest(IF n <= cap THEN kept ELSE n, kept, Unfiltered)

\* What is written to a resized ring replaces its oldest entries.
ASSUME ResizedGoesOn ==
    \A cap \in 1..3, n \in 4..7, to \in 1..4 :
        RingSnapshot(RingPush(RingResized(Ring(cap, n), to), Entry(n + 1)), 0, Unfiltered) =
            Newest(n + 1, Smaller(to, cap + 1), Unfiltered)

-----------------------------------------------------------------------------
\* One browser logs in, out, asks, and the password changes, at times 1, 2, ...
Passwords == {"p", "q"}

Doings == [do : {"login"}, remember : BOOLEAN, with : {"p"}]
              \cup [do : {"logout", "ask", "wait"}, remember : {FALSE}, with : {"p"}]
              \cup [do : {"change"}, remember : {FALSE}, with : Passwords \cup {Unprotected}]

After(doings) ==
    LET state[k \in 0..Len(doings)] ==
            IF k = 0 THEN [sessions |-> <<>>, password |-> "p", now |-> 0]
            ELSE LET was == state[k - 1]
                     d == doings[k]
                     now == was.now + (IF d.do = "wait" THEN 2 ELSE 1)
                 IN  [now |-> now,
                      password |-> IF d.do = "change" THEN d.with ELSE was.password,
                      sessions |-> CASE d.do = "login"  -> Login(was.sessions, "t", was.password, d.with, d.remember, now)
                                     [] d.do = "logout" -> Delete(was.sessions, "t")
                                     [] d.do = "ask"    -> RequireAuth(was.sessions, "t", was.password, now)
                                     [] OTHER           -> was.sessions]
    IN  state

\* A session admits exactly while the password is the one it was opened with,
\* it was not closed since and its time is not over.  Asking decides nothing,
\* though it removes sessions; a password that is changed back admits the
\* sessions of its first time again ("修改后现有会话立即失效", admin/config.go:38).
ASSUME SessionAdmits ==
    \A n \in 0..4 : \A doings \in [1..n -> Doings] :
        LET state  == After(doings)
            end    == state[n]
            opened(k) == doings[k].do = "login" /\ state[k].password = doings[k].with
        IN  AuthStatus(end.sessions, "t", end.password, FALSE, end.now) = 200 <=>
                \E k \in 1..n :
                    /\ opened(k) /\ end.password = doings[k].with
                    /\ \A later \in k + 1..n : doings[later].do # "logout" /\ ~opened(later)
                    /\ end.now - state[k].now <= IF doings[k].remember THEN TTLRemember ELSE TTLShort

\* Without a password nobody logs in, and only the own machine is admitted.
ASSUME UnprotectedIsLocal ==
    \A loopback \in BOOLEAN, n \in 0..2 : \A doings \in [1..n -> Doings] :
        LET end == After(doings)[n]
            status == AuthStatus(end.sessions, "t", Unprotected, loopback, end.now)
        IN  status = LoginStatus(Unprotected, "p", loopback) /\ status = IF loopback THEN 200 ELSE 503
=============================================================================
