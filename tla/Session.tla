------------------------------- MODULE Session -------------------------------
(***************************************************************************)
(* Who may use the console: the login sessions of lib/admin/session.go and *)
(* requireAuth of lib/admin/admin.go.  The sessions are a function from    *)
(* tokens, each step of it one section under the mutex.  A token is drawn  *)
(* at random and taken to be new; the digest of a password stands for it.  *)
(***************************************************************************)
EXTENDS Naturals, Functions

CONSTANTS
    TTLRemember, TTLShort,  \* how long a session lasts
    Unprotected             \* the empty password: only the own machine may enter

ASSUME SessionAssumption == TTLRemember \in Nat /\ TTLShort \in Nat

Create(sessions, token, password, remember, now) ==
    [t \in DOMAIN sessions \cup {token} |->
        IF t = token
        THEN [password |-> password, expire |-> now + (IF remember THEN TTLRemember ELSE TTLShort)]
        ELSE sessions[t]]

Delete(sessions, token) == Restrict(sessions, DOMAIN sessions \ {token})

Expired(sessions, token, now) == token \in DOMAIN sessions /\ now > sessions[token].expire

\* valid removes the session it finds expired, and no other.
Swept(sessions, token, now) ==
    IF Expired(sessions, token, now) THEN Delete(sessions, token) ELSE sessions

Valid(sessions, token, password, now) ==
    /\ token \in DOMAIN Swept(sessions, token, now)
    /\ sessions[token].password = password

-----------------------------------------------------------------------------
\* handleLogin and handleLogout; login without a password opens no session.
LoginStatus(password, given, loopback) ==
    CASE password = Unprotected -> IF loopback THEN 200 ELSE 503
      [] OTHER -> IF given = password THEN 200 ELSE 401

Login(sessions, token, password, given, remember, now) ==
    IF password = Unprotected \/ given # password THEN sessions
    ELSE Create(sessions, token, password, remember, now)

\* requireAuth: the status it answers with, and what the sessions are then.
AuthStatus(sessions, token, password, loopback, now) ==
    IF password = Unprotected THEN IF loopback THEN 200 ELSE 503
    ELSE IF Valid(sessions, token, password, now) THEN 200 ELSE 401

RequireAuth(sessions, token, password, now) ==
    IF password = Unprotected THEN sessions ELSE Swept(sessions, token, now)
=============================================================================
