-------------------------------- MODULE Push --------------------------------
(***************************************************************************)
(* The push plugin (plugins/push/push.go): the owner of a conversation     *)
(* allows pushes to it and sets their key by commands, and anybody may     *)
(* then send a message there over HTTP who knows the key.  The store is a  *)
(* function from keys to values.  HTTPHandle is a function of what it      *)
(* finds: the store, the window of its rate limit, the time, and whether   *)
(* the client is set and its send succeeds.  A store that fails reads as   *)
(* one without the key; failing only at the second read is left out.       *)
(***************************************************************************)
EXTENDS Naturals, Functions

CONSTANTS
    RateLimitMax,       \* failed attempts answered in one window
    RateLimitWindow     \* its length

ASSUME PushAssumption == RateLimitMax \in Nat /\ RateLimitWindow \in Nat

Scopes == {"group", "private"}
Kinds == {"", "text", "markdown", "md"}

-----------------------------------------------------------------------------
EnabledKey(scope, openid) == <<"enabled", scope, openid>>
PushKey(openid) == <<openid, "push_key">>

Stored(store, key, value) == [k \in DOMAIN store \cup {key} |-> IF k = key THEN value ELSE store[k]]

\* The commands of the plugin; the key has no scope, an openid names one place.
EnablePush(store, scope, openid) == Stored(store, EnabledKey(scope, openid), TRUE)
DisablePush(store, scope, openid) == Restrict(store, DOMAIN store \ {EnabledKey(scope, openid)})
SetPushKey(store, openid, key) == IF key = "" THEN store ELSE Stored(store, PushKey(openid), key)

VerifyPushKey(store, openid, provided) ==
    /\ provided # ""
    /\ PushKey(openid) \in DOMAIN store
    /\ store[PushKey(openid)] = provided

-----------------------------------------------------------------------------
\* A window that never began is older than any other.
NoWindow == [begun |-> FALSE, start |-> 0, count |-> 0]

Counted(window, now) ==
    IF ~window.begun \/ now - window.start > RateLimitWindow
    THEN [begun |-> TRUE, start |-> now, count |-> 1]
    ELSE [window EXCEPT !.count = @ + 1]

RateLimited(window) == window.count > RateLimitMax

\* The key of a request: the header goes before the body.
Provided(request) == IF request.header # "" THEN request.header ELSE request.key

\* The answer to a request, and the window after it.  Only a wrong key counts.
HTTPHandle(request, store, window, now, api) ==
    LET wellFormed == request.scope \in Scopes /\ request.openid # "" /\ request.parses
        keyed      == VerifyPushKey(store, request.openid, Provided(request))
        allowed    == EnabledKey(request.scope, request.openid) \in DOMAIN store
        sendable   == request.content # "" /\ request.kind \in Kinds
        failed     == Counted(window, now)
    IN  [window |-> IF wellFormed /\ ~keyed THEN failed ELSE window,
         status |-> IF ~wellFormed THEN 400
                    ELSE IF ~keyed THEN (IF RateLimited(failed) THEN 429 ELSE 401)
                    ELSE IF ~allowed THEN 403
                    ELSE IF api = "unset" THEN 500
                    ELSE IF ~sendable THEN 400
                    ELSE IF api = "sends" THEN 200 ELSE 502]
=============================================================================
