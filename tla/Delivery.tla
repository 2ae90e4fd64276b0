------------------------------ MODULE Delivery ------------------------------
(***************************************************************************)
(* Sending a reply: Message.Send and MsgRef.Count of lib/message,          *)
(* sendWithRetry and the token cache of lib/qqapi/client.go, the message   *)
(* audit of lib/qqapi/upload.go and the retry loop of lib/requests.  Each  *)
(* send runs in a worker of the event pool; the verdict of an audit is an  *)
(* event that needs a worker too.                                          *)
(*                                                                         *)
(* The platform is modelled by what a post may do to it and what it may    *)
(* answer.  A post that it accepts publishes the message or puts it under  *)
(* review, and the answer to either can be lost on the way back.  A send   *)
(* posts no more once it was told of a review, so the send names its       *)
(* audit; a review it was not told of cannot be waited for, and only what  *)
(* it publishes is modelled.                                               *)
(***************************************************************************)
EXTENDS Naturals, FiniteSets

CONSTANTS
    Sends,          \* Message.Send calls of one behaviour
    Triggers,       \* the events answered; the replies to one share a MsgRef
    ReplyTo,        \* the event a send answers
    ReplyLimit,     \* the literal 5 of MsgRef.Count
    HttpTries,      \* maxRetries + 1 of a request
    BusinessTries,  \* posts of sendWithRetry: attempt < 2 allows three
    Workers,        \* workers of the event pool
    NoSend,         \* nobody holds the lock of the token
    MaxFaults       \* bound: posts lost, unanswered or deferred, verdicts
                    \* delivered again, lapses of the token

ASSUME DeliveryAssumption ==
    /\ ReplyTo \in [Sends -> Triggers]
    /\ ReplyLimit \in Nat \ {0}
    /\ HttpTries \in Nat \ {0}
    /\ BusinessTries \in Nat \ {0}
    /\ Workers \in Nat \ {0}
    /\ NoSend \notin Sends
    /\ MaxFaults \in Nat

MaxPosts == HttpTries * BusinessTries

VARIABLES
    at,        \* where a send stands
    seq,       \* msg_seq of a send, 0 before it is counted
    ref,       \* msgSeq of the MsgRef shared by the replies to an event
    attempt,   \* attempt of sendWithRetry
    tries,     \* attempts of the current request
    verdict,   \* what waitAudit got
    token,     \* whether the cached token is present and not expired
    holder,    \* the send that holds the lock of the token
    waiters,   \* keys of auditWaiter
    chan,      \* the buffered result channel of a waiter
    event,     \* where the verdict event for a send stands
    review,    \* the platform: the review a send was told of
    copies,    \* history: times the message of a send was published
    unheard,   \* history: accepted posts whose answer was lost
    fetches,   \* history: tokens fetched
    lapses,    \* history: times the token lapsed
    faults     \* the faults that MaxFaults bounds

vars == <<at, seq, ref, attempt, tries, verdict, token, holder, waiters,
          chan, event, review, copies, unheard, fetches, lapses, faults>>

tokenVars == <<token, holder, fetches, lapses>>
auditVars == <<waiters, chan, event, review>>
sendVars  == <<seq, ref, attempt, tries, verdict>>
history   == <<copies, unheard, faults>>

Returned == {"sent", "failed"}
Stages == {"idle", "count", "token", "lock", "recheck", "post", "retry", "again",
           "register", "await", "cleanup"} \cup Returned

Init ==
    /\ at = [s \in Sends |-> "idle"]
    /\ seq = [s \in Sends |-> 0]
    /\ ref = [t \in Triggers |-> 1]
    /\ attempt = [s \in Sends |-> 0]
    /\ tries = [s \in Sends |-> 0]
    /\ verdict = [s \in Sends |-> "none"]
    /\ token = FALSE
    /\ holder = NoSend
    /\ waiters = {}
    /\ chan = [a \in Sends |-> "empty"]
    /\ event = [a \in Sends |-> "none"]
    /\ review = [a \in Sends |-> "none"]
    /\ copies = [s \in Sends |-> 0]
    /\ unheard = [s \in Sends |-> 0]
    /\ fetches = 0
    /\ lapses = 0
    /\ faults = 0

GoTo(s, stage) == at' = [at EXCEPT ![s] = stage]

Active == {s \in Sends : at[s] \notin Returned \cup {"idle"}}
Resolving == {a \in Sends : event[a] = "holding"}
WorkerFree == Cardinality(Active) + Cardinality(Resolving) < Workers

Fault == faults < MaxFaults /\ faults' = faults + 1

-----------------------------------------------------------------------------
\* A handler calls Send.
Start(s) ==
    /\ at[s] = "idle"
    /\ WorkerFree
    /\ GoTo(s, "count")
    /\ UNCHANGED <<sendVars, tokenVars, auditVars, history>>

\* MsgRef.Count, under its lock.
Count(s) ==
    /\ at[s] = "count"
    /\ IF ref[ReplyTo[s]] = ReplyLimit
       THEN GoTo(s, "failed") /\ UNCHANGED <<seq, ref>>
       ELSE /\ seq' = [seq EXCEPT ![s] = ref[ReplyTo[s]]]
            /\ ref' = [ref EXCEPT ![ReplyTo[s]] = @ + 1]
            /\ GoTo(s, "token")
    /\ UNCHANGED <<attempt, tries, verdict, tokenVars, auditVars, history>>

-----------------------------------------------------------------------------
\* getAccessToken: the test under the read lock, ...
ReadToken(s) ==
    /\ at[s] = "token"
    /\ holder = NoSend
    /\ GoTo(s, IF token THEN "post" ELSE "lock")
    /\ UNCHANGED <<sendVars, tokenVars, auditVars, history>>

\* ... the write lock, ...
LockToken(s) ==
    /\ at[s] = "lock"
    /\ holder = NoSend
    /\ holder' = s
    /\ GoTo(s, "recheck")
    /\ UNCHANGED <<sendVars, token, fetches, lapses, auditVars, history>>

\* ... the second test, and the fetch, which may fail.
RecheckSkippedMutant(s) ==
    /\ at[s] = "recheck"
    /\ holder' = NoSend
    /\ \/ /\ token' = TRUE
          /\ fetches' = fetches + 1
          /\ GoTo(s, "post")
       \/ GoTo(s, "failed") /\ UNCHANGED <<token, fetches>>
    /\ UNCHANGED <<sendVars, lapses, auditVars, history>>

Recheck(s) ==
    /\ at[s] = "recheck"
    /\ holder' = NoSend
    /\ \/ /\ token
          /\ GoTo(s, "post")
          /\ UNCHANGED <<token, fetches>>
       \/ /\ ~token
          /\ token' = TRUE
          /\ fetches' = fetches + 1
          /\ GoTo(s, "post")
       \/ /\ ~token
          /\ GoTo(s, "failed")
          /\ UNCHANGED <<token, fetches>>
    /\ UNCHANGED <<sendVars, lapses, auditVars, history>>

\* The token expires, or the gateway invalidates it (InvalidateToken).
Lapse ==
    /\ token
    /\ Fault
    /\ token' = FALSE
    /\ lapses' = lapses + 1
    /\ UNCHANGED <<at, sendVars, holder, fetches, auditVars, copies, unheard>>

-----------------------------------------------------------------------------
(* One post of requests.do.  Tried(s) is what every post changes, the      *)
(* actions below are what can become of it.                                *)
Tried(s) ==
    /\ at[s] = "post"
    /\ tries' = [tries EXCEPT ![s] = @ + 1]
    /\ UNCHANGED <<seq, ref, verdict, tokenVars, waiters, chan, event>>

Publish(s) == copies' = [copies EXCEPT ![s] = @ + 1]
Submit(s)  == review' = [review EXCEPT ![s] = "pending"]

\* The platform has the message, but the answer is lost or a 408, 429 or 5xx
\* comes instead.  It publishes the message, unless a review rejects it.
AnswerLost(s) ==
    /\ Tried(s)
    /\ Fault
    /\ Publish(s) \/ UNCHANGED copies
    /\ unheard' = [unheard EXCEPT ![s] = @ + 1]
    /\ GoTo(s, "retry")
    /\ UNCHANGED <<attempt, review>>

\* The platform never gets it or is too busy for it.
PostLost(s) ==
    /\ Tried(s)
    /\ Fault
    /\ GoTo(s, "retry")
    /\ UNCHANGED <<attempt, review, copies, unheard>>

\* Another refusal of the HTTP layer, or a business code that is not in
\* RetryWhen.
PostRefused(s) ==
    /\ Tried(s)
    /\ GoTo(s, "failed")
    /\ UNCHANGED <<attempt, review, history>>

\* A business code in RetryWhen.
PostDeferred(s) ==
    /\ Tried(s)
    /\ Fault
    /\ GoTo(s, "again")
    /\ UNCHANGED <<attempt, review, copies, unheard>>

\* 2xx with an ID, or with an answer that names no error.
PostPublished(s) ==
    /\ Tried(s)
    /\ Publish(s)
    /\ GoTo(s, "sent")
    /\ UNCHANGED <<attempt, review, unheard, faults>>

\* 304023: the message is under review.
PostAuditedRetryMutant(s) ==
    /\ Tried(s)
    /\ Submit(s)
    /\ GoTo(s, "again")
    /\ UNCHANGED <<attempt, history>>

PostAudited(s) ==
    /\ Tried(s)
    /\ Submit(s)
    /\ GoTo(s, "register")
    /\ UNCHANGED <<attempt, history>>

\* The loop of do: a failed attempt is repeated until maxAttempts.
RetryOnceMoreMutant(s) ==
    /\ at[s] = "retry"
    /\ GoTo(s, IF tries[s] <= HttpTries THEN "post" ELSE "failed")
    /\ UNCHANGED <<sendVars, tokenVars, auditVars, history>>

Retry(s) ==
    /\ at[s] = "retry"
    /\ GoTo(s, IF tries[s] < HttpTries THEN "post" ELSE "failed")
    /\ UNCHANGED <<sendVars, tokenVars, auditVars, history>>

\* The loop of sendWithRetry: a new request with a retry count of its own.
Again(s) ==
    /\ at[s] = "again"
    /\ IF attempt[s] + 1 < BusinessTries
       THEN /\ attempt' = [attempt EXCEPT ![s] = @ + 1]
            /\ tries' = [tries EXCEPT ![s] = 0]
            /\ GoTo(s, "post")
       ELSE GoTo(s, "failed") /\ UNCHANGED <<attempt, tries>>
    /\ UNCHANGED <<seq, ref, verdict, tokenVars, auditVars, history>>

-----------------------------------------------------------------------------
\* waitAudit: the entry is made, ...
Register(s) ==
    /\ at[s] = "register"
    /\ waiters' = waiters \cup {s}
    /\ GoTo(s, "await")
    /\ UNCHANGED <<sendVars, tokenVars, chan, event, review, history>>

\* ... the verdict is received, or thirty seconds pass, ...
HearVerdict(s) ==
    /\ at[s] = "await"
    /\ chan[s] # "empty"
    /\ verdict' = [verdict EXCEPT ![s] = chan[s]]
    /\ chan' = [chan EXCEPT ![s] = "empty"]
    /\ GoTo(s, "cleanup")
    /\ UNCHANGED <<seq, ref, attempt, tries, tokenVars, waiters, event, review, history>>

AuditTimeout(s) ==
    /\ at[s] = "await"
    /\ verdict' = [verdict EXCEPT ![s] = "timeout"]
    /\ GoTo(s, "cleanup")
    /\ UNCHANGED <<seq, ref, attempt, tries, tokenVars, auditVars, history>>

\* ... and the deferred function removes the entry.  Only an approved message
\* counts as sent.
CleanupNeverMutant(s) ==
    /\ at[s] = "cleanup"
    /\ GoTo(s, IF verdict[s] = "approved" THEN "sent" ELSE "failed")
    /\ UNCHANGED <<sendVars, tokenVars, auditVars, history>>

Cleanup(s) ==
    /\ at[s] = "cleanup"
    /\ waiters' = waiters \ {s}
    /\ GoTo(s, IF verdict[s] = "approved" THEN "sent" ELSE "failed")
    /\ UNCHANGED <<sendVars, tokenVars, chan, event, review, history>>

-----------------------------------------------------------------------------
\* The platform decides, publishes what it approves and sends the event,
\* MESSAGE_AUDIT_PASS or MESSAGE_AUDIT_REJECT.
Decide(a) ==
    /\ review[a] = "pending"
    /\ event' = [event EXCEPT ![a] = "queued"]
    /\ \/ /\ review' = [review EXCEPT ![a] = "approved"]
          /\ copies' = [copies EXCEPT ![a] = @ + 1]
       \/ /\ review' = [review EXCEPT ![a] = "rejected"]
          /\ UNCHANGED copies
    /\ UNCHANGED <<at, sendVars, tokenVars, waiters, chan, unheard, faults>>

\* A resumed session or a repeated webhook brings the event again.
Redeliver(a) ==
    /\ event[a] = "done"
    /\ Fault
    /\ event' = [event EXCEPT ![a] = "queued"]
    /\ UNCHANGED <<at, sendVars, tokenVars, waiters, chan, review, copies, unheard>>

\* ResolveAudit takes the waiter out of the map under the lock; a verdict
\* nobody waits for is dropped.
TakeWaiter(a) ==
    /\ event[a] = "queued"
    /\ WorkerFree
    /\ event' = [event EXCEPT ![a] = IF a \in waiters THEN "holding" ELSE "done"]
    /\ waiters' = waiters \ {a}
    /\ UNCHANGED <<at, sendVars, tokenVars, chan, review, history>>

\* The send on its channel, which has room for one result.
HandOverUnbufferedMutant(a) ==
    /\ event[a] = "holding"
    /\ chan[a] = "empty"
    /\ at[a] = "await"
    /\ chan' = [chan EXCEPT ![a] = review[a]]
    /\ event' = [event EXCEPT ![a] = "done"]
    /\ UNCHANGED <<at, sendVars, tokenVars, waiters, review, history>>

HandOver(a) ==
    /\ event[a] = "holding"
    /\ chan[a] = "empty"
    /\ chan' = [chan EXCEPT ![a] = review[a]]
    /\ event' = [event EXCEPT ![a] = "done"]
    /\ UNCHANGED <<at, sendVars, tokenVars, waiters, review, history>>

-----------------------------------------------------------------------------
Post(s) ==
    \/ AnswerLost(s) \/ PostLost(s) \/ PostRefused(s) \/ PostDeferred(s)
    \/ PostPublished(s) \/ PostAudited(s)

SendStep(s) ==
    \/ Count(s) \/ ReadToken(s) \/ LockToken(s) \/ Recheck(s)
    \/ Post(s) \/ Retry(s) \/ Again(s)
    \/ Register(s) \/ HearVerdict(s) \/ AuditTimeout(s) \/ Cleanup(s)

Next ==
    \/ \E s \in Sends : Start(s) \/ SendStep(s)
    \/ \E a \in Sends : Decide(a) \/ Redeliver(a) \/ TakeWaiter(a) \/ HandOver(a)
    \/ Lapse

Spec == Init /\ [][Next]_vars

\* The code of a send runs: requests have a timeout and so has the wait for a
\* verdict, and mutexes are granted.  The platform need not decide anything.
Fairness ==
    /\ \A s \in Sends : WF_vars(SendStep(s)) /\ SF_vars(ReadToken(s)) /\ SF_vars(LockToken(s))
    /\ \A a \in Sends : WF_vars(TakeWaiter(a)) /\ WF_vars(HandOver(a))

FairSpec == Spec /\ Fairness

-----------------------------------------------------------------------------
(* Properties *)

\* The types of the state, and the limits of both retry loops: a send posts at
\* most BusinessTries times HttpTries times (three times four in the code).
TypeOK ==
    /\ at \in [Sends -> Stages]
    /\ seq \in [Sends -> 0..ReplyLimit]
    /\ ref \in [Triggers -> 1..ReplyLimit]
    /\ attempt \in [Sends -> 0..BusinessTries - 1]
    /\ tries \in [Sends -> 0..HttpTries]
    /\ verdict \in [Sends -> {"none", "approved", "rejected", "timeout"}]
    /\ token \in BOOLEAN
    /\ holder \in Sends \cup {NoSend}
    /\ waiters \subseteq Sends
    /\ chan \in [Sends -> {"empty", "approved", "rejected"}]
    /\ event \in [Sends -> {"none", "queued", "holding", "done"}]
    /\ review \in [Sends -> {"none", "pending", "approved", "rejected"}]
    /\ copies \in [Sends -> 0..MaxPosts]
    /\ unheard \in [Sends -> 0..MaxPosts]
    /\ fetches \in Nat /\ lapses \in 0..MaxFaults /\ faults \in 0..MaxFaults

\* A send that reports success was published, and a message appears twice only
\* because an answer was lost: waiting for an audit, its verdict and the retry
\* of a business code never report what was not published and never repeat what
\* was; client.go:193-226 with upload.go:43-51.
SentOnce ==
    \A s \in Sends : /\ at[s] = "sent" => copies[s] > 0
                     /\ copies[s] <= 1 + unheard[s]

\* auditWaiter holds entries of waiting sends only, none of a send that
\* returned, and a verdict in its channel is the platform's; upload.go:33-65.
NoStaleWaiter ==
    /\ \A s \in waiters : at[s] \in {"await", "cleanup"}
    /\ \A s \in Sends : chan[s] # "empty" => chan[s] = review[s]

\* The replies to one event have different numbers, below the limit;
\* ref.go:13-21.
NumbersDistinct ==
    \A s, t \in Sends : (s # t /\ ReplyTo[s] = ReplyTo[t] /\ seq[s] # 0) =>
        seq[s] # seq[t] /\ seq[s] < ReplyLimit

\* However many sends find the token missing at once, one of them fetches it:
\* there is one fetch per lapse; client.go:125-160.
OneFetchPerLapse == fetches <= 1 + lapses

\* No worker is lost, whatever the platform and the network do: every send
\* returns, and the goroutine of a verdict event ends even if the sender gave
\* up meanwhile or the verdict comes twice; client.go:180-244, upload.go:43-65.
EveryWorkerReturns ==
    /\ \A s \in Sends : at[s] # "idle" ~> at[s] \in Returned
    /\ \A a \in Sends : event[a] = "holding" ~> event[a] = "done"
=============================================================================
