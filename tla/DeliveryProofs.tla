--------------------------- MODULE DeliveryProofs ---------------------------
(***************************************************************************)
(* For any number of sends, triggers, workers and attempts: success means  *)
(* published, only a lost answer repeats a message, no waiter outlives its *)
(* send, replies to one event have different numbers, a send ends within a *)
(* number of steps, and its failures have their reasons.  And for the      *)
(* other users of the client: the chunks of an upload cover its data, and  *)
(* wrong keys of pushes are limited.                                       *)
(***************************************************************************)
EXTENDS Delivery, Upload, Push, Integers, TLAPS

\* The stages in which a send has posted nothing the platform told it of.
Posting == {"idle", "count", "token", "lock", "recheck", "post", "retry", "again"}

Types ==
    /\ at \in [Sends -> Stages]
    /\ seq \in [Sends -> Nat]
    /\ ref \in [Triggers -> Nat]
    /\ verdict \in [Sends -> {"none", "approved", "rejected", "timeout"}]
    /\ waiters \subseteq Sends
    /\ chan \in [Sends -> {"empty", "approved", "rejected"}]
    /\ event \in [Sends -> {"none", "queued", "holding", "done"}]
    /\ review \in [Sends -> {"none", "pending", "approved", "rejected"}]
    /\ copies \in [Sends -> Nat]
    /\ unheard \in [Sends -> Nat]

\* A verdict is the platform's decision at every point of its way: in the
\* event, in the channel, in the hands of the send.
Verdicts(s) ==
    /\ event[s] # "none" => review[s] \in {"approved", "rejected"}
    /\ chan[s] # "empty" => chan[s] = review[s] /\ event[s] # "none"
    /\ verdict[s] = "approved" => review[s] = "approved"

\* How often a message was published, by what the platform still may do.
Copies(s) ==
    /\ copies[s] <= 1 + unheard[s]
    /\ at[s] \in Posting => review[s] = "none" /\ copies[s] <= unheard[s]
    /\ review[s] = "pending" => copies[s] <= unheard[s]
    /\ review[s] = "approved" => copies[s] > 0
    /\ at[s] = "sent" => copies[s] > 0

Waiting(s) == s \in waiters => at[s] \in {"await", "cleanup"}

\* MsgRef hands out growing numbers, each once.
Numbers ==
    /\ \A t \in Triggers : ref[t] <= ReplyLimit /\ ref[t] >= 1
    /\ \A s \in Sends : at[s] \in {"idle", "count"} => seq[s] = 0
    /\ \A s \in Sends : seq[s] < ref[ReplyTo[s]]
    /\ \A s, t \in Sends : (s # t /\ ReplyTo[s] = ReplyTo[t] /\ seq[s] # 0) => seq[s] # seq[t]

Inv ==
    /\ Types
    /\ \A s \in Sends : Verdicts(s) /\ Copies(s) /\ Waiting(s)
    /\ Numbers

-----------------------------------------------------------------------------
LEMMA InvInit == Init => Inv
  BY DeliveryAssumption
  DEF Init, Inv, Types, Stages, Returned, Verdicts, Copies, Posting, Waiting, Numbers

\* What a step of send s leaves alone when it only moves s.
LEMMA MoveStep ==
    ASSUME Inv, NEW s \in Sends, NEW stage \in Stages \ {"idle", "count", "sent"},
           GoTo(s, stage), at[s] \notin {"await", "cleanup"},
           stage \in Posting => at[s] \in Posting,
           UNCHANGED <<seq, ref, verdict, auditVars, copies, unheard>>
    PROVE  Inv'
<1>1. Types'
  BY DEF Inv, Types, GoTo, auditVars
<1>2. ASSUME NEW r \in Sends PROVE Verdicts(r)' /\ Copies(r)' /\ Waiting(r)'
  BY <1>2 DEF Inv, Types, GoTo, auditVars, Verdicts, Copies, Waiting, Posting
<1>3. Numbers'
  BY DEF Inv, Types, Numbers, GoTo
<1> QED BY <1>1, <1>2, <1>3 DEF Inv

LEMMA StartStep ==
    ASSUME Inv, NEW s \in Sends, Start(s)
    PROVE  Inv'
<1> USE DEF Start, GoTo, sendVars, auditVars, history
<1>1. Types'
  BY DEF Inv, Types, Stages
<1>2. ASSUME NEW r \in Sends PROVE Verdicts(r)' /\ Copies(r)' /\ Waiting(r)'
  BY <1>2 DEF Inv, Types, Verdicts, Copies, Waiting, Posting
<1>3. Numbers'
  BY DEF Inv, Types, Numbers
<1> QED BY <1>1, <1>2, <1>3 DEF Inv

LEMMA CountStep ==
    ASSUME Inv, NEW s \in Sends, Count(s)
    PROVE  Inv'
<1> USE DEF Count, GoTo, auditVars, history
<1>0. ReplyTo \in [Sends -> Triggers] /\ ReplyLimit \in Nat
  BY DeliveryAssumption
<1>1. Types'
  BY <1>0 DEF Inv, Types, Stages, Returned
<1>2. ASSUME NEW r \in Sends PROVE Verdicts(r)' /\ Copies(r)' /\ Waiting(r)'
  BY <1>2 DEF Inv, Types, Verdicts, Copies, Waiting, Posting
<1>3. Numbers'
  <2>1. CASE ref[ReplyTo[s]] = ReplyLimit
    BY <2>1 DEF Inv, Types, Numbers
  <2>2. CASE ref[ReplyTo[s]] # ReplyLimit
    <3>1. /\ seq' = [seq EXCEPT ![s] = ref[ReplyTo[s]]]
          /\ ref' = [ref EXCEPT ![ReplyTo[s]] = @ + 1]
          /\ at' = [at EXCEPT ![s] = "token"]
      BY <2>2
    <3>2. \A t \in Triggers : ref'[t] <= ReplyLimit /\ ref'[t] >= 1 /\ ref[t] <= ref'[t]
      BY <1>0, <2>2, <3>1 DEF Inv, Types, Numbers
    <3>3. \A r \in Sends : at'[r] \in {"idle", "count"} => seq'[r] = 0
      BY <3>1 DEF Inv, Types, Numbers
    <3>4. \A r \in Sends : seq'[r] < ref'[ReplyTo[r]]
      BY <1>0, <3>1, <3>2 DEF Inv, Types, Numbers
    <3>5. ASSUME NEW r \in Sends, NEW t \in Sends, r # t, ReplyTo[r] = ReplyTo[t], seq'[r] # 0
          PROVE  seq'[r] # seq'[t]
      <4>1. CASE r = s
        BY <1>0, <3>1, <3>5, <4>1 DEF Inv, Types, Numbers
      <4>2. CASE t = s
        BY <1>0, <3>1, <3>5, <4>2 DEF Inv, Types, Numbers
      <4>3. CASE r # s /\ t # s
        BY <3>1, <3>5, <4>3 DEF Inv, Types, Numbers
      <4> QED BY <4>1, <4>2, <4>3
    <3> QED BY <3>2, <3>3, <3>4, <3>5 DEF Numbers
  <2> QED BY <2>1, <2>2
<1> QED BY <1>1, <1>2, <1>3 DEF Inv

LEMMA PostStep ==
    ASSUME Inv, NEW s \in Sends, Post(s)
    PROVE  Inv'
<1> USE DEF GoTo, Tried, Fault, Publish, Submit, tokenVars
<1>1. CASE AnswerLost(s) \/ PostPublished(s) \/ PostAudited(s)
  <2>1. at[s] = "post" /\ UNCHANGED <<seq, ref, verdict, waiters, chan, event>>
    BY <1>1 DEF AnswerLost, PostPublished, PostAudited
  <2>2. Types'
    BY <1>1, <2>1 DEF AnswerLost, PostPublished, PostAudited, history,
                      Inv, Types, Stages, Returned
  <2>3. event[s] = "none" /\ chan[s] = "empty" /\ verdict[s] # "approved"
    BY <2>1 DEF Inv, Types, Verdicts, Copies, Posting
  <2>4. ASSUME NEW r \in Sends PROVE Verdicts(r)' /\ Copies(r)' /\ Waiting(r)'
    <3>1. CASE AnswerLost(s)
      BY <2>1, <2>3, <3>1 DEF AnswerLost, Inv, Types, Verdicts, Copies, Waiting, Posting
    <3>2. CASE PostPublished(s)
      BY <2>1, <2>3, <3>2 DEF PostPublished, Inv, Types, Verdicts, Copies, Waiting, Posting
    <3>3. CASE PostAudited(s)
      BY <2>1, <2>3, <3>3 DEF PostAudited, history, Inv, Types, Verdicts, Copies, Waiting,
                              Posting
    <3> QED BY <1>1, <3>1, <3>2, <3>3
  <2>5. Numbers'
    BY <1>1, <2>1 DEF AnswerLost, PostPublished, PostAudited, Inv, Types, Numbers
  <2> QED BY <2>2, <2>4, <2>5 DEF Inv
<1>2. CASE PostLost(s) \/ PostRefused(s) \/ PostDeferred(s)
  BY <1>2, MoveStep DEF PostLost, PostRefused, PostDeferred, history, auditVars,
                        Stages, Returned, Posting
<1> QED BY <1>1, <1>2 DEF Post

LEMMA RegisterStep ==
    ASSUME Inv, NEW s \in Sends, Register(s)
    PROVE  Inv'
<1> USE DEF Register, GoTo, sendVars, history
<1>1. Types'
  BY DEF Inv, Types, Stages
<1>2. ASSUME NEW r \in Sends PROVE Verdicts(r)' /\ Copies(r)' /\ Waiting(r)'
  BY <1>2 DEF Inv, Types, Verdicts, Copies, Waiting, Posting
<1>3. Numbers'
  BY DEF Inv, Types, Numbers
<1> QED BY <1>1, <1>2, <1>3 DEF Inv

LEMMA AwaitStep ==
    ASSUME Inv, NEW s \in Sends, HearVerdict(s) \/ AuditTimeout(s)
    PROVE  Inv'
<1> USE DEF HearVerdict, AuditTimeout, GoTo, auditVars, history
<1>1. Types'
  BY DEF Inv, Types, Stages
<1>2. ASSUME NEW r \in Sends PROVE Verdicts(r)' /\ Copies(r)' /\ Waiting(r)'
  BY <1>2 DEF Inv, Types, Verdicts, Copies, Waiting, Posting
<1>3. Numbers'
  BY DEF Inv, Types, Numbers
<1> QED BY <1>1, <1>2, <1>3 DEF Inv

LEMMA CleanupStep ==
    ASSUME Inv, NEW s \in Sends, Cleanup(s)
    PROVE  Inv'
<1> USE DEF Cleanup, GoTo, sendVars, history
<1>1. Types'
  BY DEF Inv, Types, Stages, Returned
<1>2. ASSUME NEW r \in Sends PROVE Verdicts(r)' /\ Copies(r)' /\ Waiting(r)'
  BY <1>2 DEF Inv, Types, Verdicts, Copies, Waiting, Posting
<1>3. Numbers'
  BY DEF Inv, Types, Numbers
<1> QED BY <1>1, <1>2, <1>3 DEF Inv

LEMMA EventStep ==
    ASSUME Inv, NEW a \in Sends, Decide(a) \/ Redeliver(a) \/ TakeWaiter(a) \/ HandOver(a)
    PROVE  Inv'
<1> USE DEF Decide, Redeliver, TakeWaiter, HandOver, Fault, sendVars, history
<1>1. Types'
  BY DEF Inv, Types, Verdicts
<1>2. ASSUME NEW r \in Sends PROVE Verdicts(r)' /\ Copies(r)' /\ Waiting(r)'
  <2>1. CASE Decide(a)
    BY <2>1 DEF Inv, Types, Verdicts, Copies, Waiting, Posting
  <2>2. CASE Redeliver(a) \/ TakeWaiter(a) \/ HandOver(a)
    BY <2>2 DEF Inv, Types, Verdicts, Copies, Waiting, Posting
  <2> QED BY <2>1, <2>2
<1>3. Numbers'
  BY DEF Inv, Types, Numbers
<1> QED BY <1>1, <1>2, <1>3 DEF Inv

\* Every step keeps Inv.
LEMMA InvStep == Inv /\ [Next]_vars => Inv'
<1> SUFFICES ASSUME Inv, [Next]_vars PROVE Inv'
  OBVIOUS
<1>1. CASE UNCHANGED vars
  BY <1>1 DEF vars, Inv, Types, Verdicts, Copies, Waiting, Numbers
<1>2. ASSUME NEW s \in Sends, Start(s) PROVE Inv'
  BY <1>2, StartStep
<1>3. ASSUME NEW s \in Sends, SendStep(s) PROVE Inv'
  <2>1. CASE Count(s)
    BY <2>1, CountStep
  <2>2. CASE ReadToken(s) \/ LockToken(s) \/ Recheck(s)
    BY <2>2, MoveStep DEF ReadToken, LockToken, Recheck, sendVars, history, Stages,
                          Returned, Posting
  <2>3. CASE Post(s)
    BY <2>3, PostStep
  <2>4. CASE Retry(s) \/ Again(s)
    BY <2>4, MoveStep DEF Retry, Again, sendVars, history, Stages, Returned, Posting
  <2>5. CASE Register(s)
    BY <2>5, RegisterStep
  <2>6. CASE HearVerdict(s) \/ AuditTimeout(s)
    BY <2>6, AwaitStep
  <2>7. CASE Cleanup(s)
    BY <2>7, CleanupStep
  <2> QED BY <1>3, <2>1, <2>2, <2>3, <2>4, <2>5, <2>6, <2>7 DEF SendStep
<1>4. ASSUME NEW a \in Sends, Decide(a) \/ Redeliver(a) \/ TakeWaiter(a) \/ HandOver(a)
      PROVE  Inv'
  BY <1>4, EventStep
<1>5. CASE Lapse
  BY <1>5 DEF Lapse, Fault, sendVars, auditVars, Inv, Types, Verdicts, Copies, Waiting, Numbers
<1> QED BY <1>1, <1>2, <1>3, <1>4, <1>5 DEF Next

LEMMA InvAlways == Spec => []Inv
  BY InvInit, InvStep, PTL DEF Spec

\* A send that reports success was published, directly or by an audit that
\* approved it, and only a lost answer makes the code repeat a message;
\* client.go:193-226, upload.go:43-51.
THEOREM SentCorrect == Spec => []SentOnce
<1>1. Inv => SentOnce
  BY DEF Inv, Copies, Types, SentOnce
<1> QED BY <1>1, InvAlways, PTL

\* No entry of auditWaiter outlives its send; upload.go:33-65.
THEOREM WaiterCorrect == Spec => []NoStaleWaiter
<1>1. Inv => NoStaleWaiter
  BY DEF Inv, Types, Waiting, Verdicts, NoStaleWaiter
<1> QED BY <1>1, InvAlways, PTL

\* Replies to one event carry different numbers below the limit; ref.go:13-21.
THEOREM NumbersCorrect == Spec => []NumbersDistinct
<1>1. ASSUME Inv PROVE NumbersDistinct
  <2>1. ReplyTo \in [Sends -> Triggers] /\ ReplyLimit \in Nat
    BY DeliveryAssumption
  <2> QED BY <1>1, <2>1 DEF Inv, Types, Numbers, NumbersDistinct
<1> QED BY <1>1, InvAlways, PTL

-----------------------------------------------------------------------------
(* The limits of the retry loops, and the token. *)

\* How often a send has posted.
Posts(s) == attempt[s] * HttpTries + tries[s]

Before == {"idle", "count", "token", "lock", "recheck", "post"}

Tries(s) ==
    /\ at[s] \in Before => tries[s] < HttpTries
    /\ unheard[s] <= Posts(s)
    /\ copies[s] + (IF review[s] = "pending" THEN 1 ELSE 0) <= Posts(s)

\* There is a token for every fetch that no lapse has taken.
Tokens ==
    /\ token \in BOOLEAN /\ holder \in Sends \cup {NoSend}
    /\ fetches \in Nat /\ lapses \in Nat /\ faults \in 0..MaxFaults
    /\ lapses <= faults
    /\ fetches <= lapses + 1
    /\ ~token => fetches <= lapses

Limits ==
    /\ attempt \in [Sends -> 0..BusinessTries - 1]
    /\ tries \in [Sends -> 0..HttpTries]
    /\ \A s \in Sends : Tries(s)
    /\ Tokens

LEMMA ProductGrows ==
    ASSUME NEW a \in Nat, NEW b \in Nat, NEW h \in Nat, a <= b
    PROVE  a * h \in Nat /\ b * h \in Nat /\ a * h <= b * h /\ (a + 1) * h = a * h + h
<1>1. PICK d \in Nat : b = a + d
  BY b - a \in Nat
<1>2. b * h = a * h + d * h /\ d * h >= 0 /\ a * h >= 0
  BY <1>1
<1> QED BY <1>2

LEMMA LimitsInit == Init => Limits
<1> SUFFICES ASSUME Init  PROVE Limits
  OBVIOUS
<1> USE DeliveryAssumption
<1>1. \A s \in Sends : Posts(s) = 0
  BY ProductGrows DEF Init, Posts
<1>2. \A s \in Sends : Tries(s)
  BY <1>1 DEF Init, Tries, Before
<1>3. Tokens
  <2>1. token \in BOOLEAN
    BY Zenon DEF Init
  <2> QED BY <2>1 DEF Init, Tokens
<1>4. attempt \in [Sends -> 0..BusinessTries - 1] /\ tries \in [Sends -> 0..HttpTries]
  BY DEF Init
<1> QED BY <1>2, <1>3, <1>4 DEF Limits

\* A step that posts nothing and fetches nothing.
LEMMA QuietStep ==
    ASSUME Limits, Limits => Tokens',
           UNCHANGED <<attempt, tries, unheard>>,
           \A s \in Sends : /\ at'[s] \in Before => at[s] \in Before \/ tries[s] < HttpTries
                            /\ copies'[s] + (IF review'[s] = "pending" THEN 1 ELSE 0)
                                   <= copies[s] + (IF review[s] = "pending" THEN 1 ELSE 0)
                            /\ copies[s] \in Nat /\ copies'[s] \in Nat
    PROVE  Limits'
<1>1. \A s \in Sends : Posts(s) \in Nat /\ Posts(s)' = Posts(s)
  BY DeliveryAssumption, ProductGrows DEF Limits, Posts
<1>2. \A s \in Sends : Tries(s)'
  BY <1>1 DEF Limits, Tries
<1> QED BY <1>2 DEF Limits

LEMMA LimitsPost ==
    ASSUME Inv, Limits, NEW s \in Sends, Post(s)
    PROVE  Limits'
<1> USE DeliveryAssumption
<1>1. /\ at[s] = "post" /\ tries' = [tries EXCEPT ![s] = @ + 1] /\ tries[s] < HttpTries
      /\ UNCHANGED <<attempt, token, holder, fetches, lapses>>
  BY DEF Post, AnswerLost, PostLost, PostRefused, PostDeferred, PostPublished, PostAudited,
         Tried, tokenVars, Limits, Tries, Before
<1>2. /\ Posts(s) \in Nat /\ Posts(s)' = Posts(s) + 1
      /\ \A r \in Sends \ {s} : Posts(r)' = Posts(r)
  BY <1>1, ProductGrows DEF Limits, Posts
<1>3. /\ review[s] = "none" /\ copies \in [Sends -> Nat] /\ unheard \in [Sends -> Nat]
      /\ review \in [Sends -> {"none", "pending", "approved", "rejected"}] /\ at \in [Sends -> Stages]
  BY <1>1 DEF Inv, Types, Copies, Posting
<1>4. /\ \E stage \in Stages \ Before : at' = [at EXCEPT ![s] = stage]
      /\ \/ copies' = copies
         \/ copies' = [copies EXCEPT ![s] = @ + 1] /\ review' = review
      /\ unheard' = unheard \/ unheard' = [unheard EXCEPT ![s] = @ + 1]
      /\ review' = review \/ review' = [review EXCEPT ![s] = "pending"]
      /\ faults' = faults \/ (faults < MaxFaults /\ faults' = faults + 1)
  BY DEF Post, AnswerLost, PostLost, PostRefused, PostDeferred, PostPublished, PostAudited,
         GoTo, Fault, Publish, Submit, history, Stages, Returned, Before
<1>5. ASSUME NEW r \in Sends  PROVE Tries(r)'
  <2>1. CASE r = s
    BY <1>1, <1>2, <1>3, <1>4, <2>1 DEF Limits, Tries
  <2>2. CASE r # s
    BY <1>1, <1>2, <1>3, <1>4, <2>2 DEF Limits, Tries
  <2> QED BY <2>1, <2>2
<1>6. Tokens'
  BY <1>1, <1>4 DEF Limits, Tokens
<1> QED BY <1>1, <1>5, <1>6 DEF Limits

LEMMA LimitsAgain ==
    ASSUME Inv, Limits, NEW s \in Sends, Again(s)
    PROVE  Limits'
<1> USE DeliveryAssumption
<1>1. /\ at[s] = "again" /\ at \in [Sends -> Stages]
      /\ UNCHANGED <<token, holder, fetches, lapses, faults, copies, unheard, review>>
  BY DEF Again, tokenVars, auditVars, history, Inv, Types
<1>2. CASE /\ attempt[s] + 1 < BusinessTries
           /\ attempt' = [attempt EXCEPT ![s] = @ + 1]
           /\ tries' = [tries EXCEPT ![s] = 0]
           /\ GoTo(s, "post")
  <2>1. Posts(s)' >= Posts(s) /\ \A r \in Sends \ {s} : Posts(r)' = Posts(r)
    BY <1>2, ProductGrows DEF Limits, Posts
  <2>2. Posts(s) \in Nat /\ Posts(s)' \in Nat /\ copies \in [Sends -> Nat] /\ unheard \in [Sends -> Nat]
    BY <1>2, ProductGrows DEF Limits, Posts, Inv, Types
  <2>3. Tries(s)'
    <3>1. tries'[s] < HttpTries
      BY <1>2 DEF Limits
    <3>2. unheard'[s] <= Posts(s)' /\ unheard[s] \in Nat
      BY <1>1, <2>1, <2>2 DEF Limits, Tries
    <3>3. copies[s] + (IF review[s] = "pending" THEN 1 ELSE 0) <= Posts(s)'
      BY <2>1, <2>2 DEF Limits, Tries
    <3> QED BY <1>1, <3>1, <3>2, <3>3 DEF Tries
  <2>4. ASSUME NEW r \in Sends \ {s}  PROVE Tries(r)'
    BY <1>1, <1>2, <2>1 DEF Limits, Tries, GoTo
  <2>5. attempt' \in [Sends -> 0..BusinessTries - 1] /\ tries' \in [Sends -> 0..HttpTries]
    BY <1>2 DEF Limits
  <2>6. Tokens'
    BY <1>1 DEF Limits, Tokens
  <2> QED BY <2>3, <2>4, <2>5, <2>6 DEF Limits
<1>3. CASE GoTo(s, "failed") /\ UNCHANGED <<attempt, tries>>
  BY <1>1, <1>3, QuietStep DEF Limits, Tokens, GoTo, Before, Inv, Types
<1> QED BY <1>2, <1>3 DEF Again

LEMMA LimitsToken ==
    ASSUME Inv, Limits, NEW s \in Sends, ReadToken(s) \/ LockToken(s) \/ Recheck(s)
    PROVE  Limits'
<1>1. /\ UNCHANGED <<attempt, tries, unheard, copies, review, lapses, faults>>
      /\ \E stage \in Stages : at' = [at EXCEPT ![s] = stage]
      /\ at[s] \in Before
  BY DEF ReadToken, LockToken, Recheck, GoTo, sendVars, auditVars, history, tokenVars,
         Stages, Returned, Before
<1>2. ASSUME ReadToken(s) \/ LockToken(s)  PROVE Tokens'
  BY <1>1, <1>2 DEF ReadToken, LockToken, tokenVars, Limits, Tokens
<1>3. ASSUME Recheck(s)  PROVE Tokens'
  <2>1. holder' = NoSend /\ UNCHANGED <<lapses, faults>>
    BY <1>1, <1>3 DEF Recheck
  <2>2. /\ token' \in BOOLEAN
        /\ \/ (token <=> token') /\ fetches' = fetches
           \/ ~token /\ token' /\ fetches' = fetches + 1
    <3>1. token \in BOOLEAN
      BY DEF Limits, Tokens
    <3>2. \/ token' = token /\ fetches' = fetches
          \/ ~token /\ token' = TRUE /\ fetches' = fetches + 1
      BY <1>3 DEF Recheck
    <3>3. CASE token' = token /\ fetches' = fetches
      BY Zenon, <3>1, <3>3
    <3>4. CASE ~token /\ token' = TRUE /\ fetches' = fetches + 1
      BY Zenon, <3>4
    <3> QED BY <3>2, <3>3, <3>4
  <2> QED BY <2>1, <2>2 DEF Limits, Tokens
<1>4. Tokens'
  BY <1>2, <1>3
<1> QED BY <1>1, <1>4, QuietStep DEF Inv, Types

LEMMA LimitsStep == Inv /\ Limits /\ [Next]_vars => Limits'
<1> SUFFICES ASSUME Inv, Limits, [Next]_vars  PROVE Limits'
  OBVIOUS
<1> USE DeliveryAssumption
<1>1. CASE UNCHANGED vars
  BY <1>1 DEF vars, Limits, Tokens, Tries, Posts
<1>2. ASSUME NEW s \in Sends, \/ Start(s) \/ Count(s) \/ Retry(s) \/ Register(s)
                              \/ HearVerdict(s) \/ AuditTimeout(s) \/ Cleanup(s)
      PROVE  Limits'
  <2>1. /\ UNCHANGED <<attempt, tries, unheard, copies, review>>
        /\ UNCHANGED <<token, holder, fetches, lapses, faults>>
    BY <1>2 DEF Start, Count, Retry, Register, HearVerdict, AuditTimeout, Cleanup,
                sendVars, tokenVars, auditVars, history
  <2>2. /\ \E stage \in Stages : at' = [at EXCEPT ![s] = stage]
        /\ at'[s] \in Before => at[s] \in Before \/ tries[s] < HttpTries
    BY <1>2 DEF Start, Count, Retry, Register, HearVerdict, AuditTimeout, Cleanup, GoTo,
                Stages, Returned, Before, Inv, Types
  <2> QED BY <2>1, <2>2, QuietStep DEF Inv, Types, Limits, Tokens
<1>3. ASSUME NEW a \in Sends, Decide(a) \/ Redeliver(a) \/ TakeWaiter(a) \/ HandOver(a)
      PROVE  Limits'
  <2>1. UNCHANGED <<at, attempt, tries, unheard, token, holder, fetches, lapses>>
    BY <1>3 DEF Decide, Redeliver, TakeWaiter, HandOver, sendVars, tokenVars, history
  <2>2. Tokens'
    BY <1>3, <2>1 DEF Decide, Redeliver, TakeWaiter, HandOver, Fault, history, Limits, Tokens
  <2>3. \A r \in Sends : copies'[r] + (IF review'[r] = "pending" THEN 1 ELSE 0)
                             <= copies[r] + (IF review[r] = "pending" THEN 1 ELSE 0)
    BY <1>3 DEF Decide, Redeliver, TakeWaiter, HandOver, history, Inv, Types
  <2>4. copies' \in [Sends -> Nat]
    BY <1>3 DEF Decide, Redeliver, TakeWaiter, HandOver, history, Inv, Types
  <2> QED BY <2>1, <2>2, <2>3, <2>4, QuietStep DEF Inv, Types
<1>4. CASE Lapse
  <2>1. /\ token /\ token' \in BOOLEAN /\ faults < MaxFaults
        /\ faults' = faults + 1 /\ lapses' = lapses + 1 /\ UNCHANGED <<holder, fetches>>
    BY Zenon, <1>4 DEF Lapse, Fault
  <2>2. Tokens'
    BY <2>1 DEF Limits, Tokens
  <2>3. UNCHANGED <<at, attempt, tries, unheard, copies, review>>
    BY <1>4 DEF Lapse, sendVars, auditVars
  <2> QED BY <2>2, <2>3, QuietStep DEF Inv, Types
<1>5. ASSUME NEW s \in Sends, SendStep(s)  PROVE Limits'
  BY <1>2, <1>5, LimitsPost, LimitsAgain, LimitsToken DEF SendStep
<1> QED BY <1>1, <1>2, <1>3, <1>4, <1>5 DEF Next

LEMMA LimitsAlways == Spec => [](Inv /\ Limits)
  BY InvInit, InvStep, LimitsInit, LimitsStep, PTL DEF Spec

LEMMA PostsBounded ==
    ASSUME Limits, NEW s \in Sends
    PROVE  Posts(s) \in 0..MaxPosts /\ MaxPosts \in Nat
<1> USE DeliveryAssumption
<1>1. attempt[s] \in Nat /\ attempt[s] <= BusinessTries - 1 /\ tries[s] \in 0..HttpTries
  BY DEF Limits
<1>2. attempt[s] * HttpTries \in Nat /\ attempt[s] * HttpTries <= (BusinessTries - 1) * HttpTries
  BY <1>1, ProductGrows
<1>3. BusinessTries * HttpTries = (BusinessTries - 1) * HttpTries + HttpTries
  BY ProductGrows
<1>4. HttpTries * BusinessTries = BusinessTries * HttpTries /\ BusinessTries * HttpTries \in Nat
  BY ProductGrows
<1>5. (BusinessTries - 1) * HttpTries \in Nat
  BY ProductGrows
<1> QED BY <1>1, <1>2, <1>3, <1>4, <1>5 DEF Posts, MaxPosts

\* The types, and the limits of both retry loops; client.go:187-221,
\* requests.go:237-283.
THEOREM TypeCorrect == Spec => []TypeOK
<1>1. ASSUME Inv, Limits  PROVE TypeOK
  <2> USE DeliveryAssumption
  <2>1. \A s \in Sends : Posts(s) \in 0..MaxPosts /\ MaxPosts \in Nat
    BY <1>1, PostsBounded
  <2>2. copies \in [Sends -> 0..MaxPosts] /\ unheard \in [Sends -> 0..MaxPosts]
    BY <1>1, <2>1 DEF Limits, Tries, Inv, Types
  <2>3. seq \in [Sends -> 0..ReplyLimit] /\ ref \in [Triggers -> 1..ReplyLimit]
    BY <1>1 DEF Inv, Types, Numbers
  <2> QED BY <1>1, <2>2, <2>3 DEF TypeOK, Inv, Types, Limits, Tokens
<1> QED BY <1>1, LimitsAlways, PTL

\* However many sends find the token missing at once, one of them fetches it;
\* client.go:125-160.
THEOREM FetchesCorrect == Spec => []OneFetchPerLapse
<1>1. Limits => OneFetchPerLapse
  BY DEF Limits, Tokens, OneFetchPerLapse
<1> QED BY <1>1, LimitsAlways, PTL
-----------------------------------------------------------------------------
(* Every send comes to an end. *)

\* What is left of a send besides its posts.
Ahead(s) ==
    CASE at[s] = "idle" -> 11     [] at[s] = "count" -> 10  [] at[s] = "token" -> 8
      [] at[s] = "lock" -> 7      [] at[s] = "recheck" -> 6 [] at[s] = "post" -> 5
      [] at[s] = "retry" -> 6     [] at[s] = "again" -> 6   [] at[s] = "register" -> 3
      [] at[s] = "await" -> 2     [] at[s] = "cleanup" -> 1 [] OTHER -> 0

StepsLeft(s) == 2 * (MaxPosts - Posts(s)) + Ahead(s)

\* What a send that is not moved keeps, and what one that is moved loses.
LEMMA OthersKeep ==
    ASSUME Inv, Limits, NEW s \in Sends,
           at'[s] = at[s], attempt'[s] = attempt[s], tries'[s] = tries[s]
    PROVE  StepsLeft(s)' = StepsLeft(s)
BY DEF StepsLeft, Posts, Ahead, MaxPosts

LEMMA MoveLowers ==
    ASSUME Inv, Limits, Limits', NEW s \in Sends, SendStep(s)
    PROVE  StepsLeft(s)' < StepsLeft(s)
<1> USE DeliveryAssumption
<1>1. at \in [Sends -> Stages] /\ attempt \in [Sends -> Nat] /\ tries \in [Sends -> 0..HttpTries]
  BY DEF Inv, Types, Limits
<1>2. Posts(s) \in 0..MaxPosts /\ Posts(s)' \in 0..MaxPosts /\ MaxPosts \in Nat /\ MaxPosts' = MaxPosts
  <2>1. Posts(s) \in 0..MaxPosts /\ MaxPosts \in Nat
    BY PostsBounded
  <2>2. (Posts(s) \in 0..MaxPosts)'
    BY PostsBounded, PTL
  <2> QED BY <2>1, <2>2 DEF MaxPosts
<1>3. CASE Post(s)
  <2>1. /\ at[s] = "post" /\ attempt' = attempt /\ tries' = [tries EXCEPT ![s] = @ + 1]
        /\ \E stage \in {"retry", "failed", "again", "sent", "register"} :
               at' = [at EXCEPT ![s] = stage]
    BY <1>3 DEF Post, AnswerLost, PostLost, PostRefused, PostDeferred, PostPublished,
                PostAudited, Tried, GoTo, history
  <2>2. Posts(s)' = Posts(s) + 1
    <3>1. attempt[s] * HttpTries \in Nat
      BY <1>1, ProductGrows
    <3> QED BY <1>1, <2>1, <3>1 DEF Posts
  <2>3. Ahead(s) = 5 /\ Ahead(s)' \in 0..6
    BY <1>1, <2>1 DEF Ahead
  <2> QED BY <1>2, <2>2, <2>3 DEF StepsLeft
<1>4. CASE Again(s)
  <2>1. at[s] = "again" /\ Ahead(s) = 6
    BY <1>4 DEF Again, Ahead
  <2>2. CASE /\ attempt' = [attempt EXCEPT ![s] = @ + 1]
             /\ tries' = [tries EXCEPT ![s] = 0]
             /\ GoTo(s, "post")
    <3>1. Posts(s)' >= Posts(s)
      BY <1>1, <2>2, ProductGrows DEF Posts
    <3>2. Ahead(s)' = 5
      BY <1>1, <2>2 DEF Ahead, GoTo
    <3> QED BY <1>2, <2>1, <3>1, <3>2 DEF StepsLeft
  <2>3. CASE GoTo(s, "failed") /\ UNCHANGED <<attempt, tries>>
    <3>1. Posts(s)' = Posts(s) /\ Ahead(s)' = 0
      BY <1>1, <2>3 DEF Posts, Ahead, GoTo
    <3> QED BY <1>2, <2>1, <3>1 DEF StepsLeft
  <2> QED BY <1>4, <2>2, <2>3 DEF Again
<1>5. CASE \/ Count(s) \/ ReadToken(s) \/ LockToken(s) \/ Recheck(s) \/ Retry(s) \/ Register(s)
           \/ HearVerdict(s) \/ AuditTimeout(s) \/ Cleanup(s)
  <2>1. UNCHANGED <<attempt, tries>>
    BY <1>5 DEF Count, ReadToken, LockToken, Recheck, Retry, Register, HearVerdict, AuditTimeout,
                Cleanup, sendVars
  <2>2. Posts(s)' = Posts(s)
    BY <2>1 DEF Posts
  <2>3. Ahead(s)' < Ahead(s) /\ Ahead(s) \in 0..11 /\ Ahead(s)' \in 0..11
    BY <1>1, <1>5 DEF Count, ReadToken, LockToken, Recheck, Retry, Register, HearVerdict,
                      AuditTimeout, Cleanup, GoTo, Ahead
  <2> QED BY <1>2, <2>2, <2>3 DEF StepsLeft
<1> QED BY <1>3, <1>4, <1>5 DEF SendStep

\* Whatever the platform answers and however often: a step lowers StepsLeft of
\* the send it moves, and no step of another send, of an event or of the
\* platform gives a send more to do.  So a send that was started takes at most
\* 2 * MaxPosts + 10 steps, and what EveryWorkerReturns still needs of the
\* schedule is that each is taken; client.go:187-221, requests.go:237-283.
SendsConverge ==
    [][\A s \in Sends : /\ StepsLeft(s) \in 0..(2 * MaxPosts + 11)
                        /\ \/ Start(s) \/ SendStep(s)
                           \/ UNCHANGED <<at[s], attempt[s], tries[s]>>
                        /\ StepsLeft(s)' <= StepsLeft(s)
                        /\ Start(s) \/ SendStep(s) => StepsLeft(s)' < StepsLeft(s)]_vars

\* A send ends within a number of steps that its limits give: nothing that the
\* platform or another send does prolongs it; client.go:187-221.
THEOREM SendsConvergeCorrect == Spec => SendsConverge
<1> DEFINE Step ==
        \A s \in Sends : /\ StepsLeft(s) \in 0..(2 * MaxPosts + 11)
                         /\ \/ Start(s) \/ SendStep(s)
                            \/ UNCHANGED <<at[s], attempt[s], tries[s]>>
                         /\ StepsLeft(s)' <= StepsLeft(s)
                         /\ Start(s) \/ SendStep(s) => StepsLeft(s)' < StepsLeft(s)
<1>1. ASSUME Inv, Limits, [Next]_vars  PROVE Step
  <2>0. Limits'
    BY <1>1, LimitsStep
  <2> SUFFICES ASSUME NEW s \in Sends
               PROVE  /\ StepsLeft(s) \in 0..(2 * MaxPosts + 11)
                      /\ \/ Start(s) \/ SendStep(s)
                         \/ UNCHANGED <<at[s], attempt[s], tries[s]>>
                      /\ StepsLeft(s)' <= StepsLeft(s)
                      /\ Start(s) \/ SendStep(s) => StepsLeft(s)' < StepsLeft(s)
    BY Zenon
  <2>1. StepsLeft(s) \in 0..(2 * MaxPosts + 11) /\ MaxPosts \in Nat
    <3>1. Ahead(s) \in 0..11
      BY DEF Ahead
    <3> QED BY <1>1, <3>1, PostsBounded DEF StepsLeft
  <2>2. ASSUME Start(s)  PROVE StepsLeft(s)' < StepsLeft(s)
    <3>1. Ahead(s) = 11 /\ Ahead(s)' = 10 /\ Posts(s)' = Posts(s) /\ MaxPosts' = MaxPosts
      BY <1>1, <2>2 DEF Start, GoTo, sendVars, Ahead, Posts, Inv, Types, MaxPosts
    <3>2. Posts(s) \in 0..MaxPosts
      BY <1>1, PostsBounded
    <3> QED BY <2>1, <3>1, <3>2 DEF StepsLeft
  <2>3. ASSUME SendStep(s)  PROVE StepsLeft(s)' < StepsLeft(s)
    BY <1>1, <2>0, <2>3, MoveLowers
  <2>4. CASE UNCHANGED <<at[s], attempt[s], tries[s]>>
    <3>1. StepsLeft(s)' = StepsLeft(s)
      BY <1>1, <2>4, OthersKeep
    <3> QED BY <2>1, <2>2, <2>3, <2>4, <3>1
  <2>5. Start(s) \/ SendStep(s) \/ UNCHANGED <<at[s], attempt[s], tries[s]>>
    <3>1. ASSUME NEW r \in Sends, Start(r) \/ SendStep(r), r # s
          PROVE  UNCHANGED <<at[s], attempt[s], tries[s]>>
      <4>1. /\ \E stage \in Stages : at' = [at EXCEPT ![r] = stage]
            /\ \/ UNCHANGED <<attempt, tries>>
               \/ UNCHANGED attempt /\ tries' = [tries EXCEPT ![r] = @ + 1]
               \/ attempt' = [attempt EXCEPT ![r] = @ + 1] /\ tries' = [tries EXCEPT ![r] = 0]
        BY <3>1 DEF Start, SendStep, Count, ReadToken, LockToken, Recheck, Post, AnswerLost,
                    PostLost, PostRefused, PostDeferred, PostPublished, PostAudited, Tried,
                    Retry, Again, Register, HearVerdict, AuditTimeout, Cleanup, GoTo, sendVars,
                    history, Stages, Returned
      <4> QED BY <1>1, <3>1, <4>1 DEF Inv, Types, Limits
    <3>2. ASSUME NEW a \in Sends, Decide(a) \/ Redeliver(a) \/ TakeWaiter(a) \/ HandOver(a)
          PROVE  UNCHANGED <<at, attempt, tries>>
      BY <3>2 DEF Decide, Redeliver, TakeWaiter, HandOver, sendVars
    <3>3. Lapse \/ UNCHANGED vars => UNCHANGED <<at, attempt, tries>>
      BY DEF Lapse, vars, sendVars
    <3> QED BY <1>1, <3>1, <3>2, <3>3 DEF Next
  <2>6. CASE Start(s) \/ SendStep(s)
    <3>1. StepsLeft(s)' < StepsLeft(s)
      BY <2>2, <2>3, <2>6
    <3>2. Posts(s)' \in Int /\ MaxPosts' \in Int
      <4>1. (Posts(s) \in 0..MaxPosts /\ MaxPosts \in Nat)'
        BY <2>0, PostsBounded, PTL
      <4> QED BY <4>1
    <3>3. StepsLeft(s)' \in Int
      BY <3>2 DEF StepsLeft, Ahead
    <3> QED BY <2>1, <2>6, <3>1, <3>3
  <2> QED BY <2>4, <2>5, <2>6
<1> HIDE DEF Step
<1>2. Inv /\ Limits /\ [Next]_vars => Step
  BY <1>1
<1>3. [][Step]_vars => SendsConverge
  BY PTL DEF SendsConverge, Step
<1> QED BY <1>2, <1>3, LimitsAlways, PTL DEF Spec
-----------------------------------------------------------------------------
(* The way of a verdict, and what a send that reports failure means. *)

Unregistered == Posting \cup {"register"}

\* A verdict is taken for a send once: an entry of auditWaiter has heard of
\* none, and one that is held finds the channel empty.
Route(s) ==
    /\ s \in waiters => chan[s] = "empty" /\ event[s] # "holding"
    /\ event[s] = "holding" => chan[s] = "empty"
    /\ at[s] \in Unregistered => /\ s \notin waiters
                                 /\ chan[s] = "empty" /\ event[s] # "holding"

\* Why a message is out, and why a send failed.
Reasons(s) ==
    /\ copies[s] > 0 => unheard[s] > 0 \/ at[s] = "sent" \/ review[s] = "approved"
    /\ verdict[s] = "rejected" => review[s] = "rejected"
    /\ (review[s] # "none" /\ at[s] \notin {"register", "await"}) => verdict[s] # "none"
    /\ at[s] = "failed" => verdict[s] # "approved"
    /\ at[s] = "sent" => review[s] \in {"none", "approved"}

Trail == \A s \in Sends : Route(s) /\ Reasons(s)

LEMMA TrailInit == Init => Trail
BY DEF Init, Trail, Route, Reasons, Unregistered, Posting

LEMMA TrailSend ==
    ASSUME Inv, Trail, NEW s \in Sends, Start(s) \/ SendStep(s)
    PROVE  Trail'
<1> USE DEF GoTo, auditVars, sendVars, history
<1>1. ASSUME NEW r \in Sends, r # s  PROVE Route(r)' /\ Reasons(r)'
  <2>1. /\ \E stage \in Stages : at' = [at EXCEPT ![s] = stage]
        /\ waiters' \in {waiters, waiters \cup {s}, waiters \ {s}}
        /\ chan' = chan \/ chan' = [chan EXCEPT ![s] = "empty"]
        /\ verdict' = verdict \/ \E v \in {"approved", "rejected", "timeout"} : verdict' = [verdict EXCEPT ![s] = v]
        /\ copies' = copies \/ copies' = [copies EXCEPT ![s] = @ + 1]
        /\ unheard' = unheard \/ unheard' = [unheard EXCEPT ![s] = @ + 1]
        /\ review' = review \/ review' = [review EXCEPT ![s] = "pending"]
        /\ event' = event
    BY DEF Inv, Types, Start, SendStep, Count, ReadToken, LockToken, Recheck, Post, AnswerLost,
           PostLost, PostRefused, PostDeferred, PostPublished, PostAudited, Tried, Publish, Submit,
           Retry, Again, Register, HearVerdict, AuditTimeout, Cleanup, Stages, Returned
  <2> QED BY <1>1, <2>1 DEF Inv, Types, Trail, Route, Reasons
<1>2. Route(s)' /\ Reasons(s)'
  <2> USE DEF Inv, Types, Trail, Route, Reasons, Unregistered, Posting, Copies, Verdicts
  <2>1. CASE \/ Start(s) \/ Count(s) \/ ReadToken(s) \/ LockToken(s) \/ Recheck(s) \/ Retry(s)
             \/ Again(s)
    BY <2>1 DEF Start, Count, ReadToken, LockToken, Recheck, Retry, Again
  <2>2. CASE Post(s)
    <3>1. CASE AnswerLost(s) \/ PostPublished(s) \/ PostAudited(s)
      BY <3>1 DEF AnswerLost, PostPublished, PostAudited, Tried, Publish, Submit
    <3>2. CASE PostLost(s) \/ PostRefused(s) \/ PostDeferred(s)
      BY <3>2 DEF PostLost, PostRefused, PostDeferred, Tried
    <3> QED BY <2>2, <3>1, <3>2 DEF Post
  <2>3. CASE Register(s)
    BY <2>3 DEF Register
  <2>4. CASE HearVerdict(s) \/ AuditTimeout(s)
    BY <2>4 DEF HearVerdict, AuditTimeout
  <2>5. CASE Cleanup(s)
    BY <2>5 DEF Cleanup
  <2>6. CASE Start(s)
    BY <2>6 DEF Start
  <2> QED BY <2>1, <2>2, <2>3, <2>4, <2>5, <2>6 DEF SendStep
<1> QED BY <1>1, <1>2 DEF Trail

LEMMA TrailStep == Inv /\ Trail /\ [Next]_vars => Trail'
<1> SUFFICES ASSUME Inv, Trail, [Next]_vars  PROVE Trail'
  OBVIOUS
<1>1. ASSUME NEW a \in Sends, Decide(a) \/ Redeliver(a) \/ TakeWaiter(a) \/ HandOver(a)
      PROVE  Trail'
  <2>1. ASSUME NEW s \in Sends  PROVE Route(s)'
    BY <1>1 DEF Decide, Redeliver, TakeWaiter, HandOver, sendVars, Inv, Types, Trail, Route, history
  <2>2. ASSUME NEW s \in Sends  PROVE Reasons(s)'
    BY <1>1 DEF Decide, Redeliver, TakeWaiter, HandOver, sendVars, history, Inv, Types, Verdicts,
                Copies, Posting, Trail, Reasons
  <2> QED BY <2>1, <2>2 DEF Trail
<1>2. CASE Lapse \/ UNCHANGED vars
  BY <1>2 DEF Lapse, vars, sendVars, auditVars, Trail, Route, Reasons
<1> QED BY <1>1, <1>2, TrailSend DEF Next

LEMMA TrailAlways == Spec => [](Inv /\ Trail)
  BY InvInit, InvStep, TrailInit, TrailStep, PTL DEF Spec
\* The goroutine of a verdict event never blocks on the channel: whenever it
\* holds a result the buffer of one is free, whether the send still waits, gave
\* up or has returned, and however often the platform repeats the verdict;
\* upload.go:36 and 58-65.
VerdictFits == \A a \in Sends : event[a] = "holding" => chan[a] = "empty"

\* The verdict that an event carries always has room in the channel of its
\* waiter, so no goroutine of an event hangs; upload.go:36, 58-65.
THEOREM VerdictFitsCorrect == Spec => []VerdictFits
<1>1. Trail => VerdictFits
  BY DEF Trail, Route, VerdictFits
<1> QED BY <1>1, TrailAlways, PTL

\* A send that reports failure although its message is out either lost an
\* answer or gave up its audit: no refusal, no business code, no verdict and no
\* failed fetch of a token makes it deny a message that was published;
\* client.go:187-244, upload.go:43-51.
FailureExplained ==
    \A s \in Sends : (at[s] = "failed" /\ copies[s] > 0)
                         => unheard[s] > 0 \/ verdict[s] = "timeout"

\* A send that failed although its message is out had an answer lost or an
\* audit given up, for any number of attempts; client.go:187-244.
THEOREM FailureExplainedCorrect == Spec => []FailureExplained
<1>1. Inv /\ Trail => FailureExplained
  BY DEF Inv, Types, Trail, Reasons, FailureExplained
<1> QED BY <1>1, TrailAlways, PTL

\* The result of a send is final, and a message comes out after it only where
\* the send gave up an audit that was still pending: it reports failure of what
\* the platform publishes later; upload.go:46-50.
LateOnlyAfterTimeout ==
    [][\A s \in Sends : at[s] \in Returned =>
           /\ UNCHANGED at[s]
           /\ copies'[s] # copies[s] => /\ at[s] = "failed" /\ verdict[s] = "timeout"
                                        /\ review[s] = "pending"]_vars

\* What a send has reported stays, and only an audit it gave up brings its
\* message out afterwards; upload.go:43-51.
THEOREM LateOnlyAfterTimeoutCorrect == Spec => LateOnlyAfterTimeout
<1> DEFINE Step ==
        \A s \in Sends : at[s] \in Returned =>
            /\ UNCHANGED at[s]
            /\ copies'[s] # copies[s] => /\ at[s] = "failed" /\ verdict[s] = "timeout"
                                         /\ review[s] = "pending"
<1>1. ASSUME Inv, Trail, [Next]_vars  PROVE Step
  <2> SUFFICES ASSUME NEW s \in Sends, at[s] \in Returned
               PROVE  /\ UNCHANGED at[s]
                      /\ copies'[s] # copies[s] => /\ at[s] = "failed" /\ verdict[s] = "timeout"
                                                   /\ review[s] = "pending"
    OBVIOUS
  <2>1. ASSUME NEW r \in Sends, Start(r) \/ SendStep(r)
        PROVE  UNCHANGED at[s] /\ UNCHANGED copies[s]
    <3>1. /\ at[r] \notin Returned
          /\ \E stage \in Stages : at' = [at EXCEPT ![r] = stage]
          /\ copies' = copies \/ copies' = [copies EXCEPT ![r] = @ + 1]
      BY <2>1 DEF Start, SendStep, Count, ReadToken, LockToken, Recheck, Post, AnswerLost, PostLost,
                  PostRefused, PostDeferred, PostPublished, PostAudited, Tried, Publish, Submit,
                  Retry, Again, Register, HearVerdict, AuditTimeout, Cleanup, GoTo, history,
                  Stages, Returned
    <3> QED BY <1>1, <3>1 DEF Inv, Types
  <2>2. ASSUME NEW a \in Sends, Redeliver(a) \/ TakeWaiter(a) \/ HandOver(a)
        PROVE  UNCHANGED <<at, copies>>
    BY <2>2 DEF Redeliver, TakeWaiter, HandOver, history
  <2>3. ASSUME NEW a \in Sends, Decide(a)
        PROVE  /\ UNCHANGED at
               /\ copies'[s] # copies[s] => a = s
    BY <1>1, <2>3 DEF Decide, Inv, Types
  <2>4. ASSUME Decide(s)
        PROVE  at[s] = "failed" /\ verdict[s] = "timeout" /\ review[s] = "pending"
    BY <1>1, <2>4 DEF Decide, Inv, Types, Verdicts, Trail, Reasons, Returned
  <2>5. Lapse \/ UNCHANGED vars => UNCHANGED <<at, copies>>
    BY DEF Lapse, vars
  <2> QED BY <1>1, <2>1, <2>2, <2>3, <2>4, <2>5 DEF Next
<1> HIDE DEF Step
<1>2. Inv /\ Trail /\ [Next]_vars => Step
  BY <1>1
<1>3. [][Step]_vars => LateOnlyAfterTimeout
  BY PTL DEF LateOnlyAfterTimeout, Step
<1> QED BY <1>2, <1>3, TrailAlways, PTL DEF Spec

-----------------------------------------------------------------------------
(* The chunks of an upload. *)

\* The least of two numbers.
LEMMA LeastOfTwo ==
    ASSUME NEW a \in Int, NEW b \in Int
    PROVE  Min({a, b}) = IF a <= b THEN a ELSE b
BY DEF Min

\* How many blocks cover the data.
Parts(size, block) == (size + block - 1) \div block

LEMMA PartsBound ==
    ASSUME NEW size \in Nat, NEW block \in Nat \ {0}
    PROVE  /\ Parts(size, block) \in Nat
           /\ size <= Parts(size, block) * block
           /\ Parts(size, block) * block < size + block
<1> DEFINE n == size + block - 1
           q == n \div block
           r == n % block
<1>1. n \in Nat /\ q \in Nat /\ r \in 0..(block - 1) /\ n = block * q + r
  OBVIOUS
<1>2. Parts(size, block) = q
  BY DEF Parts
<1>3. n = size + block - 1
  OBVIOUS
<1> HIDE DEF q, r, n
<1>4. block * q = q * block /\ q * block \in Int
  BY <1>1, Z3
<1> QED BY <1>1, <1>2, <1>3, <1>4

\* Whatever block size the server gives, every byte of the data is in one of the
\* parts 1, 2, ... and in no other, and none of them panics; upload.go:103-114.
THEOREM ChunksCover ==
    ASSUME NEW size \in Nat \ {0}, NEW block \in Nat \ {0}
    PROVE  /\ \A i \in 1..Parts(size, block) : Sliceable(i, block, size)
           /\ \A p \in 1..size : \E i \in 1..Parts(size, block) :
                 /\ p \in (From(i, block) + 1)..Until(i, block, size)
                 /\ \A j \in 1..Parts(size, block) :
                       p \in (From(j, block) + 1)..Until(j, block, size) => j = i
<1> DEFINE n == Parts(size, block)
<1>1. n \in Nat /\ size <= n * block /\ n * block < size + block
  BY PartsBound
<1> HIDE DEF n
<1>2. ASSUME NEW i \in Nat \ {0}
      PROVE  /\ From(i, block) \in Nat /\ From(i, block) + block = i * block
             /\ Until(i, block, size) = IF i * block <= size THEN i * block ELSE size
             /\ i * block \in Nat
  <2>1. i - 1 \in Nat /\ i - 1 <= i
    OBVIOUS
  <2>2. (i - 1) * block \in Nat /\ i * block \in Nat /\ (i - 1 + 1) * block = (i - 1) * block + block
    BY <2>1, ProductGrows
  <2>3. i - 1 + 1 = i
    OBVIOUS
  <2> QED BY <2>2, <2>3, LeastOfTwo DEF From, Until
<1>3. \A i, j \in Nat \ {0} : i < j => i * block <= From(j, block)
  <2> TAKE i, j \in Nat \ {0}
  <2> HAVE i < j
  <2>1. i <= j - 1 /\ j - 1 \in Nat
    OBVIOUS
  <2> QED BY <2>1, ProductGrows DEF From
<1>4. ASSUME NEW i \in 1..n  PROVE Sliceable(i, block, size) /\ From(i, block) < size
  <2>1. i = n \/ i * block <= From(n, block)
    BY <1>1, <1>3
  <2>2. From(n, block) + block = n * block /\ From(i, block) + block = i * block
    BY <1>1, <1>2
  <2>3. From(i, block) < size
    BY <1>1, <1>2, <2>1, <2>2
  <2> QED BY <1>2, <2>3 DEF Sliceable
<1>5. ASSUME NEW p \in 1..size
      PROVE  \E i \in 1..n :
                 /\ p \in (From(i, block) + 1)..Until(i, block, size)
                 /\ \A j \in 1..n : p \in (From(j, block) + 1)..Until(j, block, size) => j = i
  <2> DEFINE i == Parts(p, block)
  <2>1. i \in Nat /\ p <= i * block /\ i * block < p + block
    BY PartsBound
  <2> HIDE DEF i
  <2>2. i # 0
    BY <2>1
  <2>3. From(i, block) < p /\ p <= Until(i, block, size)
    BY <1>2, <2>1, <2>2
  <2>4. i <= n
    <3>1. n \in Nat \ {0}
      BY <1>1
    <3> SUFFICES ASSUME n < i  PROVE FALSE
      BY <1>1, <2>1
    <3>2. n * block <= From(i, block)
      BY <1>3, <2>1, <2>2, <3>1
    <3> QED BY <1>1, <1>2, <2>1, <2>2, <2>3, <3>2
  <2>5. ASSUME NEW j \in 1..n, p \in (From(j, block) + 1)..Until(j, block, size)  PROVE j = i
    <3>1. From(j, block) < p /\ p <= j * block
      BY <1>1, <1>2, <2>5
    <3>2. CASE j < i
      BY <1>1, <1>2, <1>3, <2>1, <2>2, <2>3, <3>1, <3>2
    <3>3. CASE i < j
      BY <1>1, <1>2, <1>3, <2>1, <2>2, <2>3, <3>1, <3>3
    <3> QED BY <1>1, <2>1, <3>2, <3>3
  <2>6. p \in (From(i, block) + 1)..Until(i, block, size)
    BY <1>2, <2>1, <2>2, <2>3
  <2> QED BY <2>1, <2>2, <2>4, <2>5, <2>6, <1>1
<1> QED BY <1>4, <1>5 DEF n

-----------------------------------------------------------------------------
(* The limit on wrong keys. *)

\* The answers to requests so far that told that a key was wrong, by their times.
Told(h, now) ==
    /\ h \in Seq(Nat)
    /\ \A i \in 1..Len(h) : h[i] <= now
    /\ \A i, j \in 1..Len(h) : i <= j => h[i] <= h[j]

\* Two windows' worth of them took longer than one window.
Spread(h) ==
    \A i \in 1..Len(h) : LET j == i + 2 * RateLimitMax - 1
                         IN  j <= Len(h) => h[j] - h[i] > RateLimitWindow

\* How many of them the window counts itself, and how many came before it.
Own(w)    == IF w.count <= RateLimitMax THEN w.count ELSE RateLimitMax
Old(w, h) == Len(h) - Own(w)

\* Of those before it only the latest, at most a limit less one, can be recent.
Explains(w, h) ==
    /\ w \in [begun : BOOLEAN, start : Nat, count : Nat]
    /\ w.begun <=> w.count > 0
    /\ ~w.begun => h = <<>>
    /\ w.begun => /\ Old(w, h) >= 0 /\ h[Old(w, h) + 1] = w.start
                  /\ \A i \in 1..Len(h) :
                         i <= Old(w, h) - RateLimitMax + 1 => w.start - h[i] > RateLimitWindow

\* The times after one more answer.
After(h, answer, now) == IF answer.status = 401 THEN Append(h, now) ELSE h

\* A wrong key at a later time.
LEMMA Counts ==
    ASSUME NEW h, NEW w, NEW was \in Nat, NEW now \in Nat, was <= now, RateLimitMax # 0,
           Told(h, was), Spread(h), Explains(w, h),
           NEW c, c = Counted(w, now),
           NEW g, g = IF RateLimited(c) THEN h ELSE Append(h, now)
    PROVE  Told(g, now) /\ Spread(g) /\ Explains(c, g)
<1> USE PushAssumption
<1>0. /\ w.begun \in BOOLEAN /\ w.start \in Nat /\ w.count \in Nat
      /\ RateLimitMax \in Nat \ {0} /\ RateLimitWindow \in Nat
      /\ h \in Seq(Nat) /\ Len(h) \in Nat /\ \A i \in 1..Len(h) : h[i] \in Nat
  BY DEF Explains, Told
<1>1. Told(g, now)
  <2>1. Told(h, now)
    BY DEF Told
  <2>2. Told(Append(h, now), now)
    BY <1>0 DEF Told
  <2> QED BY <2>1, <2>2
<1>4. w.begun => Own(w) \in 1..RateLimitMax
  BY <1>0 DEF Explains, Own
<1>5. w.begun => /\ Old(w, h) \in Nat /\ Len(h) = Old(w, h) + Own(w) /\ h[Old(w, h) + 1] = w.start
                 /\ \A i \in 1..Len(h) : i <= Old(w, h) - RateLimitMax + 1 => w.start - h[i] > RateLimitWindow
  BY <1>0, <1>4 DEF Explains, Old
<1> DEFINE old == Old(w, h)
           own == Own(w)
<1>6. CASE w.begun => now - w.start > RateLimitWindow
  <2>1. c = [begun |-> TRUE, start |-> now, count |-> 1]
    BY <1>6 DEF Counted
  <2>2. /\ g = Append(h, now) /\ Own(c) = 1 /\ Len(g) = Len(h) + 1 /\ Old(c, g) = Len(h)
        /\ g[Len(h) + 1] = now /\ \A i \in 1..Len(h) : g[i] = h[i]
    <3>1. c.count = 1
      BY <2>1
    <3>2. ~RateLimited(c) /\ Own(c) = 1
      BY <1>0, <3>1 DEF RateLimited, Own
    <3>3. g = Append(h, now)
      BY <3>2
    <3> QED BY <1>0, <3>2, <3>3 DEF Old
  <2>3. \A i \in 1..Len(h) : i <= Len(h) - RateLimitMax + 1 => now - h[i] > RateLimitWindow
    <3>1. CASE ~w.begun
      BY <1>0, <3>1 DEF Explains
    <3>2. CASE w.begun
      <4> HIDE DEF old, own
      <4>1. own \in 1..RateLimitMax /\ old \in Nat /\ h[old + 1] = w.start /\ Len(h) = old + own
        BY <1>4, <1>5, <3>2 DEF old, own
      <4>2. old + 1 \in 1..Len(h)
        BY <1>0, <4>1
      <4>3. \A i \in 1..Len(h) : i <= old + 1 => h[i] <= w.start
        BY <4>1, <4>2 DEF Told
      <4>4. ASSUME NEW i \in 1..Len(h), i <= Len(h) - RateLimitMax + 1  PROVE now - h[i] > RateLimitWindow
        <5>1. i <= old + 1
          BY <1>0, <4>1, <4>4
        <5>2. h[i] <= w.start /\ h[i] \in Nat
          BY <1>0, <4>3, <5>1
        <5> QED BY <1>0, <1>6, <3>2, <5>2
      <4> QED BY <4>4
    <3> QED BY <3>1, <3>2
  <2>4. c.begun /\ c.start = now /\ c.count = 1 /\ c \in [begun : BOOLEAN, start : Nat, count : Nat]
    BY <2>1
  <2>5. Explains(c, g)
    BY <1>0, <2>2, <2>3, <2>4 DEF Explains
  <2>6. Spread(g)
    BY <1>0, <2>2, <2>3 DEF Spread
  <2> QED BY <1>1, <2>5, <2>6
<1>7. CASE w.begun /\ ~(now - w.start > RateLimitWindow)
  <2>1. c = [w EXCEPT !.count = w.count + 1]
    BY <1>7 DEF Counted
  <2>2. /\ c.begun /\ c.start = w.start /\ c.count = w.count + 1
        /\ c \in [begun : BOOLEAN, start : Nat, count : Nat]
    <3>1. w \in [begun : BOOLEAN, start : Nat, count : Nat]
      BY DEF Explains
    <3>2. w.count + 1 \in Nat
      BY <1>0
    <3> QED BY <1>7, <2>1, <3>1, <3>2
  <2>3. CASE RateLimited(c)
    <3>1. g = h
      BY <2>3
    <3>2. w.count + 1 > RateLimitMax
      BY <2>2, <2>3 DEF RateLimited
    <3>3. Own(w) = RateLimitMax /\ Own(c) = RateLimitMax
      BY <1>0, <2>2, <3>2 DEF Own
    <3>4. Old(c, h) = Old(w, h)
      BY <3>3 DEF Old
    <3>5. Explains(c, h)
      BY <1>0, <1>5, <1>7, <2>2, <3>4 DEF Explains
    <3> QED BY <1>1, <3>1, <3>5
  <2>4. CASE ~RateLimited(c)
    <3>1. g = Append(h, now) /\ Own(w) = w.count /\ Own(c) = w.count + 1 /\ Own(w) < RateLimitMax
      BY <1>0, <2>2, <2>4 DEF RateLimited, Own
    <3>2. Len(g) = Len(h) + 1 /\ g[Len(h) + 1] = now /\ \A i \in 1..Len(h) : g[i] = h[i]
      BY <1>0, <3>1
    <3>3. Old(c, g) = Old(w, h)
      <4>1. Len(g) = Len(h) + 1 /\ Own(c) = Own(w) + 1 /\ Len(h) \in Nat /\ Own(w) \in Nat
        BY <1>0, <3>1, <3>2
      <4> QED BY <4>1 DEF Old
    <3>4. Old(w, h) \in Nat /\ Old(w, h) + 1 \in 1..Len(h)
      <4>1. Own(w) \in 1..RateLimitMax /\ Old(w, h) \in Nat /\ Len(h) = Old(w, h) + Own(w)
        BY <1>4, <1>5, <1>7
      <4> HIDE DEF old, own
      <4> QED BY <1>0, <4>1
    <3>5. now >= w.start
      BY <1>0, <1>5, <1>7, <3>4 DEF Told
    <3>6. Explains(c, g)
      <4>1. g[Old(c, g) + 1] = c.start
        BY <1>5, <1>7, <2>2, <3>2, <3>3, <3>4
      <4>2. ASSUME NEW i \in 1..Len(g), i <= Old(c, g) - RateLimitMax + 1  PROVE c.start - g[i] > RateLimitWindow
        <5>1. i \in 1..Len(h)
          BY <1>0, <3>2, <3>3, <3>4, <4>2
        <5> QED BY <1>5, <1>7, <2>2, <3>2, <3>3, <4>2, <5>1
      <4>3. c.begun <=> c.count > 0
        BY <1>0, <2>2
      <4>4. Old(c, g) >= 0
        BY <3>3, <3>4
      <4> QED BY <2>2, <4>1, <4>2, <4>3, <4>4 DEF Explains
    <3>7. Spread(g)
      <4>1. ASSUME NEW i \in 1..Len(h), i + 2 * RateLimitMax - 1 = Len(h) + 1  PROVE now - h[i] > RateLimitWindow
        <5> HIDE DEF old, own
        <5>0. /\ Len(h) = Old(w, h) + Own(w) /\ Own(w) \in Nat /\ Own(w) < RateLimitMax
              /\ Old(w, h) \in Nat /\ i \in Nat
          BY <1>0, <1>4, <1>5, <1>7, <3>1, <3>4
        <5>1. i <= Old(w, h) - RateLimitMax + 1
          BY <1>0, <4>1, <5>0
        <5>2. w.start - h[i] > RateLimitWindow
          BY <1>5, <1>7, <5>1
        <5> QED BY <1>0, <3>5, <5>2
      <4>2. ASSUME NEW i \in 1..Len(g), i + 2 * RateLimitMax - 1 <= Len(g)
            PROVE  g[i + 2 * RateLimitMax - 1] - g[i] > RateLimitWindow
        <5> DEFINE j == i + 2 * RateLimitMax - 1
        <5>1. j \in Nat /\ i < j /\ i \in 1..Len(h) /\ j <= Len(h) + 1
          BY <1>0, <3>2, <4>2
        <5>2. j <= Len(h) => h[j] - h[i] > RateLimitWindow
          BY <5>1 DEF Spread
        <5>3. j = Len(h) + 1 => now - h[i] > RateLimitWindow
          BY <4>1, <5>1
        <5> SUFFICES g[j] - g[i] > RateLimitWindow
          OBVIOUS
        <5> HIDE DEF j
        <5>4. CASE j = Len(h) + 1
          BY <3>2, <5>1, <5>4, <5>3
        <5>5. CASE j # Len(h) + 1
          <6>1. j \in 1..Len(h)
            BY <1>0, <5>1, <5>5
          <6> QED BY <3>2, <5>1, <5>2, <6>1
        <5> QED BY <5>4, <5>5
      <4> QED BY <4>2 DEF Spread
    <3> QED BY <1>1, <3>6, <3>7
  <2> QED BY <2>3, <2>4
<1> QED BY <1>0, <1>6, <1>7

\* Whatever requests come, at whatever times and whatever they find, any
\* 2 * RateLimitMax attempts in a row that are told that their key is wrong take
\* longer than one window: Spread holds at first and after every request, by
\* what the window knows of them, Explains; push.go:31-57, 211-220.
THEOREM PushesAreLimited ==
    /\ Told(<<>>, 0) /\ Spread(<<>>) /\ Explains(NoWindow, <<>>)
    /\ \A request, store, w, h, api : \A was, now \in Nat :
           LET answer == HTTPHandle(request, store, w, now, api)
               g      == After(h, answer, now)
           IN  was <= now /\ RateLimitMax # 0 /\ Told(h, was) /\ Spread(h) /\ Explains(w, h)
                   => Told(g, now) /\ Spread(g) /\ Explains(answer.window, g)
<1>1. Told(<<>>, 0) /\ Spread(<<>>) /\ Explains(NoWindow, <<>>)
  BY PushAssumption DEF Told, Spread, Explains, NoWindow
<1>2. ASSUME NEW request, NEW store, NEW w, NEW h, NEW api, NEW was \in Nat, NEW now \in Nat,
             was <= now, RateLimitMax # 0, Told(h, was), Spread(h), Explains(w, h)
      PROVE  LET answer == HTTPHandle(request, store, w, now, api)
                 g      == After(h, answer, now)
             IN  Told(g, now) /\ Spread(g) /\ Explains(answer.window, g)
  <2> DEFINE answer == HTTPHandle(request, store, w, now, api)
  <2>1. \/ answer.window = w /\ answer.status # 401
        \/ /\ answer.window = Counted(w, now)
           /\ answer.status = IF RateLimited(Counted(w, now)) THEN 429 ELSE 401
    <3> DEFINE wellFormed == /\ request.scope \in Scopes /\ request.openid # ""
                             /\ request.parses
               keyed == VerifyPushKey(store, request.openid, Provided(request))
    <3>1. answer.window = IF wellFormed /\ ~keyed THEN Counted(w, now) ELSE w
      BY DEF HTTPHandle
    <3>2. wellFormed /\ ~keyed =>
              answer.status = IF RateLimited(Counted(w, now)) THEN 429 ELSE 401
      BY DEF HTTPHandle
    <3>3. ~wellFormed => answer.status = 400
      BY DEF HTTPHandle
    <3>4. wellFormed /\ keyed => answer.status # 401
      <4> DEFINE allowed == EnabledKey(request.scope, request.openid) \in DOMAIN store
                 sendable == request.content # "" /\ request.kind \in Kinds
      <4>1. wellFormed /\ keyed =>
                answer.status = IF ~allowed THEN 403 ELSE IF api = "unset" THEN 500
                                ELSE IF ~sendable THEN 400 ELSE IF api = "sends" THEN 200 ELSE 502
        BY DEF HTTPHandle
      <4> HIDE DEF wellFormed, keyed, answer, allowed, sendable
      <4> QED BY <4>1
    <3> HIDE DEF wellFormed, keyed, answer
    <3> QED BY <3>1, <3>2, <3>3, <3>4
  <2> HIDE DEF answer
  <2>2. Told(h, now)
    BY <1>2 DEF Told
  <2> SUFFICES Told(After(h, answer, now), now) /\ Spread(After(h, answer, now))
                   /\ Explains(answer.window, After(h, answer, now))
    BY DEF answer
  <2>3. CASE answer.window = w /\ answer.status # 401
    BY <1>2, <2>2, <2>3 DEF After
  <2>4. CASE /\ answer.window = Counted(w, now)
             /\ answer.status = IF RateLimited(Counted(w, now)) THEN 429 ELSE 401
    <3>1. After(h, answer, now) = IF RateLimited(answer.window) THEN h ELSE Append(h, now)
      BY <2>4 DEF After
    <3>2. answer.window = Counted(w, now)
      BY <2>4
    <3> HIDE DEF answer
    <3> QED BY <1>2, <3>1, <3>2, Counts, Zenon
  <2> QED BY <2>1, <2>3, <2>4
<1> QED BY <1>1, <1>2
=============================================================================
