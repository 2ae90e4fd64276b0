------------------------------ MODULE Dispatch ------------------------------
(***************************************************************************)
(* What happens to one event: ProcessPayload and dispatchCommand of        *)
(* lib/middleware/handle.go, under the rules that Access makes of a        *)
(* configuration, and the callback table of lib/buttons.  Events run in    *)
(* goroutines of their own, the handler of a command or button in another  *)
(* task of the event pool, while the console replaces the configuration.   *)
(*                                                                         *)
(* The text of a message is a sequence of words, resolved as Commands says *)
(* to a root command and the leaf its subcommands lead to; whether the     *)
(* arguments parse comes with the message.  One plugin is modelled:        *)
(* Enabled and CanUse look at the plugin of the root only, and the leaf    *)
(* belongs to the same plugin.                                             *)
(***************************************************************************)
EXTENDS Access, FiniteSets

CONSTANTS
    Events,      \* the events of one behaviour
    Messages,    \* what a message event can carry, see MessageType
    Buttons,     \* button identifiers
    NoMessage, NoButton,  \* the event is no message, no button
    Inputs,      \* access configurations as the file or the console has them
    NoAccess,    \* no configuration is being applied
    MaxApply     \* bound: configurations applied in one behaviour

Roles == {"member", "admin", "owner"}

CommandType == [name : Seq(Nat), aliases : SUBSET Seq(Nat), sub : Seq(Commands), role : Roles, disablePrivate : BOOLEAN,
                permissionDenied : BOOLEAN, handleError : BOOLEAN]

MessageType == [private : BOOLEAN, words : Seq(Words), argsOk : BOOLEAN,
                role : Roles \cup {""}, user : Users \cup {NoId}, group : Groups \cup {NoId}]

\* What becomes of the inputs: the configurations the program loads or applies.
Accesses == UNION {Prepared(i) : i \in Inputs}

ASSUME DispatchAssumption ==
    /\ Cmd \in [Commands -> CommandType]
    /\ Messages \subseteq MessageType
    /\ NoMessage \notin Messages
    /\ NoButton \notin Buttons
    /\ \A i \in Inputs : IsRawAccess(i)
    /\ NoAccess \notin Accesses
    /\ MaxApply \in Nat

\* What the text of each message resolves to.
Resolved ==
    [m \in Messages |->
        LET r == ResolveRoot(m.words)
        IN  [root |-> r.root,
             leaf |-> IF r.root = NoCommand THEN NoCommand ELSE ResolveLeaf(r.root, r.tail)]]

Root(m) == Resolved[m].root
Leaf(m) == Resolved[m].leaf

VARIABLES
    at,         \* where the goroutine of an event stands
    msg,        \* the message of a message event
    button,     \* the button of a button event
    acked,      \* acknowledgements sent for a button event
    ran,        \* the command whose Handle was called, NoCommand before
    told,       \* whose PermissionDenied was called for the event
    reported,   \* calls of HandleError for the event
    disabled,   \* the snapshot pluginDisabled, for this plugin
    registry,   \* the snapshot registryStore: access of this plugin
    applying,   \* the configuration ApplyAccessConfiguration is publishing
    applied,    \* configurations applied so far
    callbacks,  \* CallbackFuncMap: buttons with a handler
    inForce     \* history: configurations in force since the event arrived

vars == <<at, msg, button, acked, ran, told, reported, disabled, registry, applying,
          applied, callbacks, inForce>>

Idle  == {"new"}
Ended == {"ignored", "denied", "usage", "done", "crashed"}
Stages == Idle \cup Ended \cup
          {"resolve", "check", "queued", "running", "failed", "ack", "lookup", "pressed"}

Init ==
    /\ at = [e \in Events |-> "new"]
    /\ msg = [e \in Events |-> NoMessage]
    /\ button = [e \in Events |-> NoButton]
    /\ acked = [e \in Events |-> 0]
    /\ ran = [e \in Events |-> NoCommand]
    /\ told = [e \in Events |-> "nobody"]
    /\ reported = [e \in Events |-> 0]
    /\ \E a \in Accesses : registry = a /\ disabled = a.disabled
    /\ applying = NoAccess
    /\ applied = 0
    /\ callbacks = {}
    /\ inForce = [e \in Events |-> {}]

GoTo(e, stage) == at' = [at EXCEPT ![e] = stage]

admin == <<disabled, registry, applying, applied>>

-----------------------------------------------------------------------------
\* RoleRequired.CanUse
RoleCanUse(require, role) ==
    CASE require = "owner" -> role = "owner"
      [] require = "admin" -> role \in {"admin", "owner"}
      [] OTHER -> TRUE

\* The role checks of dispatchCommand, root first.
Rank(m) ==
    /\ RoleCanUse(Cmd[Root(m)].role, m.role)
    /\ RoleCanUse(Cmd[Leaf(m)].role, m.role)

PrivateOk(m) ==
    ~(m.private /\ (Cmd[Root(m)].disablePrivate \/ Cmd[Leaf(m)].disablePrivate))

-----------------------------------------------------------------------------
Since == IF applying = NoAccess THEN {registry} ELSE {registry, applying}

\* The goroutine of an event starts: GROUP_AT_MESSAGE_CREATE,
\* GROUP_MESSAGE_CREATE or C2C_MESSAGE_CREATE ...
ReceiveMessage(e, m) ==
    /\ at[e] = "new"
    /\ msg' = [msg EXCEPT ![e] = m]
    /\ inForce' = [inForce EXCEPT ![e] = Since]
    /\ GoTo(e, "resolve")
    /\ UNCHANGED <<button, acked, ran, told, reported, admin, callbacks>>

\* ... INTERACTION_CREATE ...
ReceiveButton(e, b) ==
    /\ at[e] = "new"
    /\ button' = [button EXCEPT ![e] = b]
    /\ GoTo(e, "ack")
    /\ UNCHANGED <<msg, acked, ran, told, reported, admin, callbacks, inForce>>

\* ... GROUP_JOIN_REQUEST with an answer: joinGroupHandleLock is a nil
\* interface, so CallGlobalJoinGroupHandle panics; exec of the pool recovers.
\* A request without an answer, an audit verdict (see Delivery) or an unknown
\* event changes nothing here.
ReceiveJoin(e) ==
    /\ at[e] = "new"
    /\ GoTo(e, "crashed")
    /\ UNCHANGED <<msg, button, acked, ran, told, reported, admin, callbacks, inForce>>

ReceiveOther(e) ==
    /\ at[e] = "new"
    /\ GoTo(e, "ignored")
    /\ UNCHANGED <<msg, button, acked, ran, told, reported, admin, callbacks, inForce>>

\* ResolveRoot and Enabled: an unknown word and a disabled plugin end alike.
Resolve(e) ==
    /\ at[e] = "resolve"
    /\ GoTo(e, IF Root(msg[e]) = NoCommand \/ disabled THEN "ignored" ELSE "check")
    /\ UNCHANGED <<msg, button, acked, ran, told, reported, admin, callbacks, inForce>>

\* The refusals of dispatchCommand.  permissionDenied calls the hook of the root
\* if its role is what fails and of the leaf otherwise, if that has one, and
\* survives its errors and panics.
Refused(m) == ~Rank(m) \/ ~PrivateOk(m) \/ ~CanUse(registry, Leaf(m), m.user, m.group)

DeniedBy(m) == IF RoleCanUse(Cmd[Root(m)].role, m.role) THEN "leaf" ELSE "root"
Hooked(m)   == Cmd[IF DeniedBy(m) = "root" THEN Root(m) ELSE Leaf(m)].permissionDenied

Deny(e) ==
    /\ at[e] = "check"
    /\ Refused(msg[e])
    /\ told' = IF Hooked(msg[e]) THEN [told EXCEPT ![e] = DeniedBy(msg[e])] ELSE told
    /\ GoTo(e, "denied")
    /\ UNCHANGED <<msg, button, acked, ran, reported, admin, callbacks, inForce>>

\* Arguments that do not parse are answered with the usage; otherwise the
\* handler becomes a task of the pool.
Permit(e) ==
    /\ at[e] = "check"
    /\ ~Refused(msg[e])
    /\ GoTo(e, IF msg[e].argsOk THEN "queued" ELSE "usage")
    /\ UNCHANGED <<msg, button, acked, ran, told, reported, admin, callbacks, inForce>>

\* messageRecoveryFunc(root, leaf, ctx): the Handle of its first argument.
Run(e) ==
    /\ at[e] = "queued"
    /\ ran' = [ran EXCEPT ![e] = Root(msg[e])]
    /\ GoTo(e, "running")
    /\ UNCHANGED <<msg, button, acked, told, reported, admin, callbacks, inForce>>

\* A handler may attach a callback to a button it sends (SetCallback), ...
SetCallback(e, b) ==
    /\ at[e] = "running"
    /\ b \notin callbacks
    /\ callbacks' = callbacks \cup {b}
    /\ UNCHANGED <<at, msg, button, acked, ran, told, reported, admin, inForce>>

\* ... return, ...
Return(e) ==
    /\ at[e] = "running"
    /\ GoTo(e, "done")
    /\ UNCHANGED <<msg, button, acked, ran, told, reported, admin, callbacks, inForce>>

\* ... or fail, with an error or a panic.
Fail(e) ==
    /\ at[e] = "running"
    /\ GoTo(e, "failed")
    /\ UNCHANGED <<msg, button, acked, ran, told, reported, admin, callbacks, inForce>>

\* invokeErrorHook: HandleError of the leaf; what the hook does is recovered.
ReportRootMutant(e) ==
    /\ at[e] = "failed"
    /\ reported' = IF Cmd[Root(msg[e])].handleError
                   THEN [reported EXCEPT ![e] = @ + 1] ELSE reported
    /\ GoTo(e, "done")
    /\ UNCHANGED <<msg, button, acked, ran, told, admin, callbacks, inForce>>

ReportHookedMutant(e) ==
    /\ at[e] = "failed"
    /\ Cmd[Leaf(msg[e])].handleError
    /\ reported' = [reported EXCEPT ![e] = @ + 1]
    /\ GoTo(e, "done")
    /\ UNCHANGED <<msg, button, acked, ran, told, admin, callbacks, inForce>>

Report(e) ==
    /\ at[e] = "failed"
    /\ reported' = IF Cmd[Leaf(msg[e])].handleError
                   THEN [reported EXCEPT ![e] = @ + 1] ELSE reported
    /\ GoTo(e, "done")
    /\ UNCHANGED <<msg, button, acked, ran, told, admin, callbacks, inForce>>

\* ctx.Done: the acknowledgement is sent whatever the button; its failure is
\* only logged.
AcknowledgeRetryMutant(e) ==
    /\ at[e] = "ack"
    /\ acked' = [acked EXCEPT ![e] = @ + 1]
    /\ \E ok \in BOOLEAN : GoTo(e, IF ok THEN "lookup" ELSE "ack")
    /\ UNCHANGED <<msg, button, ran, told, reported, admin, callbacks, inForce>>

Acknowledge(e) ==
    /\ at[e] = "ack"
    /\ acked' = [acked EXCEPT ![e] = @ + 1]
    /\ GoTo(e, "lookup")
    /\ UNCHANGED <<msg, button, ran, told, reported, admin, callbacks, inForce>>

\* GetCallbackFunc; a registered callback becomes a task of the pool.
Lookup(e) ==
    /\ at[e] = "lookup"
    /\ GoTo(e, IF button[e] \in callbacks THEN "pressed" ELSE "ignored")
    /\ UNCHANGED <<msg, button, acked, ran, told, reported, admin, callbacks, inForce>>

\* callbackHandleFunc; errors and panics are logged.
RunCallback(e) ==
    /\ at[e] = "pressed"
    /\ GoTo(e, "done")
    /\ UNCHANGED <<msg, button, acked, ran, told, reported, admin, callbacks, inForce>>

-----------------------------------------------------------------------------
\* ApplyAccessConfiguration, under the registry lock, publishes two snapshots:
\* refreshDisabledLocked ...
RefreshDisabled(a) ==
    /\ applying = NoAccess
    /\ applied < MaxApply
    /\ a # registry
    /\ applying' = a
    /\ applied' = applied + 1
    /\ disabled' = a.disabled
    /\ inForce' = [e \in Events |->
                     IF at[e] \in Idle \cup Ended THEN inForce[e] ELSE inForce[e] \cup {a}]
    /\ UNCHANGED <<at, msg, button, acked, ran, told, reported, registry, callbacks>>

\* ... and publishRegistryLocked.
PublishRegistry ==
    /\ applying # NoAccess
    /\ registry' = applying
    /\ applying' = NoAccess
    /\ UNCHANGED <<at, msg, button, acked, ran, told, reported, disabled, applied,
                   callbacks, inForce>>

MessageStep(e) == Resolve(e) \/ Deny(e) \/ Permit(e) \/ Run(e) \/ Report(e)
HandlerStep(e) == Return(e) \/ Fail(e)
ButtonStep(e)  == Acknowledge(e) \/ Lookup(e) \/ RunCallback(e)

EventStep(e) ==
    \/ \E m \in Messages : ReceiveMessage(e, m)
    \/ \E b \in Buttons : ReceiveButton(e, b) \/ SetCallback(e, b)
    \/ ReceiveJoin(e) \/ ReceiveOther(e)
    \/ MessageStep(e) \/ HandlerStep(e) \/ ButtonStep(e)

Next ==
    \/ \E e \in Events : EventStep(e)
    \/ \E a \in Accesses : RefreshDisabled(a)
    \/ PublishRegistry

Spec == Init /\ [][Next]_vars

\* The goroutines of events are scheduled and handlers return; no event has to
\* arrive and the console has to do nothing.
Fairness == \A e \in Events : WF_vars(MessageStep(e) \/ HandlerStep(e) \/ ButtonStep(e))

FairSpec == Spec /\ Fairness

-----------------------------------------------------------------------------
(* Properties *)

\* The types of the state.
TypeOK ==
    /\ at \in [Events -> Stages]
    /\ msg \in [Events -> Messages \cup {NoMessage}]
    /\ button \in [Events -> Buttons \cup {NoButton}]
    /\ acked \in [Events -> 0..1]
    /\ ran \in [Events -> Commands \cup {NoCommand}]
    /\ told \in [Events -> {"nobody", "root", "leaf"}]
    /\ reported \in [Events -> 0..1]
    /\ disabled \in BOOLEAN
    /\ registry \in Accesses
    /\ applying \in Accesses \cup {NoAccess}
    /\ applied \in 0..MaxApply
    /\ callbacks \subseteq Buttons
    /\ inForce \in [Events -> SUBSET Accesses]

\* What a rule says, as the console describes it: a whitelist admits those it
\* names, as a user or through their group, a blacklist everybody else.
Listed(rule, m) == {m.user, m.group} \cap (rule.users \cup rule.groups) # {}
Admits(a, m) ==
    LET rule == Rule(a, Leaf(m))
    IN  /\ rule.mode = "whitelist" => Listed(rule, m)
        /\ rule.mode = "blacklist" => ~Listed(rule, m)

\* A handler runs only if the text names its command, for a sender with the
\* rank, in a place the command allows, of a plugin that was enabled and under a rule that admits the sender,
\* at some moment since the event arrived (the two tests read two snapshots,
\* so the moments may differ); handle.go:36-79, register.go:414-444.
RunsOnlyPermitted ==
    \A e \in Events : ran[e] # NoCommand =>
        /\ Names(msg[e].words, ran[e])
        /\ Rank(msg[e]) /\ PrivateOk(msg[e])
        /\ \E a \in inForce[e] : ~a.disabled
        /\ \E a \in inForce[e] : Admits(a, msg[e])

\* A finished command has called HandleError exactly once if its handler
\* failed and its leaf has the hook, and never otherwise; handle.go:251-262.
FailureReported ==
    [][\A e \in Events : at[e] # "done" /\ at'[e] = "done" =>
          reported'[e] = IF at[e] = "failed" /\ Cmd[Leaf(msg[e])].handleError THEN 1 ELSE 0]_vars

\* How an event ended, and why it deserved no other end: every reason for not
\* calling the handler held at some moment since the event arrived.
Answered(e) ==
    /\ at[e] \in Ended
    /\ at[e] = "crashed" => msg[e] = NoMessage /\ button[e] = NoButton
    /\ told[e] # "nobody" => at[e] = "denied"
    /\ msg[e] # NoMessage =>
          LET m == msg[e] IN
          /\ at[e] = "ignored" => ~Heard(m.words) \/ \E a \in inForce[e] : a.disabled
          /\ at[e] = "denied" => ~Rank(m) \/ ~PrivateOk(m) \/ \E a \in inForce[e] : ~Admits(a, m)
          /\ at[e] = "usage" => ~m.argsOk
          /\ at[e] = "done" <=> ran[e] # NoCommand

\* Every event that arrived comes to an end, whatever its handler and hooks do
\* and however often the configuration changes meanwhile, and none is turned
\* away without a reason: no half of a configuration that is being applied, no
\* command tried before the one that was meant (handle.go:33-109).  A word whose
\* command is hidden by a neighbour is not heard (register.go:400-412), though
\* README.md:186 promises to split it, and only a join request crashes.
EveryEventAnswered ==
    \A e \in Events : at[e] \notin Idle ~> Answered(e)

\* What README.md:253 says of subcommands, nested ordinary commands: the
\* handler that runs is that of the command the message resolves to.
LeafHandles ==
    \A e \in Events : ran[e] # NoCommand => ran[e] = Leaf(msg[e])
=============================================================================
