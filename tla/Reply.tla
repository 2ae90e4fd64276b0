-------------------------------- MODULE Reply --------------------------------
(***************************************************************************)
(* A reply built from parts, sent while the settings change: MsgBuilder of *)
(* lib/context/builder.go, Text of lib/context/messageManager.go and the   *)
(* Send methods of lib/message.  It reads the options and the image host   *)
(* in force several times, without a lock: once to plan, again for each    *)
(* message.  The settings are those of Console.                            *)
(*                                                                         *)
(* A part is a name with a kind.  The order of the parts in the text and   *)
(* of the messages after the first is left out, as are the ID and the      *)
(* author of a quoted message; a message the platform accepts is sent.     *)
(***************************************************************************)
EXTENDS Console, ImageHost

CONSTANTS
    Replies,      \* Send calls of message builders
    Parts,        \* the parts there are
    Kind,         \* what a part is, and the source of an image
    MaxParts,     \* bound: parts of a reply
    ReplyLimit,   \* the literal 5 of MsgRef.Count
    Providers,    \* the providers of assets.json
    MarkdownKey,  \* global_markdown
    MarkdownOn,   \* the requests that switch it on
    AssetsKey,    \* the image hosts
    MaxWork       \* bound: requests, a reply counting as two

\* A blank is a text without content, a panel a markdown part with a keyboard.
Kinds == {"text", "blank", "everyone", "markdown", "panel", "upload",
          "public", "file", "unreadable"}
Images == {p \in Parts : Kind[p] \in {"public", "file", "unreadable"}}
Texts  == {p \in Parts : Kind[p] \in {"text", "blank", "everyone", "markdown", "panel"}}

ASSUME ReplyAssumption ==
    /\ Kind \in [Parts -> Kinds]
    /\ ReplyLimit \in Nat \ {0}
    /\ MarkdownKey \in Core /\ AssetsKey \in Hosts

VARIABLES
    step,      \* where a reply stands
    parts,     \* what the builder was given
    keyboard,  \* whether it was given a keyboard
    host,      \* the image host that plan read
    asMarkdown, \* whether the main message is planned as markdown
    slot,      \* what became of an image in the main message
    main,      \* the parts of the main message
    own,       \* the parts that still need a message of their own
    count,     \* msgSeq of the MsgRef
    failed,    \* whether a message failed
    times,     \* history: how often a part was sent
    pressed,   \* history: whether the keyboard was sent
    spoilt     \* history: parts that were sent and are not shown, or not whole

replyVars == <<step, parts, keyboard, host, asMarkdown, slot, main, own, count,
               failed, times, pressed, spoilt>>

ReplyInit ==
    /\ Init
    /\ step = [r \in Replies |-> "new"]
    /\ parts = [r \in Replies |-> {}]
    /\ keyboard = [r \in Replies |-> FALSE]
    /\ host = [r \in Replies |-> <<>>]
    /\ asMarkdown = [r \in Replies |-> FALSE]
    /\ slot = [r \in Replies |-> [p \in Images |-> "wait"]]
    /\ main = [r \in Replies |-> {}]
    /\ own = [r \in Replies |-> {}]
    /\ count = [r \in Replies |-> 1]
    /\ failed = [r \in Replies |-> FALSE]
    /\ times = [r \in Replies |-> [p \in Parts |-> 0]]
    /\ pressed = [r \in Replies |-> FALSE]
    /\ spoilt = [r \in Replies |-> {}]

\* What the client has in force.
GlobalMarkdown == live[MarkdownKey] # Absent /\ live[MarkdownKey].text \in MarkdownOn
Assets == IF live[AssetsKey] = Absent THEN <<>> ELSE NewHost(Providers)

\* The parts of a builder, without their order.
Chains == {P \in SUBSET Parts : Cardinality(P) <= MaxParts}

Work == Cardinality({q \in Requests : stage[q] # "new"})
        + 2 * Cardinality({r \in Replies : step[r] # "new"})

\* What an image may become, as its file can be read and the providers work.
Outcomes(p, h) ==
    {Fragment(h, Kind[p], down) : down \in SUBSET {h[i].name : i \in DOMAIN h}}

-----------------------------------------------------------------------------
\* plan: the main message is markdown if a keyboard or a markdown part asks for
\* it, or global_markdown and a text or an image; an everyone does not count.
Plan(r) ==
    /\ up /\ step[r] = "new"
    /\ Work + 2 <= MaxWork
    /\ \E P \in Chains, k \in BOOLEAN :
          /\ P # {} \/ k
          /\ parts' = [parts EXCEPT ![r] = P]
          /\ keyboard' = [keyboard EXCEPT ![r] = k]
          /\ asMarkdown' = [asMarkdown EXCEPT ![r] =
                  \/ k
                  \/ \E p \in P : Kind[p] \in {"markdown", "panel"}
                  \/ GlobalMarkdown /\ \E p \in P : Kind[p] \in {"text", "blank"} \/ p \in Images]
    /\ host' = [host EXCEPT ![r] = Assets]
    /\ step' = [step EXCEPT ![r] = "planned"]
    /\ UNCHANGED <<slot, main, own, count, failed, times, pressed, spoilt>>

\* One goroutine for each image of a markdown message.
ResolveImage(r, p) ==
    /\ step[r] = "planned" /\ asMarkdown[r]
    /\ p \in parts[r] \cap Images
    /\ slot[r][p] = "wait"
    /\ \E f \in Outcomes(p, host[r]) : slot' = [slot EXCEPT ![r][p] = f]
    /\ UNCHANGED <<step, parts, keyboard, host, asMarkdown, main, own, count, failed,
                   times, pressed, spoilt>>

\* wg.Wait, and the messages.  An image that did not get into the text is sent
\* on its own.
Inline(r) ==
    {p \in parts[r] : p \in Texts \/ (asMarkdown[r] /\ p \in Images /\ slot[r][p] # "none")}

\* There is a main message if there is something to say in it, or a keyboard.
Opening(r) ==
    IF keyboard[r] \/ \E p \in Inline(r) : Kind[p] # "blank" THEN "main" ELSE "media"

\* Of a markdown part the content is taken and its keyboard left.  Text reads
\* global_markdown again, and a text that is turned into markdown so late loses
\* its everyone to ProtectMarkdownAt.
Unseen(r) ==
    {p \in Inline(r) : \/ Kind[p] = "panel"
                       \/ p \in Images /\ slot[r][p] = "broken"
                       \/ Kind[p] = "everyone" /\ ~asMarkdown[r] /\ GlobalMarkdown}

AssembleNoContinueMutant(r) ==
    /\ step[r] = "planned"
    /\ asMarkdown[r] => \A p \in parts[r] \cap Images : slot[r][p] # "wait"
    /\ main' = [main EXCEPT ![r] = Inline(r)]
    /\ own' = [own EXCEPT ![r] = parts[r] \ Texts]
    /\ spoilt' = [spoilt EXCEPT ![r] = Unseen(r)]
    /\ step' = [step EXCEPT ![r] = Opening(r)]
    /\ UNCHANGED <<parts, keyboard, host, asMarkdown, slot, count, failed, times, pressed>>

Assemble(r) ==
    /\ step[r] = "planned"
    /\ asMarkdown[r] => \A p \in parts[r] \cap Images : slot[r][p] # "wait"
    /\ main' = [main EXCEPT ![r] = Inline(r)]
    /\ own' = [own EXCEPT ![r] = parts[r] \ Inline(r)]
    /\ spoilt' = [spoilt EXCEPT ![r] = Unseen(r)]
    /\ step' = [step EXCEPT ![r] = Opening(r)]
    /\ UNCHANGED <<parts, keyboard, host, asMarkdown, slot, count, failed, times, pressed>>

\* Message.Send: the number, then the post, which the platform may not accept.
Post(r, P) ==
    \/ /\ count[r] < ReplyLimit
       /\ count' = [count EXCEPT ![r] = @ + 1]
       /\ times' = [times EXCEPT ![r] = [p \in Parts |-> @[p] + IF p \in P THEN 1 ELSE 0]]
       /\ UNCHANGED failed
    \/ /\ count' = [count EXCEPT ![r] = IF @ < ReplyLimit THEN @ + 1 ELSE @]
       /\ failed' = [failed EXCEPT ![r] = TRUE]
       /\ UNCHANGED times

SendMain(r) ==
    /\ step[r] = "main"
    /\ Post(r, main[r])
    /\ pressed' = [pressed EXCEPT ![r] = keyboard[r] /\ failed'[r] = failed[r]]
    /\ step' = [step EXCEPT ![r] = "media"]
    /\ UNCHANGED <<parts, keyboard, host, asMarkdown, slot, main, own, spoilt>>

\* UploadMedia and a message for what was uploaded.
Upload(r, p) ==
    /\ \/ Post(r, {p})
       \/ failed' = [failed EXCEPT ![r] = TRUE] /\ UNCHANGED <<count, times>>
    /\ UNCHANGED spoilt

\* The Send of a part: an image that was not turned down for the main message
\* is tried in markdown once more, if global_markdown has come on since.
SendOwn(r, p) ==
    /\ step[r] = "media"
    /\ p \in own[r]
    /\ own' = [own EXCEPT ![r] = @ \ {p}]
    /\ IF p \in Images /\ ~asMarkdown[r] /\ GlobalMarkdown
       THEN \E f \in Outcomes(p, Assets) :
               IF f = "none"
               THEN Upload(r, p)
               ELSE /\ Post(r, {p})
                    /\ spoilt' = [spoilt EXCEPT ![r] = @ \cup IF f = "broken" THEN {p} ELSE {}]
       ELSE Upload(r, p)
    /\ UNCHANGED <<step, parts, keyboard, host, asMarkdown, slot, main, pressed>>

Return(r) ==
    /\ step[r] = "media" /\ own[r] = {}
    /\ step' = [step EXCEPT ![r] = "returned"]
    /\ UNCHANGED <<parts, keyboard, host, asMarkdown, slot, main, own, count, failed,
                   times, pressed, spoilt>>

LoseReplies ==
    /\ step' = [r \in Replies |-> IF step[r] \in {"new", "returned"} THEN step[r] ELSE "lost"]
    /\ UNCHANGED <<parts, keyboard, host, asMarkdown, slot, main, own, count, failed,
                   times, pressed, spoilt>>

-----------------------------------------------------------------------------
Answer(r) ==
    \/ \E p \in Parts : ResolveImage(r, p) \/ SendOwn(r, p)
    \/ Plan(r) \/ Assemble(r) \/ SendMain(r) \/ Return(r)

Settings ==
    \/ \E r \in Requests : (Work < MaxWork /\ Begin(r)) \/ Persist(r) \/ Conclude(r)
    \/ Restart

ReplyNext ==
    \/ Settings /\ UNCHANGED replyVars
    \/ Crash /\ LoseReplies
    \/ (\E r \in Replies : Answer(r)) /\ UNCHANGED vars

ReplySpec == ReplyInit /\ [][ReplyNext]_<<vars, replyVars>>

-----------------------------------------------------------------------------
(* Properties *)

\* What is there to send and was not sent.
Missing(r) == {p \in parts[r] : Kind[p] # "blank" /\ times[r][p] = 0}

\* Why something that was sent is not shown.
Lost(r, p) == Kind[p] \in {"unreadable", "panel"} \/ (Kind[p] = "everyone" /\ ~asMarkdown[r])

\* However the options and the image host change under a reply, no part of it
\* is sent twice, and Send reports an error exactly if the keyboard or a part
\* with something in it was not sent, a fifth message included
\* (builder.go:83-213, ref.go:13-21).  What was sent is shown, but for an image
\* whose file cannot be read, the keyboard of a markdown part (builder.go:163),
\* and an everyone in a text that was not planned as markdown (image.go:42-68,
\* messageManager.go:44-57).
PartsOnce ==
    \A r \in Replies :
        /\ \A p \in Parts : times[r][p] <= 1
        /\ step[r] = "returned" =>
               (failed[r] <=> (keyboard[r] /\ ~pressed[r]) \/ Missing(r) # {})
        /\ \A p \in spoilt[r] : Lost(r, p)
=============================================================================
