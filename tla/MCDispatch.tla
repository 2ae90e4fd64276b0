----------------------------- MODULE MCDispatch -----------------------------
(***************************************************************************)
(* A plugin with two commands, db and dbx: dbx is for owners, and db has a *)
(* subcommand, for admins and not for private chats and the only one with  *)
(* an error hook.  The slash is enabled, the exclamation mark is not, and  *)
(* bare names are.  Letters are numbered, d = 4, b = 2.                    *)
(* Configurations: disabled but open, a blacklist whose subcommand has a   *)
(* whitelist, a whitelist whose subcommand is named twice, with and        *)
(* without blanks, and two that are refused.  Going from one to another    *)
(* opens, closes and swaps what a sender may do.                           *)
(***************************************************************************)
EXTENDS Dispatch, TLC

CONSTANTS db, dbx, clean, u1, u2, g1, slash, bang,
          u1Blank, cleanBlank, blank     \* texts with blanks around them

Plain(name, aliases, sub) ==
    [name |-> name, aliases |-> aliases, sub |-> sub, role |-> "member", disablePrivate |-> FALSE,
     permissionDenied |-> FALSE, handleError |-> FALSE]

MCCmd ==
    (db :> Plain(<<4, 2>>, {<<9>>}, <<clean>>))
    @@ (dbx :> [Plain(<<4, 2, 3>>, {}, <<>>) EXCEPT !.role = "owner", !.permissionDenied = TRUE])
    @@ (clean :> [Plain(<<3>>, {<<1>>}, <<>>) EXCEPT !.role = "admin", !.disablePrivate = TRUE,
                                                    !.permissionDenied = TRUE, !.handleError = TRUE])

MCRegistered == <<db, dbx>>

MCTexts == {u1, u2, g1, db, dbx, clean, NoId, u1Blank, cleanBlank, blank}

MCTrim == [t \in MCTexts |-> CASE t = u1Blank -> u1
                               [] t = cleanBlank -> clean
                               [] t = blank -> NoId
                               [] OTHER -> t]

MCModeTexts == Modes \cup {"", " Whitelist", "graylist"}

MCMode == [m \in MCModeTexts |-> IF m = " Whitelist" THEN "whitelist" ELSE m]

SaidRule(mode, us, gs) == [mode |-> mode, users |-> us, groups |-> gs]
NoRule == SaidRule("", {}, {})
Config(off, rule, overrides) == [disabled |-> off, default |-> rule, commands |-> overrides]

MCInputs ==
    { Config(TRUE, NoRule, <<>>),
      Config(FALSE, SaidRule("blacklist", {u1Blank, blank}, {}),
             (clean :> SaidRule("whitelist", {u2}, {g1})) @@ (dbx :> NoRule)),
      Config(FALSE, SaidRule(" Whitelist", {u2}, {blank}),
             (cleanBlank :> SaidRule("blacklist", {u1, u1Blank}, {})) @@ (clean :> NoRule)),
      Config(FALSE, NoRule, db :> SaidRule("graylist", {}, {})),
      Config(FALSE, NoRule, u1 :> SaidRule("blacklist", {u1}, {})) }

Word(symbol, name) == [name |-> name, symbol |-> symbol]
Db == Word(slash, <<4, 2>>)

Message(private, words, role, user, argsOk) ==
    [role |-> role, private |-> private, words |-> words, user |-> user, argsOk |-> argsOk,
     group |-> IF private THEN NoId ELSE g1]

\* A command with an argument; a lone slash and a subcommand; an argument glued
\* to the command that names the subcommand; both by their aliases; a command of
\* owners; a symbol that is not enabled; and a word that begins with db, but
\* resolves to nothing since dbx comes next to it.
MCMessages ==
    { Message(FALSE, <<Db, Word(NoSymbol, <<7>>)>>, "member", u1, TRUE),
      Message(FALSE, <<Word(slash, <<>>), Word(NoSymbol, <<4, 2>>), Word(slash, <<3>>)>>, "member", u2, TRUE),
      Message(FALSE, <<Word(slash, <<4, 2, 1>>)>>, "owner", u1, TRUE),
      Message(TRUE, <<Word(NoSymbol, <<9>>), Word(NoSymbol, <<1>>)>>, "", u2, TRUE),
      Message(FALSE, <<Word(slash, <<4, 2, 3>>)>>, "admin", u2, TRUE),
      Message(TRUE, <<Db, Word(bang, <<3>>)>>, "", u1, FALSE),
      Message(FALSE, <<Word(slash, <<4, 2, 9>>)>>, "member", NoId, TRUE) }

-----------------------------------------------------------------------------
(* What is prepared against what was said.                                   *)

Senders == [user : Users \cup {NoId}, group : Groups \cup {NoId}]

\* What a rule says, whatever its blanks.
SaysYes(rule, s) ==
    LET listed == \E t \in rule.users \cup rule.groups : Trim[t] \in {s.user, s.group} \ {NoId}
    IN  CASE Mode[rule.mode] = "whitelist" -> listed
          [] Mode[rule.mode] = "blacklist" -> ~listed
          [] OTHER -> TRUE

\* A configuration is refused for a mode or a path nobody knows and for nothing
\* else; what is saved decides as it was said, by the rule of the command unless
\* it is off; and the next start accepts it and changes nothing.
ASSUME PreparedAsSaid ==
    \A i \in Inputs :
        /\ Prepared(i) = {} <=> \/ Mode[i.default.mode] \notin Modes \cup {""}
                                \/ \E t \in DOMAIN i.commands :
                                      \/ Trim[t] \notin Commands
                                      \/ Mode[i.commands[t].mode] \notin Modes \cup {""}
        /\ \A p \in Prepared(i) :
            /\ Prepared(p) = {p}
            /\ \A c \in Commands :
                LET named == {t \in DOMAIN i.commands : Trim[t] = c}
                IN  \E rule \in IF named = {} THEN {i.default} ELSE {i.commands[t] : t \in named} :
                        \A s \in Senders :
                            SaysYes(Rule(p, c), s) <=>
                                SaysYes(IF Mode[rule.mode] \in {"off", ""} THEN i.default ELSE rule, s)

-----------------------------------------------------------------------------
(* The search against what a text means, for all first words of at most four *)
(* letters of a small alphabet.                                              *)

Letters == {2, 3, 4}
FirstWords == [name : UNION {[1..n -> Letters] : n \in 0..4}, symbol : {slash, bang, NoSymbol}]

Longest(w) ==
    {c \in ToSet(Registered) : Begins(c, w) /\
        \A d \in ToSet(Registered) : Begins(d, w) => Len(Cmd[d].name) <= Len(Cmd[c].name)}

\* gluedCommand finds the longest name the word begins with, as its comment says
\* (register.go:398), unless another name lies between the two in the table.
ASSUME GluedFindsTheLongest ==
    \A w \in FirstWords :
        Glued(w) = IF \E c \in Longest(w) : ~Hidden(c, w) THEN CHOOSE c \in Longest(w) : TRUE ELSE NoCommand

\* A word resolves to a command it names, to the one it names exactly, and to
\* some command if it names one that is not hidden.
ASSUME ResolvesAsNamed ==
    \A w \in FirstWords :
        LET root == ResolveRoot(<<w>>).root IN
        /\ root # NoCommand => Names(<<w>>, root)
        /\ Heard(<<w>>) <=> root # NoCommand
        /\ \A c \in ToSet(Registered) : Readable(w) /\ Cmd[c].name = w.name => root = c
=============================================================================
