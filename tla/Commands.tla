------------------------------ MODULE Commands ------------------------------
(***************************************************************************)
(* How the text of a message becomes a command: the name, alias and        *)
(* subcommand tables of lib/plugin/register.go and the search in them.     *)
(* All commands are registered before the first message.                   *)
(*                                                                         *)
(* A name is a sequence of letters, numbered in their order; a word of a   *)
(* text is a symbol or NoSymbol and a name.  A symbol stands at the        *)
(* beginning of a word only; the names of commands are without it          *)
(* (normalizeName), that of a word that is only a symbol is empty.         *)
(***************************************************************************)
EXTENDS Naturals, SequencesExt

CONSTANTS
    Commands,    \* roots and subcommands of all plugins
    Cmd,         \* fields of each command: name, aliases, sub (SubCommand) ...
    Registered,  \* the root commands in the order of registration
    NoCommand,   \* nothing resolved, nothing run
    Symbols,     \* characters like / and #
    PrefixChars,    \* those that are enabled: constant.PrefixChars, without ""
    Bare,        \* a name without symbol is a command: "" is among PrefixChars
    NoSymbol

Words == [name : Seq(Nat), symbol : Symbols \cup {NoSymbol}]

ASSUME CommandsAssumption ==
    /\ NoCommand \notin Commands
    /\ NoSymbol \notin Symbols
    /\ PrefixChars \subseteq Symbols
    /\ Bare \in BOOLEAN
    /\ Registered \in Seq(Commands)
    /\ \A c \in Commands : Cmd[c].name \in Seq(Nat) /\ Cmd[c].sub \in Seq(Commands)

\* A table is filled in order, and an entry replaces one of the same name.
Winner(cs, hits) ==
    IF \E i \in hits : \A j \in hits : j <= i
    THEN cs[CHOOSE i \in hits : \A j \in hits : j <= i]
    ELSE NoCommand

ByName(name)  == Winner(Registered, {i \in DOMAIN Registered : Cmd[Registered[i]].name = name})
ByAlias(name) == Winner(Registered, {i \in DOMAIN Registered : name \in Cmd[Registered[i]].aliases})

Child(c, name) ==
    Winner(Cmd[c].sub, {i \in DOMAIN Cmd[c].sub :
        LET d == Cmd[Cmd[c].sub[i]] IN name = d.name \/ name \in d.aliases})

\* isExactSymbol, hasPrefixSymbol, and a word that is not lost to a symbol
\* nobody enabled.
LoneSymbol(w) == w.symbol \in PrefixChars /\ w.name = <<>>
HasSymbol(w)  == w.symbol \in PrefixChars /\ w.name # <<>>
Readable(w)   == w.symbol = NoSymbol \/ HasSymbol(w)

\* matchCommandName: names before aliases.
MatchName(w, allowBare) ==
    IF ~Readable(w) \/ (~allowBare /\ ~HasSymbol(w)) THEN NoCommand
    ELSE IF ByName(w.name) # NoCommand THEN ByName(w.name) ELSE ByAlias(w.name)

\* The order of strings.
Less(a, b) ==
    \/ IsStrictPrefix(a, b)
    \/ \E k \in DOMAIN a \cap DOMAIN b :
          a[k] < b[k] /\ \A i \in 1..(k - 1) : a[i] = b[i]

\* gluedCommand: the one name that precedes the word in the sorted table, if it
\* is a prefix of it.
Glued(w) ==
    LET below == {c \in ToSet(Registered) : Less(Cmd[c].name, w.name)}
        last  == {c \in below : \A d \in below : ~Less(Cmd[c].name, Cmd[d].name)}
        hits  == {c \in last : HasSymbol(w) /\ IsStrictPrefix(Cmd[c].name, w.name)}
    IN  IF hits = {} THEN NoCommand
        ELSE ByName(Cmd[CHOOSE c \in hits : TRUE].name)

Resolution(root, tail) == [root |-> root, tail |-> tail]

\* ResolveRoot: a lone symbol before the name, the name, or the name with the
\* beginning of the arguments glued to it.
ResolveRoot(words) ==
    LET w == words[1] IN
    CASE words = <<>> -> Resolution(NoCommand, <<>>)
      [] words # <<>> /\ LoneSymbol(w) ->
            IF Len(words) < 2 THEN Resolution(NoCommand, <<>>)
            ELSE Resolution(MatchName(words[2], TRUE), Tail(Tail(words)))
      [] words # <<>> /\ ~LoneSymbol(w) /\ MatchName(w, Bare) # NoCommand ->
            Resolution(MatchName(w, Bare), Tail(words))
      [] OTHER ->
            LET c == Glued(w)
                rest == [name |-> SubSeq(w.name, Len(Cmd[c].name) + 1, Len(w.name)),
                         symbol |-> NoSymbol]
            IN  IF c = NoCommand THEN Resolution(c, <<>>)
                ELSE Resolution(c, <<rest>> \o Tail(words))

\* Resolve: along the subcommands while the next word names one.
ResolveLeaf(root, tail) ==
    LET walk[i \in 0..Len(tail)] ==
            IF i = 0 THEN [leaf |-> root, used |-> 0]
            ELSE LET before == walk[i - 1]
                     w      == tail[i]
                     next   == IF Readable(w) THEN Child(before.leaf, w.name) ELSE NoCommand
                 IN  IF before.used < i - 1 \/ next = NoCommand THEN before
                     ELSE [leaf |-> next, used |-> i]
    IN  walk[Len(tail)].leaf

-----------------------------------------------------------------------------
(* What a text means, without the search.                                  *)

Called(c, name) == name = Cmd[c].name \/ name \in Cmd[c].aliases

\* The text names the root c: by name or alias, after a symbol or, if that is
\* enabled, without; or after a lone symbol ...
NamesExactly(words, c) ==
    LET w == words[1] IN
    \/ Called(c, w.name) /\ (HasSymbol(w) \/ (Bare /\ w.symbol = NoSymbol))
    \/ LoneSymbol(w) /\ Len(words) > 1 /\ Called(c, words[2].name) /\ Readable(words[2])

\* ... or by a name its first word begins with.
Begins(c, w) == HasSymbol(w) /\ IsStrictPrefix(Cmd[c].name, w.name)

Names(words, c) == words # <<>> /\ (NamesExactly(words, c) \/ Begins(c, words[1]))

\* Another name lies between such a name and the word, in the order of strings.
Hidden(c, w) ==
    \E d \in ToSet(Registered) :
        ~Begins(d, w) /\ Less(Cmd[c].name, Cmd[d].name) /\ Less(Cmd[d].name, w.name)

\* The text names a root that is found.
Heard(words) ==
    /\ words # <<>>
    /\ \E c \in ToSet(Registered) :
          NamesExactly(words, c) \/ (Begins(c, words[1]) /\ ~Hidden(c, words[1]))
=============================================================================
