--------------------------- MODULE DispatchProofs ---------------------------
(***************************************************************************)
(* For every command tree, every set of messages and of configurations and *)
(* any number of events: a handler runs only if the text names its command *)
(* and for a sender the configuration of the plugin admitted at some       *)
(* moment since the event arrived, its failure is reported once, and who   *)
(* is turned away was refused for a reason.                                *)
(* Preparing an access configuration that was prepared changes nothing,    *)
(* what is prepared decides as it was said, and a glued word resolves to   *)
(* the longest name.                                                       *)
(***************************************************************************)
EXTENDS Dispatch, TLAPS

\* The configuration whose disabled flag is published.
Latest == IF applying = NoAccess THEN registry ELSE applying

\* The stages of an event in which no handler of a command was called.
BeforeRun == {"new", "resolve", "check", "queued"}

\* What the history of a message event contains while it is being handled.
Tracked(e) ==
    at[e] \in {"resolve", "check"} =>
        /\ registry \in inForce[e]
        /\ Latest \in inForce[e]

\* What the two tests have established.
Passed(e) ==
    /\ at[e] \in {"resolve", "check", "queued"} => msg[e] \in Messages
    /\ at[e] = "check" => /\ Root(msg[e]) # NoCommand
                          /\ \E a \in inForce[e] : ~a.disabled
    /\ at[e] = "queued" => /\ Root(msg[e]) # NoCommand
                           /\ Rank(msg[e]) /\ PrivateOk(msg[e])
                           /\ \E a \in inForce[e] : ~a.disabled
                           /\ \E a \in inForce[e] : Admits(a, msg[e])

Types ==
    /\ at \in [Events -> Stages]
    /\ msg \in [Events -> Messages \cup {NoMessage}]
    /\ ran \in [Events -> Commands \cup {NoCommand}]
    /\ registry \in Accesses
    /\ applying \in Accesses \cup {NoAccess}
    /\ inForce \in [Events -> SUBSET Accesses]

Inv ==
    /\ Types
    /\ disabled = Latest.disabled
    /\ \A e \in Events : Tracked(e) /\ Passed(e)
    /\ \A e \in Events : at[e] \in BeforeRun => ran[e] = NoCommand
    /\ RunsOnlyPermitted

-----------------------------------------------------------------------------
(* What a configuration becomes when it is saved or loaded.                 *)

LEMMA IdsDiffer == NoId \notin Users \cup Groups /\ Users \cap Groups = {}
  BY AccessAssumption

LEMMA IdsTrimmed ==
    \A t \in Users \cup Groups \cup Commands : t \in Texts /\ Trim[t] = t
  BY AccessAssumption

\* A prepared rule names openids of its kind, without blanks.
LEMMA NormalRuleClean ==
    ASSUME NEW r \in RawRule, NormalRule(r).mode \in Modes
    PROVE  NormalRule(r) \in RuleType
<1>1. CleanIds(r.users) \subseteq Users /\ CleanIds(r.groups) \subseteq Groups
  BY DEF RawRule, CleanIds, Said
<1> QED BY <1>1 DEF NormalRule, RuleType

\* Preparing such a rule changes nothing.
LEMMA NormalRuleKeeps ==
    ASSUME NEW r \in RuleType
    PROVE  NormalRule(r) = r /\ r \in RawRule
<1>1. ASSUME NEW S, S \subseteq Users \cup Groups  PROVE CleanIds(S) = S
  <2>1. \A v \in S : Trim[v] = v /\ v # NoId
    BY <1>1, IdsDiffer, IdsTrimmed
  <2>2. {Trim[v] : v \in S} = S
    BY <2>1
  <2> QED BY <2>1, <2>2 DEF CleanIds
<1>2. CleanIds(r.users) = r.users /\ CleanIds(r.groups) = r.groups
  <2>1. r.users \subseteq Users \cup Groups /\ r.groups \subseteq Users \cup Groups
    BY DEF RuleType
  <2> QED BY <1>1, <2>1
<1>3. Mode[r.mode] = r.mode /\ r.mode # ""
  BY AccessAssumption DEF RuleType, Modes
<1>4. r = [mode |-> r.mode, users |-> r.users, groups |-> r.groups]
  BY DEF RuleType
<1>5. r \in RawRule
  <2>1. r.users \subseteq Said(Users) /\ r.groups \subseteq Said(Groups)
    BY IdsTrimmed DEF RuleType, Said
  <2>2. r.mode \in ModeTexts
    BY AccessAssumption DEF RuleType
  <2> QED BY <1>4, <2>1, <2>2 DEF RawRule
<1> QED BY <1>2, <1>3, <1>4, <1>5 DEF NormalRule

LEMMA PreparedIsAccess ==
    ASSUME NEW i, IsRawAccess(i), NEW p \in Prepared(i)
    PROVE  /\ IsAccess(p)
           /\ \A c \in DOMAIN p.commands : p.commands[c].mode # "off"
           /\ p = [disabled |-> p.disabled, default |-> p.default, commands |-> p.commands]
           /\ p.commands = [c \in DOMAIN p.commands |-> p.commands[c]]
<1>1. PICK n \in Normalized(i) : Valid(n) /\ p = Overriding(n)
  BY DEF Prepared
<1>2. PICK met \in [{Trim[t] : t \in DOMAIN i.commands} -> DOMAIN i.commands] :
          n = [disabled |-> i.disabled,
               default  |-> NormalRule(i.default),
               commands |-> [q \in {Trim[t] : t \in DOMAIN i.commands}
                                 |-> NormalRule(i.commands[met[q]])]]
  BY <1>1 DEF Normalized
<1>3. n.default \in RuleType /\ n.disabled \in BOOLEAN
  BY <1>1, <1>2, NormalRuleClean DEF Valid, IsRawAccess
<1>4. \A q \in DOMAIN n.commands : q \in Commands /\ n.commands[q] \in RuleType
  <2> TAKE q \in DOMAIN n.commands
  <2>1. i.commands[met[q]] \in RawRule /\ n.commands[q] = NormalRule(i.commands[met[q]])
    BY <1>2 DEF IsRawAccess
  <2> QED BY <1>1, <2>1, NormalRuleClean DEF Valid
<1>5. /\ p.disabled = n.disabled /\ p.default = n.default
      /\ DOMAIN p = {"disabled", "default", "commands"}
      /\ DOMAIN p.commands = {q \in DOMAIN n.commands : n.commands[q].mode # "off"}
      /\ \A q \in DOMAIN p.commands : p.commands[q] = n.commands[q]
      /\ p = [disabled |-> p.disabled, default |-> p.default, commands |-> p.commands]
      /\ p.commands = [c \in DOMAIN p.commands |-> p.commands[c]]
  BY <1>1 DEF Overriding
<1> QED BY <1>3, <1>4, <1>5 DEF IsAccess

\* A configuration that was saved is one the next start accepts and reads as it
\* was saved, however the map of its rules is iterated; register.go:183-206,
\* 274-299.
THEOREM SavedAccessLoads ==
    ASSUME NEW i, IsRawAccess(i), NEW p \in Prepared(i)
    PROVE  Prepared(p) = {p}
<1>1. /\ IsAccess(p)
      /\ \A c \in DOMAIN p.commands : p.commands[c].mode # "off"
      /\ p = [disabled |-> p.disabled, default |-> p.default, commands |-> p.commands]
      /\ p.commands = [c \in DOMAIN p.commands |-> p.commands[c]]
  BY PreparedIsAccess
<1> DEFINE said == DOMAIN p.commands
<1>2. said \subseteq Commands /\ {Trim[t] : t \in said} = said
  <2>1. said \subseteq Commands
    BY <1>1 DEF IsAccess
  <2>2. \A t \in said : Trim[t] = t
    BY <2>1, IdsTrimmed
  <2> QED BY <2>1, <2>2
<1>3. NormalRule(p.default) = p.default
      /\ \A q \in said : NormalRule(p.commands[q]) = p.commands[q]
  BY <1>1, NormalRuleKeeps DEF IsAccess
<1>4. ASSUME NEW n \in Normalized(p)  PROVE n = p
  <2>1. PICK met \in [said -> said] :
            /\ \A q \in said : Trim[met[q]] = q
            /\ n = [disabled |-> p.disabled,
                    default  |-> NormalRule(p.default),
                    commands |-> [q \in said |-> NormalRule(p.commands[met[q]])]]
    BY <1>2, <1>4 DEF Normalized
  <2>2. \A q \in said : met[q] = q
    BY <1>2, <2>1, IdsTrimmed
  <2>3. [q \in said |-> NormalRule(p.commands[met[q]])] = p.commands
    BY <1>1, <1>3, <2>2
  <2> QED BY <1>1, <1>3, <2>1, <2>3
<1>5. p \in Normalized(p)
  <2> DEFINE met == [q \in said |-> q]
  <2>1. met \in [said -> said] /\ \A q \in said : Trim[met[q]] = q
    BY <1>2, IdsTrimmed
  <2>2. [q \in said |-> NormalRule(p.commands[met[q]])] = p.commands
    BY <1>1, <1>3
  <2>3. p = [disabled |-> p.disabled,
             default  |-> NormalRule(p.default),
             commands |-> [q \in said |-> NormalRule(p.commands[met[q]])]]
    BY <1>1, <1>3, <2>2
  <2> HIDE DEF met
  <2> QED BY <1>2, <2>1, <2>3 DEF Normalized
<1>6. Valid(p)
  BY <1>1 DEF Valid, IsAccess, RuleType
<1>7. Overriding(p) = p
  <2>1. {q \in said : p.commands[q].mode # "off"} = said
    BY <1>1
  <2> QED BY <1>1, <2>1 DEF Overriding
<1> QED BY <1>4, <1>5, <1>6, <1>7 DEF Prepared

\* What a rule says, whatever its blanks.
Says(rule, user, group) ==
    LET userListed  == user # NoId /\ \E t \in rule.users : Trim[t] = user
        groupListed == group # NoId /\ \E t \in rule.groups : Trim[t] = group
    IN  CASE Mode[rule.mode] = "whitelist" -> userListed \/ groupListed
          [] Mode[rule.mode] = "blacklist" -> ~userListed /\ ~groupListed
          [] OTHER -> TRUE

\* The rules that are said for a command, of which one is kept.
SaidFor(i, c) ==
    LET named == {t \in DOMAIN i.commands : Trim[t] = c}
    IN  IF named = {} THEN {i.default} ELSE {i.commands[t] : t \in named}

\* Taking blanks and capitals off a rule changes nothing it says.
LEMMA NormalRuleSays ==
    ASSUME NEW rule, NEW user, NEW group
    PROVE  LET r == NormalRule(rule)
               userMatched  == user # NoId /\ user \in r.users
               groupMatched == group # NoId /\ group \in r.groups
           IN  Says(rule, user, group) <=>
                   CASE r.mode = "whitelist" -> userMatched \/ groupMatched
                     [] r.mode = "blacklist" -> ~userMatched /\ ~groupMatched
                     [] OTHER -> TRUE
<1> DEFINE r == NormalRule(rule)
<1>1. user # NoId => (user \in r.users <=> \E t \in rule.users : Trim[t] = user)
  BY DEF NormalRule, CleanIds
<1>2. group # NoId => (group \in r.groups <=> \E t \in rule.groups : Trim[t] = group)
  BY DEF NormalRule, CleanIds
<1>3. /\ r.mode = "whitelist" <=> Mode[rule.mode] = "whitelist"
      /\ r.mode = "blacklist" <=> Mode[rule.mode] = "blacklist"
  BY DEF NormalRule
<1> HIDE DEF r
<1>4. Says(rule, user, group) <=>
          CASE r.mode = "whitelist" -> \/ user # NoId /\ user \in r.users
                                       \/ group # NoId /\ group \in r.groups
            [] r.mode = "blacklist" -> /\ ~(user # NoId /\ user \in r.users)
                                       /\ ~(group # NoId /\ group \in r.groups)
            [] OTHER -> TRUE
  BY <1>1, <1>2, <1>3 DEF Says
<1> QED BY <1>4 DEF r

\* A configuration that was accepted decides as it was said: for every command
\* by one of the rules said for it, or by the default where none is or that
\* one is off; register.go:183-206, 274-299, 414-444.
THEOREM PreparedDecides ==
    ASSUME NEW i, IsRawAccess(i), NEW p \in Prepared(i), NEW c \in Commands
    PROVE  \E rule \in SaidFor(i, c) : \A user, group :
               CanUse(p, c, user, group) <=>
                   Says(IF Mode[rule.mode] \in {"off", ""} THEN i.default ELSE rule, user, group)
<1> DEFINE paths == {Trim[t] : t \in DOMAIN i.commands}
<1>1. PICK n \in Normalized(i) : Valid(n) /\ p = Overriding(n)
  BY DEF Prepared
<1>2. PICK met \in [paths -> DOMAIN i.commands] :
          /\ \A q \in paths : Trim[met[q]] = q
          /\ n = [disabled |-> i.disabled,
                  default  |-> NormalRule(i.default),
                  commands |-> [q \in paths |-> NormalRule(i.commands[met[q]])]]
  BY <1>1 DEF Normalized
<1>3. /\ p.default = NormalRule(i.default)
      /\ DOMAIN p.commands = {q \in paths : NormalRule(i.commands[met[q]]).mode # "off"}
      /\ \A q \in DOMAIN p.commands : p.commands[q] = NormalRule(i.commands[met[q]])
  BY <1>1, <1>2 DEF Overriding
<1> DEFINE rule == IF c \in paths THEN i.commands[met[c]] ELSE i.default
           kept == IF Mode[rule.mode] \in {"off", ""} THEN i.default ELSE rule
<1>4. rule \in SaidFor(i, c)
  <2>1. CASE c \in paths
    BY <1>2, <2>1 DEF SaidFor
  <2>2. CASE c \notin paths
    BY <2>2 DEF SaidFor
  <2> QED BY <2>1, <2>2
<1>5. Rule(p, c) = NormalRule(kept)
  <2>1. \A r : NormalRule(r).mode = "off" <=> Mode[r.mode] \in {"off", ""}
    BY DEF NormalRule
  <2>2. CASE c \in paths
    BY <1>3, <2>1, <2>2 DEF Rule
  <2>3. CASE c \notin paths
    BY <1>3, <2>3 DEF Rule
  <2> QED BY <2>2, <2>3
<1> HIDE DEF kept, rule, paths
<1>6. ASSUME NEW user, NEW group
      PROVE  CanUse(p, c, user, group) <=> Says(kept, user, group)
  BY <1>5, NormalRuleSays DEF CanUse
<1>7. \A user, group : CanUse(p, c, user, group) <=>
          Says(IF Mode[rule.mode] \in {"off", ""} THEN i.default ELSE rule, user, group)
  BY <1>6 DEF kept
<1> QED BY <1>4, <1>7

\* A configuration is accepted exactly if the modes that are read are modes and
\* the paths are commands.  Of two spellings of a path one rule is read, so a
\* mode nobody knows passes in the other; register.go:183-206, 274-299.
THEOREM PreparedAccepts ==
    ASSUME NEW i, IsRawAccess(i)
    PROVE  Prepared(i) # {} <=>
               /\ Mode[i.default.mode] \in Modes \cup {""}
               /\ \A t \in DOMAIN i.commands :
                     /\ Trim[t] \in Commands
                     /\ \E u \in DOMAIN i.commands : /\ Trim[u] = Trim[t]
                                                     /\ Mode[i.commands[u].mode] \in Modes \cup {""}
<1> DEFINE said == DOMAIN i.commands
           paths == {Trim[t] : t \in said}
           good(u) == Mode[i.commands[u].mode] \in Modes \cup {""}
<1>1. \A r : NormalRule(r).mode \in Modes <=> Mode[r.mode] \in Modes \cup {""}
  BY DEF NormalRule, Modes
<1>2. ASSUME Prepared(i) # {}
      PROVE  /\ Mode[i.default.mode] \in Modes \cup {""}
             /\ \A t \in said : Trim[t] \in Commands /\ \E u \in said : Trim[u] = Trim[t] /\ good(u)
  <2>1. PICK n \in Normalized(i) : Valid(n)
    BY <1>2 DEF Prepared
  <2>2. PICK met \in [paths -> said] :
            /\ \A q \in paths : Trim[met[q]] = q
            /\ n = [disabled |-> i.disabled, default |-> NormalRule(i.default),
                    commands |-> [q \in paths |-> NormalRule(i.commands[met[q]])]]
    BY <2>1 DEF Normalized
  <2>3. \A q \in paths : q \in Commands /\ good(met[q])
    BY <1>1, <2>1, <2>2 DEF Valid
  <2>4. ASSUME NEW t \in said
        PROVE  Trim[t] \in Commands /\ \E u \in said : Trim[u] = Trim[t] /\ good(u)
    <3>1. Trim[t] \in paths /\ met[Trim[t]] \in said
      BY <2>2
    <3> QED BY <2>2, <2>3, <3>1
  <2> QED BY <1>1, <2>1, <2>2, <2>4 DEF Valid
<1>3. ASSUME /\ Mode[i.default.mode] \in Modes \cup {""}
             /\ \A t \in said : Trim[t] \in Commands /\ \E u \in said : Trim[u] = Trim[t] /\ good(u)
      PROVE  Prepared(i) # {}
  <2> DEFINE met == [q \in paths |-> CHOOSE u \in said : Trim[u] = q /\ good(u)]
             n == [disabled |-> i.disabled, default |-> NormalRule(i.default),
                   commands |-> [q \in paths |-> NormalRule(i.commands[met[q]])]]
  <2>1. \A q \in paths : met[q] \in said /\ Trim[met[q]] = q /\ good(met[q])
    <3> HIDE DEF good
    <3> TAKE q \in paths
    <3>1. \E u \in said : Trim[u] = q /\ good(u)
      BY <1>3
    <3>2. met[q] = CHOOSE u \in said : Trim[u] = q /\ good(u)
      OBVIOUS
    <3> QED BY <3>1, <3>2
  <2>2. met \in [paths -> said]
    BY <2>1
  <2> HIDE DEF met
  <2>3. n \in Normalized(i)
    BY <2>1, <2>2 DEF Normalized
  <2>4. Valid(n)
    <3>1. \A q \in paths : q \in Commands
      BY <1>3
    <3> QED BY <1>1, <1>3, <2>1, <3>1 DEF Valid
  <2> QED BY <2>3, <2>4 DEF Prepared
<1> QED BY <1>2, <1>3

LEMMA AccessesPrepared == \A a \in Accesses : IsAccess(a)
  BY PreparedIsAccess, DispatchAssumption DEF Accesses

-----------------------------------------------------------------------------
\* The search of a table finds an entry of the table that matches.
LEMMA WinnerHits ==
    ASSUME NEW cs, NEW hits, Winner(cs, hits) # NoCommand
    PROVE  \E i \in hits : Winner(cs, hits) = cs[i]
<1>1. \E i \in hits : \A j \in hits : j <= i
  BY DEF Winner
<1> QED BY <1>1 DEF Winner

LEMMA ByNameFinds ==
    ASSUME NEW name, ByName(name) # NoCommand
    PROVE  ByName(name) \in Commands /\ Cmd[ByName(name)].name = name
<1> DEFINE hits == {i \in DOMAIN Registered : Cmd[Registered[i]].name = name}
<1>1. ByName(name) = Winner(Registered, hits)
  BY DEF ByName
<1>2. PICK i \in hits : ByName(name) = Registered[i]
  BY <1>1, WinnerHits
<1> QED BY <1>2, CommandsAssumption

LEMMA MatchNameFinds ==
    ASSUME NEW w, NEW bare \in BOOLEAN, MatchName(w, bare) # NoCommand
    PROVE  /\ MatchName(w, bare) \in Commands /\ Called(MatchName(w, bare), w.name)
           /\ Readable(w) /\ (bare \/ HasSymbol(w))
<1>1. CASE ByName(w.name) # NoCommand
  BY <1>1, ByNameFinds DEF MatchName, Called
<1>2. CASE ByName(w.name) = NoCommand
  <2>1. MatchName(w, bare) = ByAlias(w.name)
    BY <1>2 DEF MatchName
  <2>2. PICK i \in DOMAIN Registered :
            ByAlias(w.name) = Registered[i] /\ w.name \in Cmd[Registered[i]].aliases
    BY <2>1, WinnerHits DEF ByAlias
  <2> QED BY <2>1, <2>2, CommandsAssumption DEF MatchName, Called
<1> QED BY <1>1, <1>2

LEMMA GluedFinds ==
    ASSUME NEW w, Glued(w) # NoCommand
    PROVE  Glued(w) \in Commands /\ HasSymbol(w) /\ IsStrictPrefix(Cmd[Glued(w)].name, w.name)
<1>1. PICK c : HasSymbol(w) /\ IsStrictPrefix(Cmd[c].name, w.name) /\ Glued(w) = ByName(Cmd[c].name)
  BY DEF Glued
<1> QED BY <1>1, ByNameFinds

\* A text resolves only to a command it names.
LEMMA ResolvedNamed ==
    ASSUME NEW m \in Messages, Root(m) # NoCommand
    PROVE  Root(m) \in Commands /\ Names(m.words, Root(m))
<1> DEFINE words == m.words
           w     == words[1]
<1>1. Root(m) = ResolveRoot(words).root
  BY DEF Root, Resolved
<1>2. words # <<>> /\ Len(words) \in Nat
  <2>1. words \in Seq(Words)
    BY DispatchAssumption DEF MessageType
  <2>2. words # <<>>
    BY <1>1 DEF ResolveRoot, Resolution
  <2> QED BY <2>1, <2>2
<1>3. CASE LoneSymbol(w)
  <2>1. ResolveRoot(words) = IF Len(words) < 2 THEN Resolution(NoCommand, <<>>)
                             ELSE Resolution(MatchName(words[2], TRUE), Tail(Tail(words)))
    BY <1>2, <1>3 DEF ResolveRoot
  <2>2. ~(Len(words) < 2) /\ Root(m) = MatchName(words[2], TRUE)
    <3>1. \A c, tail : Resolution(c, tail).root = c
      BY DEF Resolution
    <3>2. Len(words) < 2 => Root(m) = NoCommand
      BY <1>1, <2>1, <3>1
    <3>3. ~(Len(words) < 2) => Root(m) = MatchName(words[2], TRUE)
      BY <1>1, <2>1, <3>1
    <3> QED BY <3>2, <3>3
  <2>3. Len(words) > 1
    BY <1>2, <2>2
  <2>4. Called(Root(m), words[2].name) /\ Readable(words[2]) /\ Root(m) \in Commands
    BY <2>2, MatchNameFinds
  <2> QED BY <1>2, <1>3, <2>3, <2>4 DEF Names, NamesExactly
<1>4. CASE ~LoneSymbol(w) /\ MatchName(w, Bare) # NoCommand
  <2>1. Root(m) = MatchName(w, Bare)
    BY <1>1, <1>2, <1>4 DEF ResolveRoot, Resolution
  <2> QED BY <1>2, <1>4, <2>1, MatchNameFinds, CommandsAssumption DEF Names, NamesExactly, Readable
<1>5. CASE ~LoneSymbol(w) /\ MatchName(w, Bare) = NoCommand
  <2>1. Root(m) = Glued(w)
    BY <1>1, <1>2, <1>5 DEF ResolveRoot, Resolution
  <2> QED BY <1>2, <2>1, GluedFinds DEF Names, Begins
<1> QED BY <1>3, <1>4, <1>5

\* Of two beginnings of one word the shorter begins the longer.
LEMMA PrefixesNest ==
    ASSUME NEW a \in Seq(Nat), NEW b \in Seq(Nat), NEW w \in Seq(Nat),
           IsStrictPrefix(a, w), IsStrictPrefix(b, w), Len(a) < Len(b)
    PROVE  IsStrictPrefix(a, b)
<1>1. Len(a) \in Nat /\ Len(b) \in Nat /\ Len(w) \in Nat /\ Len(a) <= Len(w) /\ Len(b) <= Len(w)
  BY DEF IsStrictPrefix, IsPrefix
<1>2. \A s \in {a, b} : \A i \in 1..Len(s) : s[i] = w[i]
  <2> TAKE s \in {a, b}
  <2> TAKE i \in 1..Len(s)
  <2>1. SubSeq(s, 1, Len(s)) = SubSeq(w, 1, Len(s)) /\ s \in Seq(Nat) /\ Len(s) <= Len(w)
    BY <1>1 DEF IsStrictPrefix, IsPrefix
  <2>2. SubSeq(s, 1, Len(s))[i] = s[i] /\ SubSeq(w, 1, Len(s))[i] = w[i]
    BY <1>1, <2>1
  <2> QED BY <2>1, <2>2
<1>3. SubSeq(a, 1, Len(a)) = SubSeq(b, 1, Len(a))
  BY <1>1, <1>2
<1> QED BY <1>1, <1>3 DEF IsStrictPrefix, IsPrefix

\* A word that begins with several names resolves to the longest of them
\* if it resolves at all, as the comment at register.go:398 says ...
THEOREM GluedLongest ==
    ASSUME NEW w \in Words, Glued(w) # NoCommand,
           NEW c \in ToSet(Registered), IsStrictPrefix(Cmd[c].name, w.name)
    PROVE  Len(Cmd[c].name) <= Len(Cmd[Glued(w)].name)
<1>1. PICK d \in ToSet(Registered) :
          /\ \A x \in {x \in ToSet(Registered) : Less(Cmd[x].name, w.name)} :
                 ~Less(Cmd[d].name, Cmd[x].name)
          /\ IsStrictPrefix(Cmd[d].name, w.name)
          /\ Glued(w) = ByName(Cmd[d].name)
  BY DEF Glued
<1>2. Cmd[Glued(w)].name = Cmd[d].name
  BY <1>1, ByNameFinds
<1>3. c \in Commands /\ d \in Commands
  BY CommandsAssumption DEF ToSet
<1>4. Cmd[c].name \in Seq(Nat) /\ Cmd[d].name \in Seq(Nat) /\ w.name \in Seq(Nat)
  BY <1>3, CommandsAssumption DEF Words
<1>5. ~IsStrictPrefix(Cmd[d].name, Cmd[c].name)
  BY <1>1 DEF Less
<1>6. ~(Len(Cmd[d].name) < Len(Cmd[c].name))
  BY <1>1, <1>4, <1>5, PrefixesNest
<1> QED BY <1>2, <1>4, <1>6

\* ... and it does if no registered name lies between that name and the word
\* in the sorted table (register.go:400-412): one that does hides it.
THEOREM GluedFound ==
    ASSUME NEW w \in Words, HasSymbol(w),
           NEW c \in ToSet(Registered), IsStrictPrefix(Cmd[c].name, w.name),
           ~\E d \in ToSet(Registered) : Less(Cmd[c].name, Cmd[d].name) /\ Less(Cmd[d].name, w.name)
    PROVE  Glued(w) = ByName(Cmd[c].name)
<1> DEFINE below == {x \in ToSet(Registered) : Less(Cmd[x].name, w.name)}
           last == {x \in below : \A d \in below : ~Less(Cmd[x].name, Cmd[d].name)}
           hits == {x \in last : HasSymbol(w) /\ IsStrictPrefix(Cmd[x].name, w.name)}
<1>1. c \in hits
  BY DEF Less
<1>2. \A x \in hits : Cmd[x].name = Cmd[c].name
  <2> TAKE x \in hits
  <2>1. /\ x \in ToSet(Registered) /\ IsStrictPrefix(Cmd[x].name, w.name)
        /\ ~IsStrictPrefix(Cmd[x].name, Cmd[c].name) /\ ~IsStrictPrefix(Cmd[c].name, Cmd[x].name)
    BY <1>1 DEF Less
  <2>2. c \in Commands /\ x \in Commands
    BY <2>1, CommandsAssumption DEF ToSet
  <2>3. Cmd[c].name \in Seq(Nat) /\ Cmd[x].name \in Seq(Nat) /\ w.name \in Seq(Nat)
    BY <2>2, CommandsAssumption DEF Words
  <2>4. ~(Len(Cmd[x].name) < Len(Cmd[c].name)) /\ ~(Len(Cmd[c].name) < Len(Cmd[x].name))
    BY <2>1, <2>3, PrefixesNest
  <2>5. Len(Cmd[x].name) = Len(Cmd[c].name)
    BY <2>3, <2>4
  <2>6. \A s \in Seq(Nat) : SubSeq(s, 1, Len(s)) = s
    OBVIOUS
  <2> QED BY <2>1, <2>3, <2>5, <2>6 DEF IsStrictPrefix, IsPrefix
<1>3. Glued(w) = ByName(Cmd[CHOOSE x \in hits : TRUE].name)
  <2>1. hits # {}
    BY <1>1
  <2> QED BY <2>1 DEF Glued
<1>4. (CHOOSE x \in hits : TRUE) \in hits
  BY <1>1
<1> HIDE DEF hits
<1> QED BY <1>2, <1>3, <1>4

\* The decision of the code is what the rule says: openids of users and of
\* groups differ, and the empty openid is on no list.
LEMMA CanUseAdmits ==
    ASSUME NEW a \in Accesses, NEW m \in Messages
    PROVE  CanUse(a, Leaf(m), m.user, m.group) <=> Admits(a, m)
<1> DEFINE rule == Rule(a, Leaf(m))
<1>1. IsAccess(a) /\ m \in MessageType
  BY AccessesPrepared, DispatchAssumption
<1>2. rule \in RuleType
  BY <1>1 DEF IsAccess, Rule
<1>3. m.user \in Users \cup {NoId} /\ m.group \in Groups \cup {NoId}
  BY <1>1 DEF MessageType
<1>4. rule.users \subseteq Users /\ rule.groups \subseteq Groups
  BY <1>2 DEF RuleType
<1>5. Listed(rule, m) <=> \/ m.user # NoId /\ m.user \in rule.users
                          \/ m.group # NoId /\ m.group \in rule.groups
  BY <1>3, <1>4, IdsDiffer DEF Listed
<1>6. CASE rule.mode = "whitelist"
  BY <1>5, <1>6 DEF CanUse, Admits
<1>7. CASE rule.mode = "blacklist"
  BY <1>5, <1>7 DEF CanUse, Admits
<1>8. CASE rule.mode \notin {"whitelist", "blacklist"}
  BY <1>8 DEF CanUse, Admits
<1> QED BY <1>6, <1>7, <1>8

LEMMA InvInit == Init => Inv
<1> SUFFICES ASSUME Init PROVE Inv
  OBVIOUS
<1>1. Types
  BY DispatchAssumption DEF Init, Types, Stages, Idle
<1>2. disabled = Latest.disabled
  BY DEF Init, Latest
<1>3. \A e \in Events : Tracked(e) /\ Passed(e)
  BY DEF Init, Tracked, Passed
<1> QED BY <1>1, <1>2, <1>3 DEF Init, Inv, RunsOnlyPermitted

\* The steps of an event other than its arrival, its tests and its handler
\* call leave Inv alone: they move the event between stages that say nothing.
LEMMA QuietStep ==
    ASSUME Inv, NEW e \in Events, NEW stage \in Stages \ BeforeRun, GoTo(e, stage),
           UNCHANGED <<msg, ran, admin, inForce>>
    PROVE  Inv'
<1>1. Types'
  BY DEF Inv, Types, GoTo, admin
<1>2. disabled' = Latest'.disabled
  BY DEF Inv, Latest, admin
<1>3. ASSUME NEW f \in Events PROVE Tracked(f)' /\ Passed(f)'
  <2>1. at'[f] \in {"resolve", "check", "queued"} => f # e /\ at'[f] = at[f]
    BY DEF GoTo, Inv, Types, BeforeRun
  <2> QED BY <2>1 DEF Inv, Tracked, Passed, Latest, admin
<1>4. ASSUME NEW f \in Events, at'[f] \in BeforeRun PROVE ran'[f] = NoCommand
  BY <1>4 DEF Inv, Types, GoTo
<1>5. RunsOnlyPermitted'
  BY DEF Inv, RunsOnlyPermitted
<1> QED BY <1>1, <1>2, <1>3, <1>4, <1>5 DEF Inv

LEMMA ReceiveMessageStep ==
    ASSUME Inv, NEW e \in Events, NEW m \in Messages, ReceiveMessage(e, m)
    PROVE  Inv'
<1> USE DEF ReceiveMessage, GoTo, admin
<1>1. Types'
  BY DEF Inv, Types, Stages, Since
<1>2. disabled' = Latest'.disabled
  BY DEF Inv, Latest
<1>3. ASSUME NEW f \in Events PROVE Tracked(f)' /\ Passed(f)'
  <2>1. CASE f = e
    BY <2>1 DEF Inv, Types, Tracked, Passed, Since, Latest
  <2>2. CASE f # e
    BY <2>2 DEF Inv, Types, Tracked, Passed, Latest
  <2> QED BY <2>1, <2>2
<1>4. \A f \in Events : at'[f] \in BeforeRun => ran'[f] = NoCommand
  BY DEF Inv, Types, BeforeRun
<1>5. RunsOnlyPermitted'
  <2>1. ran[e] = NoCommand
    BY DEF Inv, BeforeRun
  <2> QED BY <2>1 DEF Inv, Types, RunsOnlyPermitted
<1> QED BY <1>1, <1>2, <1>3, <1>4, <1>5 DEF Inv

LEMMA ResolveStep ==
    ASSUME Inv, NEW e \in Events, Resolve(e)
    PROVE  Inv'
<1> USE DEF Resolve, GoTo, admin
<1>1. Types'
  BY DEF Inv, Types, Stages, Ended
<1>2. disabled' = Latest'.disabled
  BY DEF Inv, Latest
<1>3. ASSUME NEW f \in Events PROVE Tracked(f)' /\ Passed(f)'
  <2>1. CASE f = e
    <3>1. msg[e] \in Messages /\ registry \in inForce[e] /\ Latest \in inForce[e]
      BY DEF Inv, Tracked, Passed
    <3>2. at'[e] = "check" => Root(msg[e]) # NoCommand /\ ~Latest.disabled
      BY DEF Inv, Types
    <3>3. at'[e] \in {"check", "ignored"}
      BY DEF Inv, Types
    <3> QED BY <2>1, <3>1, <3>2, <3>3 DEF Tracked, Passed, Latest
  <2>2. CASE f # e
    BY <2>2 DEF Inv, Types, Tracked, Passed, Latest
  <2> QED BY <2>1, <2>2
<1>4. \A f \in Events : at'[f] \in BeforeRun => ran'[f] = NoCommand
  BY DEF Inv, Types, BeforeRun
<1>5. RunsOnlyPermitted'
  BY DEF Inv, RunsOnlyPermitted
<1> QED BY <1>1, <1>2, <1>3, <1>4, <1>5 DEF Inv

LEMMA PermitStep ==
    ASSUME Inv, NEW e \in Events, Permit(e)
    PROVE  Inv'
<1> USE DEF Permit, GoTo, admin
<1>1. Types'
  BY DEF Inv, Types, Stages, Ended
<1>2. disabled' = Latest'.disabled
  BY DEF Inv, Latest
<1>3. ASSUME NEW f \in Events PROVE Tracked(f)' /\ Passed(f)'
  <2>1. CASE f = e
    <3>1. /\ msg[e] \in Messages /\ Root(msg[e]) # NoCommand
          /\ registry \in inForce[e] /\ registry \in Accesses
          /\ \E a \in inForce[e] : ~a.disabled
      BY DEF Inv, Tracked, Passed, Types
    <3>2. Rank(msg[e]) /\ PrivateOk(msg[e])
          /\ CanUse(registry, Leaf(msg[e]), msg[e].user, msg[e].group)
      BY DEF Refused
    <3>3. Admits(registry, msg[e])
      BY <3>1, <3>2, CanUseAdmits
    <3>4. at'[e] \in {"queued", "usage"}
      BY DEF Inv, Types
    <3> QED BY <2>1, <3>1, <3>2, <3>3, <3>4 DEF Tracked, Passed
  <2>2. CASE f # e
    BY <2>2 DEF Inv, Types, Tracked, Passed, Latest
  <2> QED BY <2>1, <2>2
<1>4. \A f \in Events : at'[f] \in BeforeRun => ran'[f] = NoCommand
  BY DEF Inv, Types, BeforeRun
<1>5. RunsOnlyPermitted'
  BY DEF Inv, RunsOnlyPermitted
<1> QED BY <1>1, <1>2, <1>3, <1>4, <1>5 DEF Inv

LEMMA RunStep ==
    ASSUME Inv, NEW e \in Events, Run(e)
    PROVE  Inv'
<1> USE DEF Run, GoTo, admin
<1>1. Types'
  <2>1. msg[e] \in Messages
    BY DEF Inv, Passed
  <2>2. Root(msg[e]) \in Commands \cup {NoCommand}
    BY <2>1, ResolvedNamed
  <2> QED BY <2>2 DEF Inv, Types, Stages
<1>2. disabled' = Latest'.disabled
  BY DEF Inv, Latest
<1>3. \A f \in Events : Tracked(f)' /\ Passed(f)'
  BY DEF Inv, Types, Tracked, Passed, Latest
<1>4. \A f \in Events : at'[f] \in BeforeRun => ran'[f] = NoCommand
  BY DEF Inv, Types, BeforeRun
<1>5. RunsOnlyPermitted'
  <2>1. /\ Names(msg[e].words, Root(msg[e]))
        /\ Rank(msg[e]) /\ PrivateOk(msg[e])
        /\ \E a \in inForce[e] : ~a.disabled
        /\ \E a \in inForce[e] : Admits(a, msg[e])
    BY ResolvedNamed DEF Inv, Passed
  <2> QED BY <2>1 DEF Inv, Types, RunsOnlyPermitted
<1> QED BY <1>1, <1>2, <1>3, <1>4, <1>5 DEF Inv

LEMMA RefreshStep ==
    ASSUME Inv, NEW a \in Accesses, RefreshDisabled(a)
    PROVE  Inv'
<1> USE DEF RefreshDisabled
<1>1. Types'
  BY DEF Inv, Types
<1>2. disabled' = Latest'.disabled
  BY DispatchAssumption DEF Latest
<1>3. \A f \in Events : inForce[f] \subseteq inForce'[f]
  BY DEF Inv, Types
<1>4. ASSUME NEW f \in Events PROVE Tracked(f)' /\ Passed(f)'
  <2>1. at[f] \in {"resolve", "check"} => a \in inForce'[f]
    BY DEF Inv, Types, Idle, Ended
  <2>2. Latest' = a
    BY DispatchAssumption DEF Latest
  <2>3. Tracked(f)'
    BY <1>3, <2>1, <2>2 DEF Inv, Tracked
  <2>4. Passed(f)'
    BY <1>3 DEF Inv, Passed
  <2> QED BY <2>3, <2>4
<1>5. \A f \in Events : at'[f] \in BeforeRun => ran'[f] = NoCommand
  BY DEF Inv
<1>6. RunsOnlyPermitted'
  BY <1>3 DEF Inv, RunsOnlyPermitted
<1> QED BY <1>1, <1>2, <1>4, <1>5, <1>6 DEF Inv

LEMMA PublishStep ==
    ASSUME Inv, PublishRegistry
    PROVE  Inv'
<1> USE DEF PublishRegistry
<1>1. Types'
  BY DEF Inv, Types
<1>2. disabled' = Latest'.disabled /\ Latest' = Latest
  BY DEF Inv, Latest
<1>3. ASSUME NEW f \in Events PROVE Tracked(f)' /\ Passed(f)'
  BY <1>2 DEF Inv, Tracked, Passed, Latest
<1>4. \A f \in Events : at'[f] \in BeforeRun => ran'[f] = NoCommand
  BY DEF Inv
<1>5. RunsOnlyPermitted'
  BY DEF Inv, RunsOnlyPermitted
<1> QED BY <1>1, <1>2, <1>3, <1>4, <1>5 DEF Inv

\* Every step keeps Inv.
LEMMA InvStep == Inv /\ [Next]_vars => Inv'
<1> SUFFICES ASSUME Inv, [Next]_vars PROVE Inv'
  OBVIOUS
<1>1. CASE UNCHANGED vars
  BY <1>1 DEF vars, Inv, Types, Latest, Tracked, Passed, RunsOnlyPermitted
<1>2. ASSUME NEW e \in Events, EventStep(e) PROVE Inv'
  <2>1. ASSUME NEW m \in Messages, ReceiveMessage(e, m) PROVE Inv'
    BY <2>1, ReceiveMessageStep
  <2>2. ASSUME NEW b \in Buttons, ReceiveButton(e, b) PROVE Inv'
    BY <2>2, QuietStep DEF ReceiveButton, Stages, BeforeRun
  <2>3. ASSUME NEW b \in Buttons, SetCallback(e, b) PROVE Inv'
    BY <2>3 DEF SetCallback, admin, Inv, Types, Latest, Tracked, Passed, RunsOnlyPermitted
  <2>4. CASE ReceiveJoin(e) \/ ReceiveOther(e)
    BY <2>4, QuietStep DEF ReceiveJoin, ReceiveOther, Stages, Ended, BeforeRun
  <2>5. CASE Resolve(e)
    BY <2>5, ResolveStep
  <2>6. CASE Deny(e)
    BY <2>6, QuietStep DEF Deny, Stages, Ended, BeforeRun
  <2>7. CASE Permit(e)
    BY <2>7, PermitStep
  <2>8. CASE Run(e)
    BY <2>8, RunStep
  <2>9. CASE Return(e) \/ Fail(e) \/ Report(e)
    BY <2>9, QuietStep DEF Return, Fail, Report, Stages, Ended, BeforeRun
  <2>10. CASE Acknowledge(e) \/ Lookup(e) \/ RunCallback(e)
    BY <2>10, QuietStep DEF Acknowledge, Lookup, RunCallback, Stages, Ended, BeforeRun
  <2> QED BY <1>2, <2>1, <2>2, <2>3, <2>4, <2>5, <2>6, <2>7, <2>8, <2>9, <2>10
            DEF EventStep, MessageStep, HandlerStep, ButtonStep
<1>3. ASSUME NEW a \in Accesses, RefreshDisabled(a) PROVE Inv'
  BY <1>3, RefreshStep
<1>4. CASE PublishRegistry
  BY <1>4, PublishStep
<1> QED BY <1>1, <1>2, <1>3, <1>4 DEF Next

\* A handler runs only if the text names its command and for a sender the
\* configuration admitted since the event arrived, although the plugin switch
\* and the access rules are published and read separately; handle.go:36-79,
\* register.go:300-307, 414-444.
THEOREM PermittedCorrect == Spec => []RunsOnlyPermitted
<1>1. Inv => RunsOnlyPermitted
  BY DEF Inv
<1> QED BY <1>1, InvInit, InvStep, PTL DEF Spec

-----------------------------------------------------------------------------
(* What is sent once: the acknowledgement of a button, the report of an     *)
(* error.                                                                   *)

Once ==
    /\ button \in [Events -> Buttons \cup {NoButton}]
    /\ acked \in [Events -> 0..1] /\ reported \in [Events -> 0..1]
    /\ told \in [Events -> {"nobody", "root", "leaf"}]
    /\ applied \in 0..MaxApply /\ callbacks \subseteq Buttons
    /\ \A e \in Events : at[e] \in {"new", "ack"} => acked[e] = 0
    /\ \A e \in Events : at[e] \notin Ended => reported[e] = 0

LEMMA OnceInit == Init => Once
  BY DispatchAssumption DEF Init, Once

\* A step that acknowledges and reports nothing.
LEMMA OnceMove ==
    ASSUME Types, Once, NEW e \in Events, NEW stage \in Stages, GoTo(e, stage),
           UNCHANGED <<acked, told, reported, applied, callbacks>>,
           button' = button \/ \E b \in Buttons : button' = [button EXCEPT ![e] = b],
           stage \in {"new", "ack"} => at[e] \in {"new", "ack"},
           stage \notin Ended => at[e] \notin Ended
    PROVE  Once'
<1>1. \A f \in Events : at'[f] = IF f = e THEN stage ELSE at[f]
  BY DEF GoTo, Types
<1>2. button' \in [Events -> Buttons \cup {NoButton}]
  BY DEF Once
<1> QED BY <1>1, <1>2 DEF Once

LEMMA OnceStep == Types /\ Once /\ [Next]_vars => Once'
<1> SUFFICES ASSUME Types, Once, [Next]_vars  PROVE Once'
  OBVIOUS
<1>1. CASE UNCHANGED vars
  BY <1>1 DEF vars, Once
<1>2. ASSUME NEW e \in Events, EventStep(e)  PROVE Once'
  <2>1. ASSUME NEW m \in Messages, ReceiveMessage(e, m)  PROVE Once'
    BY <2>1, OnceMove DEF ReceiveMessage, admin, Stages, Ended
  <2>2. ASSUME NEW b \in Buttons, ReceiveButton(e, b)  PROVE Once'
    BY <2>2, OnceMove DEF ReceiveButton, admin, Stages, Ended
  <2>3. ASSUME NEW b \in Buttons, SetCallback(e, b)  PROVE Once'
    BY <2>3 DEF SetCallback, admin, Once
  <2>4. CASE ReceiveJoin(e) \/ ReceiveOther(e) \/ Resolve(e) \/ Permit(e)
    BY <2>4, OnceMove
    DEF ReceiveJoin, ReceiveOther, Resolve, Permit, admin, Stages, Ended
  <2>5. CASE Run(e) \/ Return(e) \/ Fail(e) \/ Lookup(e) \/ RunCallback(e)
    BY <2>5, OnceMove DEF Run, Return, Fail, Lookup, RunCallback, admin, Stages, Ended
  <2>6. CASE Report(e)
    BY <2>6 DEF Report, GoTo, admin, Once, Types, Ended
  <2>7. CASE Acknowledge(e)
    BY <2>7 DEF Acknowledge, GoTo, admin, Once, Types, Ended
  <2>8. CASE Deny(e)
    <3>1. told' \in [Events -> {"nobody", "root", "leaf"}]
      BY <2>8 DEF Deny, DeniedBy, Once
    <3> QED BY <2>8, <3>1 DEF Deny, GoTo, admin, Once, Types, Ended
  <2> QED BY <1>2, <2>1, <2>2, <2>3, <2>4, <2>5, <2>6, <2>7, <2>8
             DEF EventStep, MessageStep, HandlerStep, ButtonStep
<1>3. ASSUME NEW a \in Accesses, RefreshDisabled(a)  PROVE Once'
  BY <1>3, DispatchAssumption DEF RefreshDisabled, Once
<1>4. CASE PublishRegistry
  BY <1>4 DEF PublishRegistry, Once
<1> QED BY <1>1, <1>2, <1>3, <1>4 DEF Next

LEMMA OnceAlways == Spec => [](Inv /\ Once)
  BY InvInit, InvStep, OnceInit, OnceStep, PTL DEF Spec, Inv

\* The types: no button is acknowledged and no error reported twice;
\* handle.go:156-159, 251-262.
THEOREM TypeCorrect == Spec => []TypeOK
<1>1. Inv /\ Once => TypeOK
  <2> SUFFICES ASSUME Inv, Once  PROVE TypeOK
    OBVIOUS
  <2>1. disabled \in BOOLEAN
    <3>1. Latest \in Accesses
      BY DEF Inv, Types, Latest
    <3>2. Latest.disabled \in BOOLEAN
      BY <3>1, AccessesPrepared DEF IsAccess
    <3> QED BY <3>2 DEF Inv
  <2> QED BY <2>1 DEF Inv, Types, Once, TypeOK
<1> QED BY <1>1, OnceAlways, PTL

\* A command whose handler failed has called the HandleError of its leaf once
\* when it is done, and no other command has; handle.go:251-262.
THEOREM FailureCorrect == Spec => FailureReported
<1> DEFINE Finish(e) == at[e] # "done" /\ at'[e] = "done" =>
               reported'[e] = IF at[e] = "failed" /\ Cmd[Leaf(msg[e])].handleError THEN 1 ELSE 0
<1>1. ASSUME Inv, Once, [Next]_vars, NEW f \in Events, at[f] # "done", at'[f] = "done"
      PROVE  reported'[f] = IF at[f] = "failed" /\ Cmd[Leaf(msg[f])].handleError THEN 1 ELSE 0
  <2>1. reported[f] = 0 \/ at[f] \in Ended
    BY <1>1 DEF Once
  <2>2. PICK e \in Events : EventStep(e)
    BY <1>1 DEF Next, vars, RefreshDisabled, PublishRegistry
  <2>3. e = f /\ (Return(f) \/ Report(f) \/ RunCallback(f))
    BY <1>1, <2>2 DEF EventStep, MessageStep, HandlerStep, ButtonStep, ReceiveMessage,
        ReceiveButton, SetCallback, ReceiveJoin, ReceiveOther, Resolve, Deny, Permit, Run,
        Return, Fail, Report, Acknowledge, Lookup, RunCallback, GoTo, Inv, Types
  <2>4. CASE Return(f) \/ RunCallback(f)
    BY <2>1, <2>4 DEF Return, RunCallback, Ended
  <2>5. CASE Report(f)
    <3>1. at[f] = "failed" /\ reported[f] = 0 /\ reported \in [Events -> 0..1]
      BY <1>1, <2>1, <2>5 DEF Report, Ended, Once
    <3>2. CASE Cmd[Leaf(msg[f])].handleError
      BY <2>5, <3>1, <3>2 DEF Report
    <3>3. CASE ~Cmd[Leaf(msg[f])].handleError
      BY <2>5, <3>1, <3>3 DEF Report
    <3> QED BY <3>2, <3>3
  <2> QED BY <2>3, <2>4, <2>5
<1>2. Inv /\ Once /\ [Next]_vars => [\A e \in Events : Finish(e)]_vars
  BY <1>1
<1> QED BY <1>2, OnceAlways, PTL DEF Spec, FailureReported
-----------------------------------------------------------------------------
(* Why an event ended without a handler. *)

\* The stages of events that are no messages, or are not known to be one.
NoMessageYet == {"new", "ack", "lookup", "pressed"}

Explained(e) ==
    /\ at[e] \in NoMessageYet => msg[e] = NoMessage
    /\ at[e] \in NoMessageYet \cup {"ignored", "denied", "usage", "crashed"} => ran[e] = NoCommand
    /\ (at[e] = "ignored" /\ msg[e] # NoMessage) =>
           Root(msg[e]) = NoCommand \/ \E a \in inForce[e] : a.disabled
    /\ at[e] = "denied" =>
           \/ ~Rank(msg[e]) \/ ~PrivateOk(msg[e])
           \/ \E a \in inForce[e] : ~Admits(a, msg[e])
    /\ at[e] = "usage" => ~msg[e].argsOk

\* A message that no handler answers has been refused for a reason: it named no
\* command or the plugin was off, the rank or the place did not do, a rule in
\* force since it arrived did not admit its sender, or its arguments did not
\* parse.  Half a change of the configuration, the switch new and the rules old,
\* turns nobody away whom both configurations admit; handle.go:36-104.
RefusedForAReason ==
    \A e \in Events : at[e] \in {"ignored", "denied", "usage"} =>
        /\ ran[e] = NoCommand
        /\ msg[e] # NoMessage =>
              \/ Root(msg[e]) = NoCommand
              \/ \E a \in inForce[e] : a.disabled
              \/ ~Rank(msg[e]) \/ ~PrivateOk(msg[e])
              \/ \E a \in inForce[e] : ~Admits(a, msg[e])
              \/ ~msg[e].argsOk

LEMMA ExplainedMoves ==
    ASSUME Inv, \A e \in Events : Explained(e), NEW e \in Events, EventStep(e)
    PROVE  \A f \in Events : Explained(f)'
<1> USE DEF GoTo, admin
<1>1. /\ \A f \in Events \ {e} : UNCHANGED <<at[f], msg[f], ran[f]>>
      /\ UNCHANGED registry /\ \A f \in Events \ {e} : UNCHANGED inForce[f]
  BY DEF Inv, Types, EventStep, MessageStep, HandlerStep, ButtonStep, ReceiveMessage, ReceiveButton,
         SetCallback, ReceiveJoin, ReceiveOther, Resolve, Deny, Permit, Run, Return, Fail, Report,
         Acknowledge, Lookup, RunCallback
<1>2. \A f \in Events \ {e} : Explained(f)'
  BY <1>1 DEF Explained
<1>3. Explained(e)'
  <2> USE DEF Explained, NoMessageYet, Inv, Types
  <2>1. ASSUME NEW m \in Messages, ReceiveMessage(e, m)  PROVE Explained(e)'
    BY <2>1 DEF ReceiveMessage
  <2>2. ASSUME NEW b \in Buttons, ReceiveButton(e, b) \/ SetCallback(e, b)  PROVE Explained(e)'
    BY <2>2 DEF ReceiveButton, SetCallback
  <2>3. CASE ReceiveJoin(e) \/ ReceiveOther(e)
    BY <2>3 DEF ReceiveJoin, ReceiveOther
  <2>4. CASE Resolve(e)
    <3>1. ran[e] = NoCommand /\ Latest \in inForce[e] /\ disabled = Latest.disabled
      BY <2>4 DEF Resolve, BeforeRun, Tracked
    <3> QED BY <2>4, <3>1 DEF Resolve
  <2>5. CASE Deny(e)
    <3>1. /\ ran[e] = NoCommand /\ registry \in inForce[e] /\ registry \in Accesses
          /\ msg[e] \in Messages
      BY <2>5 DEF Deny, BeforeRun, Tracked, Passed
    <3>2. \/ ~Rank(msg[e]) \/ ~PrivateOk(msg[e])
          \/ ~Admits(registry, msg[e])
      BY <2>5, <3>1, CanUseAdmits DEF Deny, Refused
    <3> QED BY <2>5, <3>1, <3>2 DEF Deny
  <2>6. CASE Permit(e)
    <3>1. ran[e] = NoCommand
      BY <2>6 DEF Permit, BeforeRun
    <3> QED BY <2>6, <3>1 DEF Permit
  <2>7. CASE Run(e) \/ HandlerStep(e) \/ Report(e) \/ ButtonStep(e)
    BY <2>7 DEF Run, HandlerStep, Return, Fail, Report, ButtonStep, Acknowledge, Lookup, RunCallback
  <2> QED BY <2>1, <2>2, <2>3, <2>4, <2>5, <2>6, <2>7 DEF EventStep, MessageStep
<1> QED BY <1>2, <1>3

\* Nobody is turned away but for a reason that held at some moment since the
\* event arrived, however the configuration changes; handle.go:36-104.
THEOREM RefusedCorrect == Spec => []RefusedForAReason
<1> DEFINE Why == \A e \in Events : Explained(e)
<1>1. Init => Why
  BY DEF Init, Explained, NoMessageYet
<1>2. ASSUME Inv, Why, [Next]_vars  PROVE Why'
  <2>1. ASSUME NEW e \in Events, EventStep(e)  PROVE Why'
    BY <1>2, <2>1, ExplainedMoves
  <2>2. ASSUME NEW a \in Accesses, RefreshDisabled(a)  PROVE Why'
    <3>1. \A f \in Events : inForce[f] \subseteq inForce'[f]
      BY <1>2, <2>2 DEF RefreshDisabled, Inv, Types
    <3> QED BY <1>2, <2>2, <3>1 DEF RefreshDisabled, Explained
  <2>3. CASE PublishRegistry \/ UNCHANGED vars
    BY <1>2, <2>3 DEF PublishRegistry, vars, Explained
  <2> QED BY <1>2, <2>1, <2>2, <2>3 DEF Next
<1>3. Why => RefusedForAReason
  BY DEF Explained, RefusedForAReason
<1> HIDE DEF Why
<1>4. Inv /\ Why /\ [Next]_vars => Why'
  BY <1>2
<1> QED BY <1>1, <1>3, <1>4, InvInit, InvStep, PTL DEF Spec
-----------------------------------------------------------------------------
(* Every event comes to an end, with one run of one handler. *)

\* How many steps an event has before it at most, calls of SetCallback by its
\* handler left out.
StepsLeft(e) ==
    CASE at[e] = "new" -> 6       [] at[e] = "resolve" -> 5 [] at[e] = "check" -> 4
      [] at[e] = "queued" -> 3    [] at[e] = "running" -> 2 [] at[e] = "failed" -> 1
      [] at[e] = "ack" -> 3       [] at[e] = "lookup" -> 2  [] at[e] = "pressed" -> 1
      [] OTHER -> 0

\* The safety half of EveryEventAnswered: no step takes an event back, none but its
\* own steps moves it, and what it did is settled when it ends.  A handler is
\* called once, in the task that was queued for it; handle.go:36-145.
EventsConverge ==
    [][\A e \in Events :
          /\ \/ UNCHANGED at[e]
             \/ EventStep(e) /\ StepsLeft(e)' < StepsLeft(e)
          /\ StepsLeft(e) = 0 <=> at[e] \in Ended
          /\ at[e] \in Ended =>
                UNCHANGED <<at[e], msg[e], ran[e], told[e], reported[e], acked[e], inForce[e]>>
          /\ ran'[e] # ran[e] => ran[e] = NoCommand /\ at[e] = "queued" /\ at'[e] = "running"]_vars

\* An event only moves towards its end, by steps of its own, and calls one
\* handler at most; handle.go:36-145.
THEOREM EventsConvergeCorrect == Spec => EventsConverge
<1> DEFINE Step ==
        \A e \in Events :
          /\ \/ UNCHANGED at[e]
             \/ EventStep(e) /\ StepsLeft(e)' < StepsLeft(e)
          /\ StepsLeft(e) = 0 <=> at[e] \in Ended
          /\ at[e] \in Ended =>
                UNCHANGED <<at[e], msg[e], ran[e], told[e], reported[e], acked[e], inForce[e]>>
          /\ ran'[e] # ran[e] => ran[e] = NoCommand /\ at[e] = "queued" /\ at'[e] = "running"
<1>1. ASSUME Inv, Once, [Next]_vars  PROVE Step
  <2> SUFFICES ASSUME NEW e \in Events
               PROVE  /\ \/ UNCHANGED at[e]
                         \/ EventStep(e) /\ StepsLeft(e)' < StepsLeft(e)
                      /\ StepsLeft(e) = 0 <=> at[e] \in Ended
                      /\ at[e] \in Ended =>
                            UNCHANGED <<at[e], msg[e], ran[e], told[e], reported[e], acked[e], inForce[e]>>
                      /\ ran'[e] # ran[e] =>
                            ran[e] = NoCommand /\ at[e] = "queued" /\ at'[e] = "running"
    BY Zenon
  <2> USE <1>1
  <2>1. StepsLeft(e) = 0 <=> at[e] \in Ended
    BY DEF StepsLeft, Ended, Stages, Idle, Inv, Types
  <2>2. CASE EventStep(e)
    <3> USE DEF GoTo, admin
    <3>1. CASE \E b \in Buttons : SetCallback(e, b)
      BY <2>1, <3>1 DEF SetCallback, Ended
    <3>2. CASE Run(e)
      <4>1. ran[e] = NoCommand
        BY <3>2 DEF Run, Inv, BeforeRun
      <4> QED BY <2>1, <2>2, <3>2, <4>1 DEF Run, StepsLeft, Inv, Types, Ended
    <3>3. ASSUME ~(\E b \in Buttons : SetCallback(e, b)), ~Run(e)
          PROVE  /\ at[e] \notin Ended /\ UNCHANGED ran
                 /\ StepsLeft(e)' < StepsLeft(e)
      BY <2>2, <3>3 DEF EventStep, MessageStep, HandlerStep, ButtonStep, ReceiveMessage,
          ReceiveButton, ReceiveJoin, ReceiveOther, Resolve, Deny, Permit,
          Return, Fail, Report, Acknowledge, Lookup, RunCallback, StepsLeft, Ended, Inv, Types
    <3> QED BY <2>1, <2>2, <3>1, <3>2, <3>3
  <2>3. ASSUME NEW f \in Events, EventStep(f), f # e
        PROVE  UNCHANGED <<at[e], msg[e], ran[e], told[e], reported[e], acked[e], inForce[e]>>
    BY <2>3 DEF EventStep, MessageStep, HandlerStep, ButtonStep, ReceiveMessage, ReceiveButton,
         SetCallback, ReceiveJoin, ReceiveOther, Resolve, Deny, Permit, Run, Return, Fail, Report,
         Acknowledge, Lookup, RunCallback, GoTo, admin, Inv, Types, Once
  <2>4. ASSUME \/ \E a \in Accesses : RefreshDisabled(a)
               \/ PublishRegistry \/ UNCHANGED vars
        PROVE  /\ UNCHANGED <<at, ran>>
               /\ at[e] \in Ended => UNCHANGED <<msg[e], told[e], reported[e], acked[e], inForce[e]>>
    BY <2>4 DEF RefreshDisabled, PublishRegistry, vars, Inv, Types
  <2> QED BY <2>1, <2>2, <2>3, <2>4 DEF Next
<1> HIDE DEF Step
<1>2. Inv /\ Once /\ [Next]_vars => Step
  BY <1>1
<1>3. [][Step]_vars => EventsConverge
  BY PTL DEF EventsConverge, Step
<1> QED BY <1>2, <1>3, OnceAlways, PTL DEF Spec
=============================================================================
