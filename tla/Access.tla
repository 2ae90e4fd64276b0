------------------------------- MODULE Access -------------------------------
(***************************************************************************)
(* The access rules of a plugin in lib/plugin/register.go: what becomes of *)
(* a configuration when the console saves it (PrepareAccessConfiguration)  *)
(* and when the program reads it at its start (LoadAccessConfigurations),  *)
(* and the decision CanUse takes by it.                                    *)
(*                                                                         *)
(* A configuration is made of texts; Trim takes the blanks off a text, and *)
(* Mode also the capitals off the name of a mode.  A list of openids that  *)
(* is sorted and free of repetitions is a set.  A command stands for the   *)
(* path that names it.                                                     *)
(***************************************************************************)
EXTENDS Commands

CONSTANTS
    Users, Groups,  \* openids of users and of groups
    NoId,           \* the empty openid, the empty text
    Texts,          \* what a configuration may hold for an openid or a path
    Trim,           \* strings.TrimSpace
    ModeTexts,      \* what it may hold for a mode
    Mode            \* strings.ToLower after strings.TrimSpace

Modes == {"off", "whitelist", "blacklist"}

ASSUME AccessAssumption ==
    /\ NoId \notin Users \cup Groups
    /\ Users \cap Groups = {}
    /\ Users \cup Groups \cup Commands \cup {NoId} \subseteq Texts
    /\ Trim \in [Texts -> Texts]
    /\ \A t \in Texts : Trim[Trim[t]] = Trim[t]
    /\ \A t \in Users \cup Groups \cup Commands \cup {NoId} : Trim[t] = t
    /\ Modes \cup {""} \subseteq ModeTexts
    /\ Mode \in [ModeTexts -> ModeTexts]
    /\ \A m \in Modes \cup {""} : Mode[m] = m

\* What a rule says once it is prepared, and the configuration of a plugin.
RuleType == [mode : Modes, users : SUBSET Users, groups : SUBSET Groups]

IsAccess(a) ==
    /\ DOMAIN a = {"disabled", "default", "commands"}
    /\ a.disabled \in BOOLEAN
    /\ a.default \in RuleType
    /\ DOMAIN a.commands \subseteq Commands
    /\ \A c \in DOMAIN a.commands : a.commands[c] \in RuleType

\* What the console or the file may say: any mode, and for each list openids of
\* its kind, with blanks or empty.
Said(ids) == {t \in Texts : Trim[t] \in ids \cup {NoId}}

RawRule == [mode : ModeTexts, users : SUBSET Said(Users), groups : SUBSET Said(Groups)]

IsRawAccess(a) ==
    /\ DOMAIN a = {"disabled", "default", "commands"}
    /\ a.disabled \in BOOLEAN
    /\ a.default \in RawRule
    /\ DOMAIN a.commands \subseteq Texts
    /\ a.commands \in [DOMAIN a.commands -> RawRule]

-----------------------------------------------------------------------------
CleanIds(values) == {Trim[v] : v \in values} \ {NoId}

NormalRule(rule) ==
    [mode   |-> IF Mode[rule.mode] = "" THEN "off" ELSE Mode[rule.mode],
     users  |-> CleanIds(rule.users),
     groups |-> CleanIds(rule.groups)]

\* normalizeAccessConfig: of two paths that differ in blanks only, the one the
\* iteration over the map meets last stays.
Normalized(access) ==
    LET said  == DOMAIN access.commands
        paths == {Trim[t] : t \in said}
    IN  {[disabled |-> access.disabled,
          default  |-> NormalRule(access.default),
          commands |-> [p \in paths |-> NormalRule(access.commands[met[p]])]] :
              met \in {m \in [paths -> said] : \A p \in paths : Trim[m[p]] = p}}

Valid(access) ==
    /\ access.default.mode \in Modes
    /\ \A p \in DOMAIN access.commands : p \in Commands /\ access.commands[p].mode \in Modes

\* A rule for a command that is off is left out: the default applies.
Overriding(access) ==
    [disabled |-> access.disabled,
     default  |-> access.default,
     commands |-> [p \in {q \in DOMAIN access.commands : access.commands[q].mode # "off"}
                       |-> access.commands[p]]]

\* PrepareAccessConfiguration, and LoadAccessConfigurations for one plugin: the
\* outcomes, none if the configuration is refused.
Prepared(access) == {Overriding(n) : n \in {m \in Normalized(access) : Valid(m)}}

-----------------------------------------------------------------------------
Rule(access, path) ==
    IF path \in DOMAIN access.commands THEN access.commands[path] ELSE access.default

\* plugin.CanUse.  The empty openid never matches (contains).
CanUseOrMutant(access, path, user, group) ==
    LET rule == Rule(access, path)
        userMatched  == user # NoId /\ user \in rule.users
        groupMatched == group # NoId /\ group \in rule.groups
    IN  CASE rule.mode = "whitelist" -> userMatched \/ groupMatched
          [] rule.mode = "blacklist" -> ~userMatched \/ ~groupMatched
          [] OTHER -> TRUE

CanUse(access, path, user, group) ==
    LET rule == Rule(access, path)
        userMatched  == user # NoId /\ user \in rule.users
        groupMatched == group # NoId /\ group \in rule.groups
    IN  CASE rule.mode = "whitelist" -> userMatched \/ groupMatched
          [] rule.mode = "blacklist" -> ~userMatched /\ ~groupMatched
          [] OTHER -> TRUE
=============================================================================
