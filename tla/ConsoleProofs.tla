---------------------------- MODULE ConsoleProofs ----------------------------
(***************************************************************************)
(* For any number of requests, plugins and core keys, and any number of    *)
(* failed writes and crashes: the copies of the settings agree, the image  *)
(* hosts included, a save changes only what it was asked to change, and a  *)
(* password left blank is kept, each with the exceptions its property      *)
(* names; and for any number of replies and parts, however the settings    *)
(* change under a reply, no part of it is sent twice and none is missing   *)
(* without an error, and a reply changes no setting.                       *)
(***************************************************************************)
EXTENDS Reply, TLAPS

Types ==
    /\ file \in [Entries -> Value \cup {Absent}]
    /\ memory \in [Entries -> Value \cup {Absent}]
    /\ live \in [Entries -> Value \cup {Absent}]
    /\ stage \in [Requests -> Stages]
    /\ want \in [Requests -> SUBSET Entries]
    /\ blank \in [Requests -> BOOLEAN]
    /\ value \in [Requests -> Value]
    /\ todo \in [Requests -> SUBSET Core]
    /\ read \in [Requests -> [Core -> Value \cup {Absent}]]
    /\ overtaken \in [Requests -> SUBSET Entries]
    /\ diverged \subseteq Entries

\* A request changes one kind of entry, and image hosts go their own way.
Apart(r) ==
    \/ want[r] \subseteq Core \/ want[r] \subseteq Plugins \/ want[r] \subseteq Accesses
    \/ \E h \in Hosts : want[r] = {h}

OwnWay(r) ==
    /\ stage[r] \in {"saved", "reading"} => want[r] \cap Hosts = {}
    /\ stage[r] \in {"writing", "written", "kept", "built"} =>
            overtaken[r] \subseteq Hosts /\ \E h \in Hosts : want[r] = {h}

\* Only a request that read the options has options to set.
Idle(r) == todo[r] # {} => stage[r] = "reading"

\* Memory against the file.
Refreshed ==
    /\ up => \A e \in Entries : memory[e] = file[e] \/ e \in leaked \/ Writing(e)
    /\ leaked \cap Core = {}

\* What a request carries towards the settings in force is what is saved.
Carries(r) ==
    /\ (stage[r] = "saved" /\ want[r] \cap Core = {}) =>
            \A e \in want[r] : file[e] = value[r] \/ e \in overtaken[r]
    /\ stage[r] = "written" => \A h \in want[r] : file[h] = value[r] \/ h \in overtaken[r]
    /\ stage[r] = "kept" => \A h \in want[r] : memory[h] # Absent
    /\ stage[r] = "built" => \A h \in want[r] : memory[h] = value[r] \/ h \in overtaken[r]
    /\ \A k \in todo[r] : read[r][k] = file[k] \/ k \in overtaken[r]

\* The settings in force against the file, or the memory of the Manager.
InForceOrKnown ==
    up => \A e \in Entries : live[e] = (IF e \in Hosts THEN memory[e] ELSE file[e]) \/ ~Settled(e)

\* What a request with a blank password prepared is the password saved, for an
\* image host the one in memory, which nobody is about to change.
KeepsPlugin(r) ==
    (stage[r] = "prepared" /\ blank[r] /\ r \notin stale) =>
        \A p \in Plugins \cap want[r] : value[r].secret = Secret(file[p])

KeepsHost(r) ==
    (stage[r] \in {"prepared", "writing"} /\ blank[r] /\ r \notin stale) =>
        \A h \in Hosts \cap want[r] :
            /\ value[r].secret = Secret(memory[h])
            /\ \A q \in Requests \ {r} : stage[q] \in {"writing", "written"} => h \notin want[q]

Keeps(r) == KeepsPlugin(r) /\ KeepsHost(r)

\* No request outlives the process.
Down == ~up => \A r \in Requests : stage[r] \in Ended \cup {"new"}

Inv ==
    /\ Types
    /\ \A r \in Requests : Apart(r) /\ OwnWay(r) /\ Idle(r) /\ Carries(r) /\ Keeps(r)
    /\ Down
    /\ Refreshed
    /\ InForceOrKnown

-----------------------------------------------------------------------------
LEMMA InitialType == Initial \in [Entries -> Value \cup {Absent}]
  BY DEF Initial, Value

LEMMA SecretType ==
    ASSUME NEW v \in Value \cup {Absent}
    PROVE  Secret(v) \in Requests \cup {Shipped, NoPassword}
  BY AbsentAssumption DEF Secret, Value

LEMMA InvInit == Init => Inv
<1> SUFFICES ASSUME Init PROVE Inv
  OBVIOUS
<1>1. Types
  BY InitialType DEF Init, Types, Stages, NoValue, Value, Entries, InMaps
<1>2. \A r \in Requests : Apart(r) /\ OwnWay(r) /\ Idle(r) /\ Carries(r) /\ Keeps(r)
  BY DEF Init, Apart, OwnWay, Idle, Carries, Keeps, KeepsPlugin, KeepsHost
<1>3. Refreshed /\ InForceOrKnown /\ Down
  BY DEF Init, Refreshed, Writing, InForceOrKnown, Down
<1> QED BY <1>1, <1>2, <1>3 DEF Inv

\* Nobody starts to write image hosts, and memory keeps them.
LEMMA KeepsHostFrame ==
    ASSUME Inv, NEW q \in Requests, stale \subseteq stale',
           \A h \in Hosts : memory'[h] = memory[h],
           \A x \in Requests : stage'[x] \in {"writing", "written"} =>
               stage[x] \in {"writing", "written"} /\ want'[x] = want[x],
           stage'[q] \in {"prepared", "writing"} =>
               /\ stage[q] \in {"prepared", "writing"}
               /\ blank'[q] = blank[q] /\ value'[q] = value[q] /\ want'[q] = want[q]
    PROVE  KeepsHost(q)'
  BY DEF Inv, Keeps, KeepsHost

-----------------------------------------------------------------------------
\* A request prepared from what is in force.
LEMMA PrepareStep ==
    ASSUME Inv, NEW r \in Requests, NEW p \in Plugins, NEW b \in BOOLEAN, Prepare(r, p, b)
    PROVE  Inv'
<1> USE DEF Prepare, GoTo, At
<1>0. p \in Entries /\ p \notin Core /\ p \notin Hosts
  BY ConsoleAssumption DEF Entries, InMaps
<1>1. Types'
  <2>1. Secret(live[p]) \in Requests \cup {Shipped, NoPassword}
    BY <1>0, SecretType DEF Inv, Types
  <2>2. [text |-> r, secret |-> IF b THEN Secret(live[p]) ELSE r] \in Value
    BY <2>1 DEF Value
  <2> QED BY <1>0, <2>2 DEF Inv, Types, Stages
<1>2. ASSUME NEW q \in Requests PROVE Apart(q)' /\ OwnWay(q)' /\ Idle(q)' /\ Carries(q)'
  BY <1>0 DEF Inv, Types, Apart, OwnWay, Idle, Carries
<1>3. ASSUME NEW q \in Requests PROVE Keeps(q)'
  <2>0. /\ \A x \in Requests : stage'[x] \in {"writing", "written"} =>
                stage[x] = stage'[x] /\ want'[x] = want[x]
        /\ stale \subseteq stale'
    BY DEF Inv, Types
  <2>1. CASE q # r
    <3>1. KeepsPlugin(q)' /\ (KeepsHost(q) => KeepsHost(q)')
      BY <2>0, <2>1 DEF Inv, Types, Keeps, KeepsPlugin, KeepsHost
    <3> QED BY <3>1 DEF Inv, Keeps
  <2>2. CASE q = r
    <3>1. (b /\ r \notin stale') => Settled(p)
      BY DEF Inv, Types
    <3>2. Settled(p) => live[p] = file[p]
      BY <1>0 DEF Inv, InForceOrKnown
    <3>3. want'[r] = {p} /\ blank'[r] = b /\ (b => value'[r].secret = Secret(live[p]))
      BY DEF Inv, Types
    <3> QED BY <1>0, <2>2, <3>1, <3>2, <3>3 DEF Keeps, KeepsPlugin, KeepsHost
  <2> QED BY <2>1, <2>2
<1>4. Refreshed'
  BY DEF Inv, Refreshed, Writing
<1>5. InForceOrKnown'
  <2>1. \A e : Pending(e) => Pending(e)'
    BY DEF Inv, Types, Pending
  <2> QED BY <2>1 DEF Inv, InForceOrKnown, Settled
<1> QED BY <1>1, <1>2, <1>3, <1>4, <1>5 DEF Inv, Down

LEMMA PrepareOtherStep ==
    ASSUME Inv, NEW r \in Requests,
           NEW w \in {{a} : a \in Accesses} \cup Patches, PrepareOther(r, w)
    PROVE  Inv'
<1> USE DEF PrepareOther, GoTo, At
<1>0. w \subseteq Entries /\ w \cap Plugins = {} /\ w \cap Hosts = {} /\ (w \subseteq Core \/ w \subseteq Accesses)
  BY ConsoleAssumption DEF Entries, InMaps
<1>1. Types'
  BY <1>0 DEF Inv, Types, Stages, Value
<1>2. ASSUME NEW q \in Requests PROVE Apart(q)' /\ OwnWay(q)' /\ Idle(q)' /\ Carries(q)' /\ Keeps(q)'
  <2>1. Apart(q)' /\ OwnWay(q)' /\ Idle(q)' /\ Carries(q)'
    BY <1>0 DEF Inv, Types, Apart, OwnWay, Idle, Carries
  <2>2. \A x \in Requests : stage'[x] \in {"writing", "written"} =>
                stage[x] = stage'[x] /\ want'[x] = want[x]
    BY DEF Inv, Types
  <2>3. Keeps(q)'
    BY <1>0, <2>2 DEF Inv, Types, Keeps, KeepsPlugin, KeepsHost
  <2> QED BY <2>1, <2>3
<1>3. Refreshed'
  <2>1. \A e : Writing(e) => Writing(e)'
    BY DEF Inv, Types, Writing
  <2> QED BY <2>1 DEF Inv, Refreshed
<1>4. InForceOrKnown'
  <2>1. \A e : Pending(e) => Pending(e)'
    BY DEF Inv, Types, Pending
  <2> QED BY <2>1 DEF Inv, InForceOrKnown, Settled
<1> QED BY <1>1, <1>2, <1>3, <1>4 DEF Inv, Down

\* A request prepared from what the Manager holds.
LEMMA ResolveHostsStep ==
    ASSUME Inv, NEW r \in Requests, NEW h \in Hosts, NEW b \in BOOLEAN, ResolveHosts(r, h, b)
    PROVE  Inv'
<1> USE DEF ResolveHosts, GoTo, At
<1>0. h \in Entries /\ h \notin Core /\ h \notin Plugins
  BY ConsoleAssumption DEF Entries, InMaps
<1>1. Types'
  <2>1. Secret(memory[h]) \in Requests \cup {Shipped, NoPassword}
    BY <1>0, SecretType DEF Inv, Types
  <2>2. [text |-> r, secret |-> IF b THEN Secret(memory[h]) ELSE r] \in Value
    BY <2>1 DEF Value
  <2> QED BY <1>0, <2>2 DEF Inv, Types, Stages
<1>2. ASSUME NEW q \in Requests PROVE Apart(q)' /\ OwnWay(q)' /\ Idle(q)' /\ Carries(q)' /\ Keeps(q)'
  <2>1. Apart(q)' /\ OwnWay(q)' /\ Idle(q)' /\ Carries(q)'
    BY <1>0 DEF Inv, Types, Apart, OwnWay, Idle, Carries
  <2>2. KeepsPlugin(q)'
    BY <1>0 DEF Inv, Types, Keeps, KeepsPlugin
  <2>3. KeepsHost(q)'
    <3>1. \A x \in Requests : stage'[x] \in {"writing", "written"} => x # r /\ stage[x] = stage'[x]
      BY DEF Inv, Types
    <3>2. CASE q # r
      BY <3>1, <3>2, KeepsHostFrame DEF Inv, Types
    <3>3. CASE q = r
      <4>1. want'[r] = {h} /\ blank'[r] = b /\ (b => value'[r].secret = Secret(memory'[h]))
        BY DEF Inv, Types
      <4>2. r \notin stale' => ~Writing(h)
        BY DEF Inv, Types
      <4> QED BY <3>1, <3>3, <4>1, <4>2 DEF Inv, Types, KeepsHost, Writing
    <3> QED BY <3>2, <3>3
  <2> QED BY <2>1, <2>2, <2>3 DEF Keeps
<1>3. Refreshed'
  <2>1. \A e : Writing(e) => Writing(e)'
    BY DEF Inv, Types, Writing
  <2> QED BY <2>1 DEF Inv, Refreshed
<1>4. InForceOrKnown'
  <2>1. \A e : Pending(e) => Pending(e)'
    BY DEF Inv, Types, Pending
  <2> QED BY <2>1 DEF Inv, InForceOrKnown, Settled
<1> QED BY <1>1, <1>2, <1>3, <1>4 DEF Inv, Down

-----------------------------------------------------------------------------
LEMMA FromFileType ==
    ASSUME Types
    PROVE  FromFile \in [Entries -> Value \cup {Absent}]
  BY DEF Types, FromFile, InMaps

LEMMA MutatedType ==
    ASSUME Types, NEW r \in Requests
    PROVE  /\ Mutated(r) \in [Entries -> Value \cup {Absent}]
           /\ SharedMaps(Mutated(r)) \in [Entries -> Value \cup {Absent}]
  BY FromFileType DEF Types, Mutated, SharedMaps

\* Only image hosts are written in two steps.
LEMMA WritingHosts ==
    ASSUME Inv, NEW e, Writing(e)
    PROVE  e \in Hosts
  BY DEF Inv, Writing, OwnWay

\* Besides what it was asked to save, a save writes what the file holds
\* already, or a leaked entry the file does not hold.
LEMMA SaveWrites ==
    ASSUME Inv, NEW r \in Requests, Save(r), NEW e \in Entries
    PROVE  /\ file'[e] = file[e] \/ e \in want[r] \/ (e \in leaked /\ file[e] = Absent)
           /\ e \in want[r] => file'[e] = value[r] /\ memory'[e] = value[r] /\ e \notin Hosts
           /\ e \in (Core \cup Hosts) \ want[r] => file'[e] = file[e]
           /\ e \in Hosts => file'[e] = file[e] /\ memory'[e] = memory[e]
<1> USE DEF Save, At
<1>1. /\ Apart(r) /\ Types /\ Refreshed /\ up /\ want[r] \subseteq InMaps \cup Core
      /\ want[r] \cap Hosts = {}
  BY DEF Inv, Types, Entries
<1>2. file'[e] = IF e \in Written(r) THEN memory'[e] ELSE file[e]
  BY DEF Inv, Types
<1>3. CASE e \in want[r]
  <2>1. e \in Written(r)
    BY <1>1, <1>3, ConsoleAssumption DEF Apart, Written, InMaps
  <2>2. memory'[e] = value[r]
    BY <1>3 DEF Mutated
  <2> QED BY <1>1, <1>2, <1>3, <2>1, <2>2
<1>4. CASE e \notin want[r]
  <2>1. memory'[e] = FromFile[e]
    BY <1>4 DEF Mutated
  <2>2. CASE e \in InMaps
    <3>1. FromFile[e] = file[e] \/ (FromFile[e] = memory[e] /\ file[e] = Absent)
      BY <2>2 DEF FromFile
    <3>2. e \notin Core \cup Hosts
      BY <2>2, ConsoleAssumption DEF InMaps
    <3>3. memory[e] = file[e] \/ e \in leaked
      BY <1>1, <3>2, WritingHosts DEF Refreshed
    <3> QED BY <1>2, <1>4, <2>1, <3>1, <3>2, <3>3
  <2>3. CASE e \notin InMaps
    <3>1. e \notin Written(r)
      BY <1>1, <1>4, <2>3 DEF Written, InMaps
    <3>2. memory'[e] = memory[e]
      BY <2>1, <2>3 DEF FromFile
    <3> QED BY <1>2, <1>4, <3>1, <3>2
  <2> QED BY <2>2, <2>3
<1> QED BY <1>3, <1>4

LEMMA SaveStep ==
    ASSUME Inv, NEW r \in Requests, Save(r)
    PROVE  Inv'
<1> USE DEF Save, Saved, GoTo, At
<1>0. Types /\ Refreshed /\ Apart(r) /\ want[r] \subseteq Entries /\ want[r] \cap Hosts = {} /\ up
  BY DEF Inv, Types
<1>1. Types'
  <2>1. memory' \in [Entries -> Value \cup {Absent}]
    BY <1>0, MutatedType
  <2>2. file' \in [Entries -> Value \cup {Absent}]
    BY <1>0, <2>1 DEF Types
  <2>3. overtaken' \in [Requests -> SUBSET Entries]
    BY <1>0, ConsoleAssumption DEF Types, Entries, InMaps
  <2>4. diverged' \subseteq Entries
    BY <1>0 DEF Types, Changed
  <2> QED BY <1>0, <2>1, <2>2, <2>3, <2>4 DEF Types, Stages
<1>9. /\ stage'[r] = "saved" /\ \A q \in Requests \ {r} : stage'[q] = stage[q]
      /\ \A q \in Requests \ {r} : overtaken[q] \subseteq overtaken'[q]
      /\ \A h \in Hosts : file'[h] = file[h] /\ memory'[h] = memory[h]
      /\ \A e : Writing(e) => Writing(e)'
  <2>1. \A h \in Hosts : file'[h] = file[h] /\ memory'[h] = memory[h]
    BY SaveWrites DEF Entries
  <2> QED BY <1>0, <2>1 DEF Types, Writing
<1>2. ASSUME NEW q \in Requests PROVE Apart(q)' /\ OwnWay(q)' /\ Idle(q)' /\ Carries(q)' /\ Keeps(q)'
  <2>1. Apart(q)' /\ Idle(q)'
    BY <1>0 DEF Inv, Apart, Idle, Types
  <2>2. ASSUME stage'[q] = "saved", want'[q] \cap Core = {}, NEW e \in want'[q]
        PROVE  file'[e] = value'[q] \/ e \in overtaken'[q]
    <3>1. e \in Entries /\ value[q] # Absent
      BY <2>2, <1>0, AbsentAssumption DEF Types
    <3>2. CASE q = r
      BY <3>1, <3>2, <2>2, SaveWrites
    <3>3. CASE q # r
      <4>1. stage[q] = "saved" /\ (file[e] = value[q] \/ e \in overtaken[q])
        BY <2>2, <3>3, <1>9 DEF Inv, Carries
      <4>2. overtaken'[q] = overtaken[q] \cup (want[q] \cap want[r])
        BY <2>2, <3>3, <4>1
      <4>3. file'[e] = file[e] \/ e \in want[r] \/ file[e] = Absent
        BY <3>1, SaveWrites
      <4> QED BY <2>2, <3>1, <4>1, <4>2, <4>3
    <3> QED BY <3>2, <3>3
  <2>3. ASSUME NEW k \in todo'[q]
        PROVE  read'[q][k] = file'[k] \/ k \in overtaken'[q]
    <3>1. k \in Core /\ k \in Entries
      BY <1>0, <2>3 DEF Types, Entries, InMaps
    <3>2. k \notin want[r] => file'[k] = file[k]
      BY <3>1, SaveWrites
    <3>3. q # r
      BY <2>3, <1>0 DEF Inv, Idle, Types
    <3>4. read[q][k] = file[k] \/ k \in overtaken[q]
      BY <2>3 DEF Inv, Carries
    <3>5. overtaken'[q] = overtaken[q] \cup (todo[q] \cap want[r])
      BY <3>3, <2>3, <1>0 DEF Inv, Idle, Types
    <3> QED BY <2>3, <3>2, <3>4, <3>5
  <2>4. KeepsPlugin(q)'
    <3> SUFFICES ASSUME stage'[q] = "prepared", blank'[q], q \notin stale',
                        NEW p \in Plugins \cap want'[q]
                 PROVE  value'[q].secret = Secret(file'[p])
      BY DEF KeepsPlugin
    <3>1. q # r /\ stage[q] = "prepared"
      BY <1>9
    <3>2. p \notin Changed(r) /\ q \notin stale
      BY <3>1
    <3>3. file'[p] = file[p]
      BY <3>2 DEF Changed, Entries, InMaps
    <3> QED BY <3>1, <3>2, <3>3 DEF Inv, Keeps, KeepsPlugin
  <2>5. OwnWay(q)'
    <3>1. CASE q = r
      BY <3>1, <1>0, <1>9 DEF OwnWay
    <3>2. CASE q # r
      <4>1. stage[q] \in {"writing", "written", "kept", "built"} => overtaken'[q] = overtaken[q]
        BY <3>2 DEF Inv, Idle
      <4> QED BY <3>2, <4>1, <1>9 DEF Inv, OwnWay
    <3> QED BY <3>1, <3>2
  <2>6. ASSUME stage'[q] \in {"written", "kept", "built"}, NEW h \in want'[q]
        PROVE  /\ stage'[q] = "kept" => memory'[h] # Absent
               /\ stage'[q] = "written" => file'[h] = value'[q] \/ h \in overtaken'[q]
               /\ stage'[q] = "built" => memory'[h] = value'[q] \/ h \in overtaken'[q]
    <3>1. q # r /\ stage[q] = stage'[q] /\ h \in Hosts
      BY <2>6, <1>9 DEF Inv, OwnWay
    <3> QED BY <2>6, <3>1, <1>9 DEF Inv, Carries
  <2>7. KeepsHost(q)'
    <3>1. \A x \in Requests : stage'[x] \in {"prepared", "writing", "written"} => stage[x] = stage'[x]
      BY <1>9
    <3> QED BY <3>1, <1>9 DEF Inv, Keeps, KeepsHost
  <2> QED BY <2>1, <2>2, <2>3, <2>4, <2>5, <2>6, <2>7 DEF Carries, Keeps
<1>3. Refreshed'
  <2>1. ASSUME NEW e \in Entries PROVE memory'[e] = file'[e] \/ e \in leaked' \/ Writing(e)'
    <3>1. CASE e \in want[r]
      BY <3>1, SaveWrites
    <3>2. CASE e \in Hosts
      BY <3>2, <1>0, <1>9 DEF Refreshed
    <3>3. CASE e \notin want[r] /\ e \notin Hosts
      <4>1. memory'[e] = FromFile[e]
        BY <3>3 DEF Mutated
      <4>2. FromFile[e] = file[e] \/ FromFile[e] = memory[e]
        BY DEF FromFile, InMaps
      <4>3. file'[e] = memory'[e] \/ file'[e] = file[e]
        OBVIOUS
      <4>4. memory[e] = file[e] \/ e \in leaked
        BY <3>3, <1>0, WritingHosts DEF Refreshed
      <4> QED BY <4>1, <4>2, <4>3, <4>4
    <3> QED BY <3>1, <3>2, <3>3
  <2> QED BY <2>1, <1>0 DEF Refreshed
<1>4. InForceOrKnown'
  <2> SUFFICES ASSUME up', NEW e \in Entries, Settled(e)'
               PROVE  live'[e] = IF e \in Hosts THEN memory'[e] ELSE file'[e]
    BY DEF InForceOrKnown
  <2>1. e \notin want[r]
    BY <1>9 DEF Settled, Pending
  <2>2. e \notin diverged' /\ file'[e] = file[e]
    BY <2>1 DEF Settled, Changed
  <2>3. ~Pending(e)
    <3>1. stage[r] = "prepared"
      OBVIOUS
    <3> QED BY <3>1, <1>9 DEF Settled, Pending
  <2>4. live[e] = IF e \in Hosts THEN memory[e] ELSE file[e]
    BY <2>2, <2>3, <1>0 DEF Inv, InForceOrKnown, Settled
  <2> QED BY <2>2, <2>4, <1>9
<1> QED BY <1>0, <1>1, <1>2, <1>3, <1>4 DEF Inv, Down

\* A refused save leaves everything but memory and its own stage alone.
LEMMA RefusedStep ==
    ASSUME Inv, NEW r \in Requests, stage[r] = "prepared", GoTo(r, "refused"),
           UNCHANGED <<up, file, live, want, blank, value, todo, read, stale,
                       overtaken, diverged>>,
           memory' \in [Entries -> Value \cup {Absent}],
           \A h \in Hosts : memory'[h] = memory[h],
           leaked' \cap Core = {},
           \A e \in Entries : memory'[e] = file[e] \/ e \in leaked' \/ Writing(e)
    PROVE  Inv'
<1> USE DEF GoTo
<1>0. stage'[r] = "refused" /\ \A q \in Requests \ {r} : stage'[q] = stage[q]
  BY DEF Inv, Types
<1>1. Types'
  BY DEF Inv, Types, Stages, Ended
<1>2. ASSUME NEW q \in Requests PROVE Apart(q)' /\ OwnWay(q)' /\ Idle(q)' /\ Carries(q)' /\ Keeps(q)'
  <2>1. Apart(q)' /\ OwnWay(q)' /\ Idle(q)'
    BY <1>0 DEF Inv, Types, Apart, OwnWay, Idle
  <2>2. Carries(q)'
    <3>1. stage[q] \in {"kept", "built"} => \A h \in want[q] : memory'[h] = memory[h]
      BY DEF Inv, OwnWay
    <3> QED BY <1>0, <3>1 DEF Inv, Carries
  <2>3. KeepsPlugin(q)'
    BY <1>0 DEF Inv, Keeps, KeepsPlugin
  <2>4. KeepsHost(q)'
    BY <1>0, KeepsHostFrame
  <2> QED BY <2>1, <2>2, <2>3, <2>4 DEF Keeps
<1>3. Refreshed'
  <2>1. \A e : Writing(e) => Writing(e)'
    BY <1>0 DEF Writing
  <2> QED BY <2>1 DEF Refreshed
<1>4. InForceOrKnown'
  <2>1. \A e : Pending(e) => Pending(e)'
    BY <1>0 DEF Pending
  <2> QED BY <2>1 DEF Inv, InForceOrKnown, Settled
<1>5. Down'
  BY <1>0 DEF Inv, Down, Ended
<1> QED BY <1>1, <1>2, <1>3, <1>4, <1>5 DEF Inv

LEMMA SaveUnreadableStep ==
    ASSUME Inv, NEW r \in Requests, SaveUnreadable(r)
    PROVE  Inv'
<1> USE DEF SaveUnreadable, At
<1>1. memory' \in [Entries -> Value \cup {Absent}]
  BY DEF Inv, Types
<1>2. leaked' \cap Core = {} /\ \A e \in Entries : memory'[e] = file[e] \/ e \in leaked' \/ Writing(e)
  BY DEF Inv, Refreshed
<1> QED BY <1>1, <1>2, RefusedStep

LEMMA SaveRefusedStep ==
    ASSUME Inv, NEW r \in Requests, SaveRefused(r)
    PROVE  Inv'
<1> USE DEF SaveRefused, At
<1>1. memory' \in [Entries -> Value \cup {Absent}]
  BY FromFileType DEF Inv, Types, SharedMaps
<1>2. \A h \in Hosts : memory'[h] = memory[h]
  BY ConsoleAssumption DEF SharedMaps, Entries, InMaps
<1>3. leaked' \cap Core = {} /\ \A e \in Entries : memory'[e] = file[e] \/ e \in leaked' \/ Writing(e)
  BY DEF Inv, Refreshed, SharedMaps, FromFile
<1> QED BY <1>1, <1>2, <1>3, RefusedStep

LEMMA WriteFailsStep ==
    ASSUME Inv, NEW r \in Requests, WriteFails(r)
    PROVE  Inv'
<1> USE DEF WriteFails, At
<1>1. memory' \in [Entries -> Value \cup {Absent}]
  BY MutatedType DEF Inv
<1>2. \A h \in Hosts : memory'[h] = memory[h]
  BY ConsoleAssumption DEF SharedMaps, Entries, InMaps
<1>3. ASSUME NEW e \in Entries PROVE memory'[e] = file[e] \/ e \in leaked' \/ Writing(e)
  <2>1. e \in InMaps => e \notin Core
    BY ConsoleAssumption DEF InMaps
  <2>2. memory[e] = file[e] \/ e \in leaked \/ Writing(e)
    BY DEF Inv, Refreshed
  <2> QED BY <2>1, <2>2 DEF SharedMaps, Mutated, FromFile
<1>4. leaked' \cap Core = {}
  BY DEF Inv, Refreshed
<1> QED BY <1>1, <1>2, <1>3, <1>4, RefusedStep

-----------------------------------------------------------------------------
\* What is put in force is what was saved, or is known to differ.
LEMMA InForceStep ==
    ASSUME Inv, NEW r \in Requests, stage[r] \in {"saved", "built"}, want[r] \cap Core = {}, up,
           InForce(r),
           UNCHANGED <<up, file, torn, memory, want, blank, value, todo, read,
                       faults, stale, overtaken, leaked>>
    PROVE  Inv'
<1> USE DEF InForce, GoTo
<1>0. stage'[r] = "done" /\ \A q \in Requests \ {r} : stage'[q] = stage[q]
  BY DEF Inv, Types
<1>1. Types'
  BY DEF Inv, Types, Stages, Ended
<1>2. ASSUME NEW q \in Requests PROVE Apart(q)' /\ OwnWay(q)' /\ Idle(q)' /\ Carries(q)' /\ Keeps(q)'
  <2>1. Apart(q)' /\ OwnWay(q)' /\ Idle(q)' /\ Carries(q)'
    BY <1>0 DEF Inv, Types, Apart, OwnWay, Idle, Carries
  <2>2. KeepsPlugin(q)'
    BY <1>0 DEF Inv, Keeps, KeepsPlugin
  <2>3. KeepsHost(q)'
    BY <1>0, KeepsHostFrame
  <2> QED BY <2>1, <2>2, <2>3 DEF Keeps
<1>3. Refreshed'
  <2>1. \A e : Writing(e) => Writing(e)'
    BY <1>0 DEF Writing
  <2> QED BY <2>1 DEF Inv, Refreshed
<1>4. InForceOrKnown'
  <2> SUFFICES ASSUME NEW e \in Entries, Settled(e)'
               PROVE  live'[e] = IF e \in Hosts THEN memory[e] ELSE file[e]
    BY DEF InForceOrKnown
  <2>1. CASE e \in want[r]
    <3>1. e \notin overtaken[r]
      BY DEF Settled
    <3>2. live'[e] = value[r]
      BY <2>1
    <3>3. IF stage[r] = "saved" THEN e \notin Hosts ELSE e \in Hosts
      BY <2>1 DEF Inv, OwnWay
    <3> QED BY <2>1, <3>1, <3>2, <3>3 DEF Inv, Carries
  <2>2. CASE e \notin want[r]
    <3>1. ~Pending(e)
      BY <1>0, <2>2 DEF Inv, Idle, Settled, Pending
    <3>2. e \notin diverged
      BY <2>2 DEF Settled
    <3> QED BY <2>2, <3>1, <3>2 DEF Inv, InForceOrKnown, Settled
  <2> QED BY <2>1, <2>2
<1> QED BY <1>1, <1>2, <1>3, <1>4 DEF Inv, Down

LEMMA ApplyStep ==
    ASSUME Inv, NEW r \in Requests, Apply(r)
    PROVE  Inv'
  BY InForceStep DEF Apply, At

LEMMA PublishStep ==
    ASSUME Inv, NEW r \in Requests, Publish(r)
    PROVE  Inv'
<1>1. want[r] \cap Core = {}
  BY ConsoleAssumption DEF Inv, OwnWay, Publish, At
<1> QED BY <1>1, InForceStep DEF Publish, At

LEMMA ApplyFailsStep ==
    ASSUME Inv, NEW r \in Requests, ApplyFails(r)
    PROVE  Inv'
<1> USE DEF ApplyFails, GoTo, At
<1>0. stage'[r] = "refused" /\ \A q \in Requests \ {r} : stage'[q] = stage[q]
  BY DEF Inv, Types
<1>1. Types'
  BY DEF Inv, Types, Stages, Ended
<1>2. ASSUME NEW q \in Requests PROVE Apart(q)' /\ OwnWay(q)' /\ Idle(q)' /\ Carries(q)' /\ Keeps(q)'
  <2>1. Apart(q)' /\ OwnWay(q)' /\ Idle(q)' /\ Carries(q)'
    BY <1>0 DEF Inv, Types, Apart, OwnWay, Idle, Carries
  <2>2. KeepsPlugin(q)'
    BY <1>0 DEF Inv, Keeps, KeepsPlugin
  <2>3. KeepsHost(q)'
    BY <1>0, KeepsHostFrame
  <2> QED BY <2>1, <2>2, <2>3 DEF Keeps
<1>3. Refreshed'
  <2>1. \A e : Writing(e) => Writing(e)'
    BY <1>0 DEF Writing
  <2> QED BY <2>1 DEF Inv, Refreshed
<1>4. InForceOrKnown'
  <2>1. \A e \in Entries : Settled(e)' => Settled(e)
    BY <1>0 DEF Settled, Pending
  <2> QED BY <2>1 DEF Inv, InForceOrKnown
<1> QED BY <1>1, <1>2, <1>3, <1>4 DEF Inv, Down

LEMMA ReadCurrentStep ==
    ASSUME Inv, NEW r \in Requests, ReadCurrent(r)
    PROVE  Inv'
<1> USE DEF ReadCurrent, GoTo, At
<1>0. /\ stage'[r] = "reading" /\ \A q \in Requests \ {r} : stage'[q] = stage[q]
      /\ todo'[r] = Core /\ \A q \in Requests \ {r} : todo'[q] = todo[q] /\ read'[q] = read[q]
  BY DEF Inv, Types
<1>1. \A k \in Core : k \in Entries /\ memory[k] = file[k] /\ read'[r][k] = memory[k]
  BY WritingHosts, ConsoleAssumption DEF Inv, Types, Refreshed, Entries
<1>2. Types'
  BY <1>1 DEF Inv, Types, Stages
<1>3. ASSUME NEW q \in Requests PROVE Apart(q)' /\ OwnWay(q)' /\ Idle(q)' /\ Carries(q)' /\ Keeps(q)'
  <2>1. Apart(q)' /\ OwnWay(q)' /\ Idle(q)'
    BY <1>0 DEF Inv, Apart, OwnWay, Idle
  <2>2. Carries(q)'
    <3>1. CASE q = r
      BY <1>0, <1>1, <3>1 DEF Carries
    <3>2. CASE q # r
      BY <1>0, <3>2 DEF Inv, Carries
    <3> QED BY <3>1, <3>2
  <2>3. KeepsPlugin(q)'
    BY <1>0 DEF Inv, Keeps, KeepsPlugin
  <2>4. KeepsHost(q)'
    BY <1>0, KeepsHostFrame
  <2> QED BY <2>1, <2>2, <2>3, <2>4 DEF Keeps
<1>4. Refreshed'
  <2>1. \A e : Writing(e) => Writing(e)'
    BY <1>0 DEF Writing
  <2> QED BY <2>1 DEF Inv, Refreshed
<1>5. InForceOrKnown'
  <2>1. todo[r] \subseteq Core
    BY DEF Inv, Types
  <2>2. \A e \in Entries : Settled(e)' => Settled(e)
    BY <1>0, <2>1 DEF Settled, Pending
  <2> QED BY <2>2 DEF Inv, InForceOrKnown
<1> QED BY <1>2, <1>3, <1>4, <1>5 DEF Inv, Down

LEMMA SetOptionStep ==
    ASSUME Inv, NEW r \in Requests, NEW k \in Core, SetOption(r, k)
    PROVE  Inv'
<1> USE DEF SetOption, GoTo, At
<1>0. k \in Entries /\ k \notin Hosts
  BY ConsoleAssumption DEF Entries
<1>1. Types'
  BY <1>0 DEF Inv, Types, Stages, Ended
<1>2. /\ stage'[r] \in {"reading", "done"} /\ \A q \in Requests \ {r} : stage'[q] = stage[q]
      /\ todo'[r] = todo[r] \ {k} /\ \A q \in Requests \ {r} : todo'[q] = todo[q]
      /\ todo'[r] # {} => stage'[r] = "reading"
  BY DEF Inv, Types
<1>3. ASSUME NEW q \in Requests PROVE Apart(q)' /\ OwnWay(q)' /\ Idle(q)' /\ Carries(q)' /\ Keeps(q)'
  <2>1. Apart(q)' /\ OwnWay(q)' /\ Idle(q)' /\ Carries(q)'
    BY <1>2 DEF Inv, Apart, OwnWay, Idle, Carries
  <2>2. KeepsPlugin(q)'
    BY <1>2 DEF Inv, Keeps, KeepsPlugin
  <2>3. KeepsHost(q)'
    BY <1>2, KeepsHostFrame
  <2> QED BY <2>1, <2>2, <2>3 DEF Keeps
<1>4. Refreshed'
  <2>1. \A e : Writing(e) => Writing(e)'
    BY <1>2 DEF Writing
  <2> QED BY <2>1 DEF Inv, Refreshed
<1>5. InForceOrKnown'
  <2> SUFFICES ASSUME NEW e \in Entries, Settled(e)'
               PROVE  live'[e] = IF e \in Hosts THEN memory[e] ELSE file[e]
    BY DEF InForceOrKnown
  <2>1. CASE e = k
    <3>1. k \notin overtaken[r]
      BY <2>1 DEF Settled
    <3> QED BY <2>1, <3>1, <1>0 DEF Inv, Types, Carries
  <2>2. CASE e # k
    <3>1. ~Pending(e)
      BY <2>2, <1>2 DEF Settled, Pending
    <3>2. e \notin diverged
      BY <2>2 DEF Settled
    <3>3. live'[e] = live[e]
      BY <2>2 DEF Inv, Types
    <3> QED BY <3>1, <3>2, <3>3 DEF Inv, InForceOrKnown, Settled
  <2> QED BY <2>1, <2>2
<1> QED BY <1>1, <1>3, <1>4, <1>5 DEF Inv, Down

-----------------------------------------------------------------------------
\* A request for image hosts on its way to memory changes one entry of the
\* file, and whoever wrote that entry before is overtaken.
LEMMA HostsStep ==
    ASSUME Inv, NEW r \in Requests, NEW h \in Hosts, want[r] = {h},
           stage[r] \in {"prepared", "writing"},
           NEW s \in {"writing", "written", "refused"}, GoTo(r, s),
           file' \in [Entries -> Value \cup {Absent}],
           \A e \in Entries \ {h} : file'[e] = file[e],
           overtaken' \in [Requests -> SUBSET Entries],
           \A q \in Requests \ {r} :
               /\ overtaken'[q] \subseteq overtaken[q] \cup want[r]
               /\ stage[q] # "writing" => overtaken[q] \subseteq overtaken'[q]
               /\ stage[q] = "written" /\ h \in want[q] => h \in overtaken'[q]
               /\ overtaken'[q] # overtaken[q] => stage[q] \in {"writing", "written"},
           overtaken'[r] \subseteq {h},
           s = "written" => file'[h] = value[r] \/ h \in overtaken'[r],
           s = "written" => stage[r] = "writing",
           stale \subseteq stale',
           s = "writing" => \A q \in Requests \ {r} :
               stage[q] \in {"prepared", "writing"} /\ h \in want[q] => q \in stale',
           leaked \subseteq leaked', leaked' \subseteq leaked \cup {h},
           s = "refused" => h \in leaked',
           UNCHANGED <<up, memory, live, want, blank, value, todo, read, diverged>>
    PROVE  Inv'
<1> USE DEF GoTo
<1>0. /\ stage'[r] = s /\ \A q \in Requests \ {r} : stage'[q] = stage[q]
      /\ h \notin Core \cup InMaps /\ h \in Entries
  BY ConsoleAssumption DEF Inv, Types, Entries
<1>1. Types'
  BY <1>0 DEF Inv, Types, Stages, Ended
<1>2. ASSUME NEW q \in Requests PROVE Apart(q)' /\ OwnWay(q)' /\ Idle(q)' /\ Carries(q)' /\ Keeps(q)'
  <2>1. Apart(q)' /\ Idle(q)'
    BY <1>0 DEF Inv, Apart, Idle
  <2>2. OwnWay(q)'
    BY <1>0 DEF Inv, OwnWay
  <2>3. Carries(q)'
    <3>1. CASE q = r
      <4>1. todo[r] = {}
        BY DEF Inv, Idle
      <4> QED BY <3>1, <4>1, <1>0 DEF Carries
    <3>2. CASE q # r
      <4>1. stage[q] # "writing" => overtaken[q] \subseteq overtaken'[q]
        BY <3>2
      <4>2. want[q] \subseteq Entries /\ todo[q] \subseteq Core /\ Core \subseteq Entries
        BY DEF Inv, Types, Entries
      <4>3. ASSUME stage[q] = "saved", want[q] \cap Core = {}, NEW e \in want[q]
            PROVE  file'[e] = value[q] \/ e \in overtaken'[q]
        BY <4>1, <4>2, <4>3 DEF Inv, OwnWay, Carries
      <4>4. ASSUME stage[q] = "written", NEW e \in want[q]
            PROVE  file'[e] = value[q] \/ e \in overtaken'[q]
        BY <3>2, <4>1, <4>2, <4>4 DEF Inv, Carries
      <4>5. ASSUME NEW k \in todo[q]
            PROVE  read[q][k] = file'[k] \/ k \in overtaken'[q]
        BY <4>1, <4>2, <4>5, <1>0 DEF Inv, Idle, Carries
      <4>6. ASSUME NEW e \in want[q]
            PROVE  /\ stage[q] = "kept" => memory[e] # Absent
                   /\ stage[q] = "built" => memory[e] = value[q] \/ e \in overtaken'[q]
        BY <4>1, <4>6 DEF Inv, Carries
      <4> QED BY <3>2, <4>3, <4>4, <4>5, <4>6, <1>0 DEF Carries
    <3> QED BY <3>1, <3>2
  <2>4. KeepsPlugin(q)'
    <3>1. \A p \in Plugins : p \in Entries /\ p # h
      BY <1>0 DEF Entries, InMaps
    <3> QED BY <1>0, <3>1 DEF Inv, Keeps, KeepsPlugin
  <2>5. KeepsHost(q)'
    <3>1. CASE s # "writing"
      BY <1>0, <3>1, KeepsHostFrame
    <3>2. CASE s = "writing" /\ q = r
      BY <1>0, <3>2 DEF Inv, Keeps, KeepsHost
    <3>3. CASE s = "writing" /\ q # r
      BY <1>0, <3>3 DEF Inv, Keeps, KeepsHost
    <3> QED BY <3>1, <3>2, <3>3
  <2> QED BY <2>1, <2>2, <2>3, <2>4, <2>5 DEF Keeps
<1>3. Refreshed'
  <2>1. \A e : e # h => (Writing(e) => Writing(e)')
    BY <1>0 DEF Writing
  <2>2. Writing(h)' \/ h \in leaked'
    BY <1>0 DEF Writing
  <2> QED BY <1>0, <2>1, <2>2 DEF Inv, Refreshed
<1>4. InForceOrKnown'
  <2>1. \A e : Pending(e) => Pending(e)'
    BY <1>0 DEF Pending
  <2> QED BY <2>1 DEF Inv, InForceOrKnown, Settled
<1>5. Down'
  BY <1>0 DEF Inv, Down, Ended
<1> QED BY <1>1, <1>2, <1>3, <1>4, <1>5 DEF Inv

LEMMA OpenHostsStep ==
    ASSUME Inv, NEW r \in Requests, OpenHosts(r)
    PROVE  Inv'
<1> USE DEF OpenHosts, At
<1>1. PICK h \in Hosts : want[r] = {h}
  BY ConsoleAssumption DEF Inv, Apart, InMaps
<1>2. h \in Entries /\ GoTo(r, "writing")
  BY DEF Entries
<1>3. /\ file' \in [Entries -> Value \cup {Absent}]
      /\ \A e \in Entries \ {h} : file'[e] = file[e]
  BY <1>1 DEF Inv, Types
<1>4. /\ overtaken' \in [Requests -> SUBSET Entries]
      /\ \A q \in Requests \ {r} :
             /\ overtaken'[q] \subseteq overtaken[q] \cup want[r]
             /\ stage[q] # "writing" => overtaken[q] \subseteq overtaken'[q]
             /\ stage[q] = "written" /\ h \in want[q] => h \in overtaken'[q]
             /\ overtaken'[q] # overtaken[q] => stage[q] \in {"writing", "written"}
      /\ overtaken'[r] \subseteq {h}
  BY <1>1 DEF Inv, Types, Passed
<1>5. /\ stale \subseteq stale'
      /\ \A q \in Requests \ {r} :
             stage[q] \in {"prepared", "writing"} /\ h \in want[q] => q \in stale'
  BY <1>1 DEF Passed
<1> QED BY <1>1, <1>2, <1>3, <1>4, <1>5, HostsStep

LEMMA WriteHostsStep ==
    ASSUME Inv, NEW r \in Requests, WriteHosts(r)
    PROVE  Inv'
<1> USE DEF WriteHosts, At
<1>1. PICK h \in Hosts : want[r] = {h}
  BY DEF Inv, OwnWay
<1>2. GoTo(r, "written")
  OBVIOUS
<1>3. /\ file' \in [Entries -> Value \cup {Absent}]
      /\ \A e \in Entries \ {h} : file'[e] = file[e]
      /\ file'[h] = value[r] \/ h \in overtaken'[r]
  BY <1>1 DEF Inv, Types, Overtake, Entries
<1>4. /\ overtaken' \in [Requests -> SUBSET Entries]
      /\ \A q \in Requests \ {r} :
             /\ overtaken'[q] \subseteq overtaken[q] \cup want[r]
             /\ overtaken[q] \subseteq overtaken'[q]
             /\ stage[q] = "written" /\ h \in want[q] => h \in overtaken'[q]
             /\ overtaken'[q] # overtaken[q] => stage[q] \in {"writing", "written"}
      /\ overtaken'[r] \subseteq {h}
  BY <1>1 DEF Inv, Types, Overtake, Passed
<1>5. stale \subseteq stale'
  OBVIOUS
<1> QED BY <1>1, <1>2, <1>3, <1>4, <1>5, HostsStep

LEMMA WriteHostsFailsStep ==
    ASSUME Inv, NEW r \in Requests, WriteHostsFails(r)
    PROVE  Inv'
<1> USE DEF WriteHostsFails, At
<1>1. CASE stage[r] = "prepared"
  <2>1. memory' \in [Entries -> Value \cup {Absent}]
    BY DEF Inv, Types
  <2>2. leaked' \cap Core = {} /\ \A e \in Entries : memory'[e] = file[e] \/ e \in leaked' \/ Writing(e)
    BY <1>1 DEF Inv, Refreshed
  <2> QED BY <1>1, <2>1, <2>2, RefusedStep
<1>2. CASE stage[r] = "writing"
  <2>1. PICK h \in Hosts : want[r] = {h}
    BY <1>2 DEF Inv, OwnWay
  <2>2. GoTo(r, "refused")
    OBVIOUS
  <2>3. /\ file' \in [Entries -> Value \cup {Absent}]
        /\ \A e \in Entries \ {h} : file'[e] = file[e]
    BY <1>2, <2>1 DEF Inv, Types
  <2>4. /\ overtaken' \in [Requests -> SUBSET Entries]
        /\ \A q \in Requests \ {r} :
               /\ overtaken'[q] \subseteq overtaken[q] \cup want[r]
               /\ overtaken[q] \subseteq overtaken'[q]
               /\ stage[q] = "written" /\ h \in want[q] => h \in overtaken'[q]
               /\ overtaken'[q] # overtaken[q] => stage[q] \in {"writing", "written"}
        /\ overtaken'[r] \subseteq {h}
    BY <1>2, <2>1 DEF Inv, Types, Overtake, Passed
  <2>5. leaked \subseteq leaked' /\ leaked' \subseteq leaked \cup {h} /\ h \in leaked'
    BY <1>2, <2>1
  <2> QED BY <1>2, <2>1, <2>2, <2>3, <2>4, <2>5, HostsStep
<1> QED BY <1>1, <1>2

LEMMA KeepHostsStep ==
    ASSUME Inv, NEW r \in Requests, KeepHosts(r)
    PROVE  Inv'
<1> USE DEF KeepHosts, GoTo, At
<1>1. PICK h \in Hosts : want[r] = {h}
  BY DEF Inv, OwnWay
<1>0. /\ stage'[r] = "kept" /\ \A q \in Requests \ {r} : stage'[q] = stage[q]
      /\ h \notin Core \cup InMaps /\ h \in Entries
      /\ value[r] \in Value /\ value[r] # Absent
      /\ memory'[h] = value[r] /\ \A e \in Entries \ {h} : memory'[e] = memory[e]
  BY <1>1, ConsoleAssumption, AbsentAssumption DEF Inv, Types, Entries
<1>2. /\ overtaken' \in [Requests -> SUBSET Entries]
      /\ \A q \in Requests \ {r} :
             /\ overtaken'[q] \subseteq overtaken[q] \cup {h}
             /\ overtaken[q] \subseteq overtaken'[q]
             /\ stage[q] = "built" /\ h \in want[q] => h \in overtaken'[q]
             /\ overtaken'[q] # overtaken[q] => stage[q] = "built"
      /\ overtaken'[r] = {}
  BY <1>1 DEF Inv, Types, Overtake, Passed
<1>3. Types'
  BY <1>0, <1>2 DEF Inv, Types, Stages
<1>4. ASSUME NEW q \in Requests PROVE Apart(q)' /\ OwnWay(q)' /\ Idle(q)' /\ Carries(q)' /\ Keeps(q)'
  <2>1. Apart(q)' /\ Idle(q)'
    BY <1>0 DEF Inv, Apart, Idle
  <2>2. OwnWay(q)'
    BY <1>0, <1>1, <1>2 DEF Inv, OwnWay
  <2>3. Carries(q)'
    <3>1. CASE q = r
      <4>1. todo[r] = {}
        BY DEF Inv, Idle
      <4> QED BY <3>1, <4>1, <1>0, <1>1 DEF Carries
    <3>2. CASE q # r
      <4>1. want[q] \subseteq Entries
        BY DEF Inv, Types
      <4>2. ASSUME NEW e \in want[q]
            PROVE  /\ stage[q] = "kept" => memory'[e] # Absent
                   /\ stage[q] = "built" => memory'[e] = value[q] \/ e \in overtaken'[q]
        BY <1>0, <1>2, <3>2, <4>1, <4>2 DEF Inv, Carries
      <4> QED BY <1>0, <1>2, <3>2, <4>2 DEF Inv, Carries
    <3> QED BY <3>1, <3>2
  <2>4. KeepsPlugin(q)'
    BY <1>0 DEF Inv, Keeps, KeepsPlugin
  <2>5. KeepsHost(q)'
    <3> SUFFICES ASSUME stage[q] \in {"prepared", "writing"}, blank[q], q \notin stale, q # r,
                        NEW g \in Hosts \cap want[q]
                 PROVE  /\ value[q].secret = Secret(memory'[g])
                        /\ \A x \in Requests \ {q} : stage'[x] \in {"writing", "written"} => g \notin want[x]
      BY <1>0 DEF KeepsHost
    <3>1. /\ value[q].secret = Secret(memory[g])
          /\ \A x \in Requests \ {q} : stage[x] \in {"writing", "written"} => g \notin want[x]
      BY DEF Inv, Keeps, KeepsHost
    <3>2. g # h /\ g \in Entries
      BY <1>1, <3>1 DEF Entries
    <3> QED BY <1>0, <3>1, <3>2
  <2> QED BY <2>1, <2>2, <2>3, <2>4, <2>5 DEF Keeps
<1>5. Refreshed'
  <2>1. \A e : e # h => (Writing(e) => Writing(e)')
    BY <1>0, <1>1 DEF Writing
  <2>2. memory'[h] = file[h] \/ h \in leaked'
    BY <1>0, <1>1 DEF Inv, Carries
  <2>3. leaked' \cap Core = {}
    BY <1>1, ConsoleAssumption DEF Inv, Refreshed, OwnWay
  <2>4. \A e \in leaked : e # h => e \in leaked'
    BY <1>1
  <2> QED BY <1>0, <2>1, <2>2, <2>3, <2>4 DEF Inv, Refreshed
<1>6. InForceOrKnown'
  <2>1. \A e : Pending(e) => Pending(e)'
    BY <1>0 DEF Pending
  <2>2. Pending(h)'
    BY <1>0, <1>1 DEF Pending
  <2> QED BY <1>0, <2>1, <2>2 DEF Inv, InForceOrKnown, Settled
<1> QED BY <1>0, <1>3, <1>4, <1>5, <1>6 DEF Inv, Down

LEMMA RebuildStep ==
    ASSUME Inv, NEW r \in Requests, Rebuild(r)
    PROVE  Inv'
<1> USE DEF Rebuild, GoTo, At
<1>1. PICK h \in Hosts : want[r] = {h}
  BY DEF Inv, OwnWay
<1>0. /\ stage'[r] = "built" /\ \A q \in Requests \ {r} : stage'[q] = stage[q]
      /\ value'[r] = memory[h] /\ \A q \in Requests \ {r} : value'[q] = value[q]
      /\ memory[h] \in Value
  <2>1. (CHOOSE g \in want[r] : TRUE) = h
    BY <1>1
  <2>2. memory[h] # Absent /\ h \in Entries
    BY <1>1 DEF Inv, Carries, Entries
  <2> QED BY <2>1, <2>2 DEF Inv, Types
<1>2. Types'
  BY <1>0 DEF Inv, Types, Stages
<1>3. ASSUME NEW q \in Requests PROVE Apart(q)' /\ OwnWay(q)' /\ Idle(q)' /\ Carries(q)' /\ Keeps(q)'
  <2>1. Apart(q)' /\ OwnWay(q)' /\ Idle(q)'
    BY <1>0 DEF Inv, Apart, OwnWay, Idle
  <2>2. Carries(q)'
    BY <1>0, <1>1 DEF Inv, Carries
  <2>3. KeepsPlugin(q)'
    BY <1>0 DEF Inv, Keeps, KeepsPlugin
  <2>4. KeepsHost(q)'
    BY <1>0, KeepsHostFrame
  <2> QED BY <2>1, <2>2, <2>3, <2>4 DEF Keeps
<1>4. Refreshed'
  <2>1. \A e : Writing(e) => Writing(e)'
    BY <1>0 DEF Writing
  <2> QED BY <2>1 DEF Inv, Refreshed
<1>5. InForceOrKnown'
  <2>1. \A e : Pending(e) => Pending(e)'
    BY <1>0 DEF Pending
  <2> QED BY <2>1 DEF Inv, InForceOrKnown, Settled
<1> QED BY <1>0, <1>2, <1>3, <1>4, <1>5 DEF Inv, Down

-----------------------------------------------------------------------------
LEMMA CrashStep == Inv /\ Crash => Inv'
<1> SUFFICES ASSUME Inv, Crash PROVE Inv'
  OBVIOUS
<1> USE DEF Crash
<1>1. Types' /\ Down'
  BY DEF Inv, Types, Stages, Ended, Down
<1>2. ASSUME NEW q \in Requests PROVE Apart(q)' /\ OwnWay(q)' /\ Idle(q)' /\ Carries(q)' /\ Keeps(q)'
  <2>1. stage'[q] \in Ended \cup {"new"} /\ todo'[q] = {}
    BY DEF Inv, Types, Ended
  <2> QED BY <2>1 DEF Inv, Ended, Apart, OwnWay, Idle, Carries, Keeps, KeepsPlugin, KeepsHost
<1>3. Refreshed' /\ InForceOrKnown'
  BY DEF Inv, Refreshed, InForceOrKnown
<1> QED BY <1>1, <1>2, <1>3 DEF Inv

LEMMA RestartStep == Inv /\ Restart => Inv'
<1> SUFFICES ASSUME Inv, Restart PROVE Inv'
  OBVIOUS
<1> USE DEF Restart, reqVars
<1>1. Types' /\ Down'
  BY DEF Inv, Types, Down
<1>2. ASSUME NEW q \in Requests PROVE Apart(q)' /\ OwnWay(q)' /\ Idle(q)' /\ Carries(q)' /\ Keeps(q)'
  <2>1. stage[q] \in Ended \cup {"new"}
    BY DEF Inv, Down
  <2>2. todo[q] = {}
    BY <2>1 DEF Inv, Idle, Ended
  <2> QED BY <2>1, <2>2 DEF Inv, Ended, Apart, OwnWay, Idle, Carries, Keeps, KeepsPlugin, KeepsHost
<1>3. Refreshed' /\ InForceOrKnown'
  BY DEF Refreshed, InForceOrKnown
<1> QED BY <1>1, <1>2, <1>3 DEF Inv

LEMMA InvStutter == Inv /\ UNCHANGED vars => Inv'
<1> SUFFICES ASSUME Inv, UNCHANGED vars PROVE Inv'
  OBVIOUS
<1> USE DEF vars
<1>1. Types' /\ Down'
  BY DEF Inv, Types, Down
<1>2. ASSUME NEW q \in Requests PROVE Apart(q)' /\ OwnWay(q)' /\ Idle(q)' /\ Carries(q)' /\ Keeps(q)'
  BY DEF Inv, Apart, OwnWay, Idle, Carries, Keeps, KeepsPlugin, KeepsHost
<1>3. Refreshed' /\ InForceOrKnown'
  BY DEF Inv, Refreshed, Writing, InForceOrKnown, Settled, Pending
<1> QED BY <1>1, <1>2, <1>3 DEF Inv

LEMMA InvNext == Inv /\ [Next]_vars => Inv'
<1> SUFFICES ASSUME Inv, [Next]_vars PROVE Inv'
  OBVIOUS
<1>1. ASSUME NEW r \in Requests, Begin(r) PROVE Inv'
  BY <1>1, PrepareStep, ResolveHostsStep, PrepareOtherStep DEF Begin
<1>2. ASSUME NEW r \in Requests, Persist(r) PROVE Inv'
  BY <1>2, SaveStep, SaveUnreadableStep, SaveRefusedStep, WriteFailsStep,
     OpenHostsStep, WriteHostsStep, WriteHostsFailsStep DEF Persist
<1>3. ASSUME NEW r \in Requests, Conclude(r) PROVE Inv'
  BY <1>3, ApplyStep, ApplyFailsStep, ReadCurrentStep, SetOptionStep,
     KeepHostsStep, RebuildStep, PublishStep DEF Conclude
<1> QED BY <1>1, <1>2, <1>3, CrashStep, RestartStep, InvStutter DEF Next

LEMMA InvAlways == Spec => []Inv
  BY InvInit, InvNext, PTL DEF Spec

-----------------------------------------------------------------------------
\* A key that applyCoreKey does not know is the same in all copies, and for
\* whoever has yet to set it.
Fixed ==
    \A k \in Unsavable :
        /\ file[k] = Initial[k] /\ memory[k] = Initial[k] /\ live[k] = Initial[k]
        /\ \A r \in Requests : k \in todo[r] => read[r][k] = Initial[k]

Bounded ==
    /\ up \in BOOLEAN /\ torn \in BOOLEAN
    /\ faults \in 0..MaxFaults
    /\ stale \subseteq Requests /\ leaked \subseteq Entries

LEMMA FixedNext == Inv /\ Fixed /\ [Next]_vars => Fixed'
<1> SUFFICES ASSUME Inv, Fixed, [Next]_vars, NEW k \in Unsavable
             PROVE  /\ file'[k] = Initial[k] /\ memory'[k] = Initial[k] /\ live'[k] = Initial[k]
                    /\ \A r \in Requests : k \in todo'[r] => read'[r][k] = Initial[k]
  BY DEF Fixed
<1> DEFINE Goal == /\ file'[k] = Initial[k] /\ memory'[k] = Initial[k] /\ live'[k] = Initial[k]
                   /\ \A r \in Requests : k \in todo'[r] => read'[r][k] = Initial[k]
<1>0. /\ k \in Core /\ k \in Entries /\ k \notin InMaps \cup Hosts
      /\ file[k] = Initial[k] /\ memory[k] = Initial[k] /\ live[k] = Initial[k]
      /\ \A r \in Requests : k \in todo[r] => read[r][k] = Initial[k]
  BY ConsoleAssumption DEF Fixed, Entries, InMaps
<1>1. ASSUME NEW r \in Requests, Begin(r) PROVE Goal
  BY <1>0, <1>1 DEF Begin, Prepare, ResolveHosts, PrepareOther
<1>2. ASSUME NEW r \in Requests, Persist(r) PROVE Goal
  <2>1. CASE Save(r)
    <3>1. k \notin want[r] /\ memory'[k] = memory[k] /\ file'[k] = file[k]
      BY <1>0, <2>1, SaveWrites DEF Save, Refused, Mutated, FromFile
    <3> QED BY <1>0, <2>1, <3>1 DEF Save, Saved
  <2>2. CASE SaveUnreadable(r) \/ SaveRefused(r) \/ WriteFails(r)
    BY <1>0, <2>2 DEF SaveUnreadable, SaveRefused, WriteFails, SharedMaps
  <2>3. CASE OpenHosts(r)
    <3>1. k \notin want[r]
      BY <1>0, <2>3, ConsoleAssumption DEF Inv, Apart, OpenHosts, InMaps
    <3> QED BY <1>0, <2>3, <3>1 DEF OpenHosts
  <2>4. CASE WriteHosts(r)
    <3>1. k \notin want[r]
      BY <1>0, <2>4 DEF Inv, OwnWay, WriteHosts, At
    <3> QED BY <1>0, <2>4, <3>1 DEF WriteHosts
  <2>5. CASE WriteHostsFails(r)
    <3>1. k \notin want[r]
      BY <1>0, <2>5, ConsoleAssumption DEF Inv, Apart, WriteHostsFails, InMaps
    <3> QED BY <1>0, <2>5, <3>1 DEF WriteHostsFails
  <2> QED BY <1>2, <2>1, <2>2, <2>3, <2>4, <2>5 DEF Persist
<1>3. ASSUME NEW r \in Requests, Conclude(r) PROVE Goal
  <2>1. CASE Apply(r) \/ Publish(r)
    <3>1. k \notin want[r]
      BY <1>0, <2>1 DEF Apply, Publish, At, Inv, OwnWay
    <3> QED BY <1>0, <2>1, <3>1 DEF Apply, Publish, InForce
  <2>2. CASE ApplyFails(r) \/ Rebuild(r)
    BY <1>0, <2>2 DEF ApplyFails, Rebuild
  <2>3. CASE ReadCurrent(r)
    BY <1>0, <2>3 DEF ReadCurrent, Inv, Types
  <2>4. CASE KeepHosts(r)
    <3>1. k \notin want[r]
      BY <1>0, <2>4 DEF KeepHosts, At, Inv, OwnWay
    <3> QED BY <1>0, <2>4, <3>1 DEF KeepHosts
  <2>5. ASSUME NEW c \in Core, SetOption(r, c) PROVE Goal
    BY <1>0, <2>5 DEF SetOption, Inv, Types
  <2> QED BY <1>3, <2>1, <2>2, <2>3, <2>4, <2>5 DEF Conclude
<1>4. CASE Crash
  BY <1>0, <1>4 DEF Crash
<1>5. CASE Restart
  BY <1>0, <1>5 DEF Restart, reqVars
<1>6. CASE UNCHANGED vars
  BY <1>0, <1>6 DEF vars
<1> QED BY <1>1, <1>2, <1>3, <1>4, <1>5, <1>6 DEF Next

LEMMA BoundedNext == Inv /\ Bounded /\ [Next]_vars => Bounded'
<1> SUFFICES ASSUME Inv, Bounded, [Next]_vars PROVE Bounded'
  OBVIOUS
<1> USE DEF Bounded, At
<1>0. \A r \in Requests : want[r] \subseteq Entries /\ overtaken[r] \subseteq Entries
  BY DEF Inv, Types
<1>f. Fault => faults' \in 0..MaxFaults
  <2>1. MaxFaults \in Nat
    BY ConsoleAssumption
  <2> QED BY <2>1 DEF Fault
<1>1. ASSUME NEW r \in Requests, Begin(r) PROVE Bounded'
  BY <1>1 DEF Begin, Prepare, ResolveHosts, PrepareOther
<1>2. ASSUME NEW r \in Requests, Persist(r) PROVE Bounded'
  <2>1. CASE Save(r) \/ SaveUnreadable(r) \/ SaveRefused(r)
    BY <1>0, <2>1 DEF Save, Saved, SaveUnreadable, SaveRefused
  <2>2. CASE WriteFails(r)
    BY <1>0, <1>f, <2>2 DEF WriteFails
  <2>3. CASE OpenHosts(r) \/ WriteHosts(r)
    BY <1>0, <2>3 DEF OpenHosts, WriteHosts, Passed
  <2>4. CASE WriteHostsFails(r)
    BY <1>0, <1>f, <2>4 DEF WriteHostsFails
  <2> QED BY <1>2, <2>1, <2>2, <2>3, <2>4 DEF Persist
<1>3. ASSUME NEW r \in Requests, Conclude(r) PROVE Bounded'
  BY <1>0, <1>3 DEF Conclude, Apply, InForce, ApplyFails, ReadCurrent, SetOption, KeepHosts, Rebuild, Publish
<1>4. CASE Crash
  BY <1>f, <1>4 DEF Crash
<1>5. CASE Restart
  BY <1>5 DEF Restart, reqVars
<1>6. CASE UNCHANGED vars
  BY <1>6 DEF vars
<1> QED BY <1>1, <1>2, <1>3, <1>4, <1>5, <1>6 DEF Next

\* The types, and config.go:298-300: a key that applyCoreKey does not know is
\* never changed, in the file or in force.
THEOREM TypeCorrect == Spec => []TypeOK
<1>1. Init => Fixed /\ Bounded
  <2>1. MaxFaults \in Nat /\ Unsavable \subseteq Core
    BY ConsoleAssumption
  <2>2. Init => Fixed
    BY <2>1 DEF Init, Fixed
  <2>3. Init => Bounded
    <3>1. Init => faults = 0 /\ up = TRUE /\ torn = FALSE /\ stale = {} /\ leaked = {}
      BY DEF Init
    <3>2. 0 \in 0..MaxFaults
      BY <2>1
    <3> QED BY <3>1, <3>2 DEF Bounded
  <2> QED BY <2>2, <2>3
<1>2. Inv /\ Fixed /\ Bounded => TypeOK
  BY DEF Inv, Types, Idle, Fixed, Bounded, TypeOK
<1> QED BY <1>1, <1>2, FixedNext, BoundedNext, InvAlways, PTL DEF Spec

-----------------------------------------------------------------------------
\* config.go:109-158 and plugins.go:24-70: file, memory and what is in force
\* agree, but for the entries CopiesAgree names.
THEOREM CopiesCorrect == Spec => []CopiesAgree
<1>1. Inv => CopiesAgree
  BY DEF Inv, Refreshed, Writing, InForceOrKnown, CopiesAgree
<1> QED BY <1>1, InvAlways, PTL

\* Only a save changes the file.
LEMMA FileSteps ==
    ASSUME [Next]_vars, file' # file
    PROVE  \E r \in Requests : Save(r) \/ OpenHosts(r) \/ WriteHosts(r) \/ WriteHostsFails(r)
  BY DEF Next, vars, Begin, Persist, Conclude, Prepare, ResolveHosts, PrepareOther, SaveUnreadable,
         SaveRefused, WriteFails, Apply, ApplyFails, ReadCurrent, SetOption, KeepHosts, Rebuild,
         Publish, Crash, Restart, reqVars

\* config.go:121-151 and manager.go:69-77: a save writes all plugins and
\* changes one.
THEOREM SavesCorrect == Spec => SavesOnlyItsOwn
<1>1. ASSUME Inv, [Next]_vars, NEW e \in Entries, file'[e] # file[e]
      PROVE  \/ \E r \in Requests : e \in want[r] /\ Stores(r)
             \/ e \in leaked /\ file[e] = Absent
  <2>1. PICK r \in Requests : Save(r) \/ OpenHosts(r) \/ WriteHosts(r) \/ WriteHostsFails(r)
    BY <1>1, FileSteps
  <2>2. CASE Save(r)
    <3>1. stage[r] = "prepared" /\ stage'[r] = "saved"
      BY <1>1, <2>2 DEF Save, Saved, At, GoTo, Inv, Types
    <3> QED BY <1>1, <2>2, <3>1, SaveWrites DEF Stores
  <2>3. CASE OpenHosts(r) \/ WriteHosts(r) \/ WriteHostsFails(r)
    <3>1. Stores(r)
      BY <1>1, <2>3 DEF OpenHosts, WriteHosts, WriteHostsFails, At, GoTo, Stores, Inv, Types
    <3>2. e \in want[r]
      BY <1>1, <2>3 DEF OpenHosts, WriteHosts, WriteHostsFails, Inv, Types
    <3> QED BY <3>1, <3>2
  <2> QED BY <2>1, <2>2, <2>3
<1>2. Inv /\ [Next]_vars =>
        [\A e \in Entries : file'[e] # file[e] =>
           \/ \E r \in Requests : e \in want[r] /\ Stores(r)
           \/ e \in leaked /\ file[e] = Absent]_vars
  BY <1>1
<1> QED BY <1>2, InvAlways, PTL DEF Spec, SavesOnlyItsOwn

\* Only a save brings a request from prepared to saved, and only a write of
\* the image hosts from writing to written.
LEMMA SavedSteps ==
    ASSUME Types, [Next]_vars, NEW r \in Requests
    PROVE  /\ stage[r] = "prepared" /\ stage'[r] = "saved" => Save(r)
           /\ stage[r] = "writing" /\ stage'[r] = "written" => WriteHosts(r)
<1> SUFFICES ASSUME \/ stage[r] = "prepared" /\ stage'[r] = "saved" /\ ~Save(r)
                    \/ stage[r] = "writing" /\ stage'[r] = "written" /\ ~WriteHosts(r)
             PROVE  FALSE
  OBVIOUS
<1> USE DEF Types, GoTo, At
<1>1. ASSUME NEW q \in Requests, Begin(q) PROVE FALSE
  BY <1>1 DEF Begin, Prepare, ResolveHosts, PrepareOther
<1>2. ASSUME NEW q \in Requests, Persist(q) PROVE FALSE
  <2>1. q = r
    BY <1>2 DEF Persist, Save, Saved, SaveUnreadable, SaveRefused, WriteFails,
                OpenHosts, WriteHosts, WriteHostsFails
  <2> QED BY <1>2, <2>1 DEF Persist, SaveUnreadable, SaveRefused, WriteFails, Save, Saved,
                            OpenHosts, WriteHosts, WriteHostsFails
<1>3. ASSUME NEW q \in Requests, Conclude(q) PROVE FALSE
  BY <1>3 DEF Conclude, Apply, InForce, ApplyFails, ReadCurrent, SetOption, KeepHosts, Rebuild, Publish
<1>4. ~Crash /\ ~Restart
  BY DEF Crash, Restart, reqVars, Ended
<1> QED BY <1>1, <1>2, <1>3, <1>4 DEF Next, vars

\* register.go:580-582 and assets.go:104-131: a blank password is the one in
\* the file, or in memory, unless the preparation is out of date.
THEOREM PasswordCorrect == Spec => PasswordKept
<1>1. ASSUME Inv, [Next]_vars, NEW r \in Requests, NEW p \in Plugins \cap want[r],
             stage[r] = "prepared", stage'[r] = "saved", blank[r], r \notin stale
      PROVE  Secret(file'[p]) = Secret(file[p])
  <2>1. Save(r)
    BY <1>1, SavedSteps DEF Inv
  <2>2. file'[p] = value[r]
    BY <1>1, <2>1, SaveWrites DEF Entries, InMaps
  <2>3. value[r] # Absent /\ value[r].secret = Secret(file[p])
    BY <1>1, AbsentAssumption DEF Inv, Types, Keeps, KeepsPlugin
  <2> QED BY <2>2, <2>3 DEF Secret
<1>2. ASSUME Inv, [Next]_vars, NEW r \in Requests, NEW h \in Hosts \cap want[r],
             stage[r] = "writing", stage'[r] = "written", blank[r], r \notin stale
      PROVE  file'[h] = Absent \/ Secret(file'[h]) = Secret(memory[h])
  <2>1. WriteHosts(r)
    BY <1>2, SavedSteps DEF Inv
  <2>2. file'[h] = Absent \/ file'[h] = value[r]
    BY <1>2, <2>1 DEF WriteHosts, Inv, Types
  <2>3. value[r] # Absent /\ value[r].secret = Secret(memory[h])
    BY <1>2, AbsentAssumption DEF Inv, Types, Keeps, KeepsHost
  <2> QED BY <2>2, <2>3 DEF Secret
<1>3. Inv /\ [Next]_vars =>
        [\A r \in Requests : blank[r] /\ r \notin stale =>
          /\ \A p \in Plugins \cap want[r] : stage[r] = "prepared" /\ stage'[r] = "saved" =>
                  Secret(file'[p]) = Secret(file[p])
          /\ \A h \in Hosts \cap want[r] : stage[r] = "writing" /\ stage'[r] = "written" =>
                  file'[h] = Absent \/ Secret(file'[h]) = Secret(memory[h])]_vars
  BY <1>1, <1>2
<1> QED BY <1>3, InvAlways, PTL DEF Spec, PasswordKept

-----------------------------------------------------------------------------
(* Replies *)

ReplyTypes ==
    /\ step \in [Replies -> {"new", "planned", "main", "media", "returned", "lost"}]
    /\ parts \in [Replies -> SUBSET Parts]
    /\ keyboard \in [Replies -> BOOLEAN]
    /\ asMarkdown \in [Replies -> BOOLEAN]
    /\ slot \in [Replies -> [Images -> {"wait", "shown", "broken", "none"}]]
    /\ main \in [Replies -> SUBSET Parts]
    /\ own \in [Replies -> SUBSET Parts]
    /\ failed \in [Replies -> BOOLEAN]
    /\ times \in [Replies -> [Parts -> Nat]]
    /\ pressed \in [Replies -> BOOLEAN]
    /\ spoilt \in [Replies -> SUBSET Parts]

\* Before the first message nothing is sent and nothing failed.
Unsent(r) ==
    step[r] \in {"new", "planned", "main"} =>
        ~failed[r] /\ ~pressed[r] /\ \A p \in Parts : times[r][p] = 0

\* Every part goes with the main message or on its own, those without content
\* never on their own.
Divided(r) ==
    /\ \A p \in own[r] : Kind[p] # "blank"
    /\ step[r] = "main" => /\ own[r] = parts[r] \ main[r] /\ main[r] \subseteq parts[r]
                           /\ keyboard[r] \/ \E p \in main[r] : Kind[p] # "blank"

\* What has still to be sent has not been sent, and what could not be sent is
\* among the errors.
Reported(r) ==
    step[r] \in {"media", "returned"} =>
        /\ own[r] \subseteq parts[r]
        /\ \A p \in own[r] : times[r][p] = 0
        /\ failed[r] <=> (keyboard[r] /\ ~pressed[r])
                         \/ \E p \in parts[r] \ own[r] : Kind[p] # "blank" /\ times[r][p] = 0
        /\ step[r] = "returned" => own[r] = {}

\* Why something is not shown.
Excused(r) ==
    /\ \A p \in Images : slot[r][p] = "broken" => Kind[p] = "unreadable"
    /\ \A p \in spoilt[r] : Lost(r, p)
    /\ step[r] \in {"new", "planned"} => spoilt[r] = {}

ReplyGood(r) ==
    /\ \A p \in Parts : times[r][p] <= 1
    /\ Unsent(r) /\ Divided(r) /\ Reported(r) /\ Excused(r)

ReplyInv == ReplyTypes /\ \A r \in Replies : ReplyGood(r)

LEMMA FragmentOutcome ==
    ASSUME NEW h, NEW source \in {"public", "file", "unreadable"}, NEW down
    PROVE  /\ Fragment(h, source, down) \in {"shown", "broken", "none"}
           /\ Fragment(h, source, down) = "broken" => source = "unreadable"
  BY DEF Fragment, ImgToURL

LEMMA OutcomesRange ==
    ASSUME NEW p \in Images, NEW h, NEW f \in Outcomes(p, h)
    PROVE  f \in {"shown", "broken", "none"} /\ (f = "broken" => Kind[p] = "unreadable")
<1>1. Kind[p] \in {"public", "file", "unreadable"}
  BY DEF Images
<1>2. PICK down : f = Fragment(h, Kind[p], down)
  BY DEF Outcomes
<1> QED BY <1>1, <1>2, FragmentOutcome

\* A step of one reply leaves the others alone.
LEMMA OtherReplies ==
    ASSUME ReplyInv, ReplyTypes', NEW r \in Replies, ReplyGood(r)',
           \A q \in Replies \ {r} :
               /\ step'[q] = step[q] /\ parts'[q] = parts[q] /\ keyboard'[q] = keyboard[q]
               /\ asMarkdown'[q] = asMarkdown[q] /\ slot'[q] = slot[q] /\ main'[q] = main[q]
               /\ own'[q] = own[q] /\ failed'[q] = failed[q] /\ times'[q] = times[q]
               /\ pressed'[q] = pressed[q] /\ spoilt'[q] = spoilt[q]
    PROVE  ReplyInv'
<1>1. ASSUME NEW q \in Replies, q # r  PROVE ReplyGood(q)'
  <2>1. ReplyGood(q)
    BY DEF ReplyInv
  <2> QED BY <1>1, <2>1 DEF ReplyGood, Unsent, Divided, Reported, Excused, Lost
<1> QED BY <1>1 DEF ReplyInv

LEMMA PlanKeeps ==
    ASSUME ReplyInv, NEW r \in Replies, Plan(r)
    PROVE  ReplyInv'
<1>1. PICK P \in Chains, k \in BOOLEAN :
          /\ parts' = [parts EXCEPT ![r] = P]
          /\ keyboard' = [keyboard EXCEPT ![r] = k]
          /\ \E b \in BOOLEAN : asMarkdown' = [asMarkdown EXCEPT ![r] = b]
  BY DEF Plan
<1>2. P \in SUBSET Parts
  BY DEF Chains
<1>3. /\ step[r] = "new" /\ step' = [step EXCEPT ![r] = "planned"]
      /\ UNCHANGED <<slot, main, own, failed, times, pressed, spoilt>>
  BY DEF Plan
<1>4. ReplyTypes'
  BY <1>1, <1>2, <1>3 DEF ReplyInv, ReplyTypes
<1>5. ReplyGood(r)'
  <2>1. ReplyGood(r)
    BY DEF ReplyInv
  <2>2. step'[r] = "planned"
    BY <1>3 DEF ReplyInv, ReplyTypes
  <2> QED BY <1>3, <2>1, <2>2 DEF ReplyGood, Unsent, Divided, Reported, Excused, Lost
<1> QED BY <1>1, <1>3, <1>4, <1>5, OtherReplies DEF ReplyInv, ReplyTypes

LEMMA ResolveImageKeeps ==
    ASSUME ReplyInv, NEW r \in Replies, NEW p \in Parts, ResolveImage(r, p)
    PROVE  ReplyInv'
<1>1. PICK f \in Outcomes(p, host[r]) : slot' = [slot EXCEPT ![r][p] = f]
  BY DEF ResolveImage
<1>2. /\ step[r] = "planned" /\ p \in Images
      /\ UNCHANGED <<step, parts, keyboard, asMarkdown, main, own, failed, times, pressed, spoilt>>
  BY DEF ResolveImage
<1>3. f \in {"shown", "broken", "none"} /\ (f = "broken" => Kind[p] = "unreadable")
  BY <1>2, OutcomesRange
<1>4. ReplyTypes'
  BY <1>1, <1>2, <1>3 DEF ReplyInv, ReplyTypes
<1>5. ReplyGood(r)'
  <2>1. ReplyGood(r)
    BY DEF ReplyInv
  <2>2. \A q \in Images : slot'[r][q] = IF q = p THEN f ELSE slot[r][q]
    BY <1>1, <1>2 DEF ReplyInv, ReplyTypes
  <2> QED BY <1>2, <1>3, <2>1, <2>2 DEF ReplyGood, Unsent, Divided, Reported, Excused, Lost
<1> QED BY <1>1, <1>2, <1>4, <1>5, OtherReplies DEF ReplyInv, ReplyTypes

LEMMA AssembleKeeps ==
    ASSUME ReplyInv, NEW r \in Replies, Assemble(r)
    PROVE  ReplyInv'
<1>1. /\ step[r] = "planned"
      /\ main' = [main EXCEPT ![r] = Inline(r)]
      /\ own' = [own EXCEPT ![r] = parts[r] \ Inline(r)]
      /\ step' = [step EXCEPT ![r] = Opening(r)] /\ Opening(r) \in {"main", "media"}
      /\ UNCHANGED <<parts, keyboard, asMarkdown, slot, failed, times, pressed>>
  BY DEF Assemble, Opening
<1>2. /\ spoilt' = [spoilt EXCEPT ![r] = Unseen(r)]
      /\ Unseen(r) \subseteq Inline(r)
      /\ \A p \in Unseen(r) :
            (p \in Images /\ slot[r][p] = "broken") \/ Lost(r, p)
  BY DEF Assemble, Unseen, Lost
<1>3. /\ Inline(r) \subseteq parts[r] /\ parts[r] \subseteq Parts
      /\ \A p \in parts[r] \ Inline(r) : Kind[p] # "blank"
  BY DEF Inline, Texts, ReplyInv, ReplyTypes
<1>4. ReplyTypes'
  BY <1>1, <1>2, <1>3 DEF ReplyInv, ReplyTypes
<1>5. ReplyGood(r)'
  <2>1. ReplyGood(r)
    BY DEF ReplyInv
  <2>2. /\ main'[r] = Inline(r) /\ own'[r] = parts[r] \ Inline(r) /\ spoilt'[r] = Unseen(r)
        /\ step'[r] = Opening(r)
    BY <1>1, <1>2 DEF ReplyInv, ReplyTypes
  <2>3. Unsent(r)' /\ Divided(r)'
    BY <1>1, <1>3, <2>1, <2>2 DEF ReplyGood, Unsent, Divided, Opening
  <2>4. Reported(r)'
    BY <1>1, <1>3, <2>1, <2>2 DEF ReplyGood, Unsent, Reported, Opening
  <2>5. Excused(r)'
    BY <1>1, <1>2, <2>1, <2>2 DEF ReplyGood, Excused, Lost
  <2>6. \A p \in Parts : times'[r][p] <= 1
    BY <1>1, <2>1 DEF ReplyGood
  <2> QED BY <2>3, <2>4, <2>5, <2>6 DEF ReplyGood
<1> QED BY <1>1, <1>2, <1>4, <1>5, OtherReplies DEF ReplyInv, ReplyTypes

\* A post sends all that it was given, or nothing and says so.
Posted(r, P) ==
    /\ failed' \in [Replies -> BOOLEAN] /\ times' \in [Replies -> [Parts -> Nat]]
    /\ \A q \in Replies \ {r} : failed'[q] = failed[q] /\ times'[q] = times[q]
    /\ \A p \in Parts : times'[r][p] <= 1
    /\ \/ /\ failed'[r] = failed[r]
          /\ \A p \in Parts : times'[r][p] = IF p \in P THEN 1 ELSE times[r][p]
       \/ failed'[r] = TRUE /\ times' = times

LEMMA PostOutcome ==
    ASSUME ReplyInv, NEW r \in Replies, NEW P \in SUBSET Parts, Post(r, P),
           \A p \in P : times[r][p] = 0
    PROVE  Posted(r, P)
<1>1. ReplyGood(r) /\ failed \in [Replies -> BOOLEAN] /\ times \in [Replies -> [Parts -> Nat]]
  BY DEF ReplyInv, ReplyTypes
<1>2. CASE /\ times' = [times EXCEPT ![r] = [p \in Parts |-> @[p] + IF p \in P THEN 1 ELSE 0]]
           /\ failed' = failed
  <2>1. times'[r] = [p \in Parts |-> times[r][p] + IF p \in P THEN 1 ELSE 0]
    BY <1>1, <1>2
  <2>2. \A p \in Parts : times[r][p] \in Nat /\ times[r][p] <= 1
    BY <1>1 DEF ReplyGood
  <2>3. \A p \in Parts : times'[r][p] = IF p \in P THEN 1 ELSE times[r][p]
    BY <2>1, <2>2
  <2>4. times' \in [Replies -> [Parts -> Nat]]
    BY <1>1, <1>2, <2>2
  <2> QED BY <1>1, <1>2, <2>2, <2>3, <2>4 DEF Posted
<1>3. CASE failed' = [failed EXCEPT ![r] = TRUE] /\ times' = times
  BY <1>1, <1>3 DEF ReplyGood, Posted
<1> QED BY <1>2, <1>3 DEF Post

LEMMA SendMainKeeps ==
    ASSUME ReplyInv, NEW r \in Replies, SendMain(r)
    PROVE  ReplyInv'
<1>1. /\ step[r] = "main" /\ Post(r, main[r])
      /\ pressed' = [pressed EXCEPT ![r] = keyboard[r] /\ failed'[r] = failed[r]]
      /\ step' = [step EXCEPT ![r] = "media"]
      /\ UNCHANGED <<parts, keyboard, asMarkdown, slot, main, own, spoilt>>
  BY DEF SendMain
<1>2. ReplyGood(r) /\ main[r] \in SUBSET Parts /\ own[r] \in SUBSET Parts
  BY DEF ReplyInv, ReplyTypes
<1>3. Posted(r, main[r])
  <2>1. \A p \in main[r] : times[r][p] = 0
    BY <1>1, <1>2 DEF ReplyGood, Unsent
  <2> QED BY <1>1, <1>2, <2>1, PostOutcome
<1>4. ReplyTypes'
  BY <1>1, <1>3 DEF Posted, ReplyInv, ReplyTypes
<1>5. step'[r] = "media" /\ pressed'[r] = (keyboard[r] /\ failed'[r] = failed[r])
  BY <1>1 DEF ReplyInv, ReplyTypes
<1>6. ReplyGood(r)'
  <2>1. /\ own[r] = parts[r] \ main[r] /\ main[r] \subseteq parts[r]
        /\ keyboard[r] \/ \E p \in main[r] : Kind[p] # "blank"
        /\ ~failed[r] /\ \A p \in Parts : times[r][p] = 0
    BY <1>1, <1>2 DEF ReplyGood, Divided, Unsent
  <2>2. Reported(r)'
    <3>1. CASE /\ failed'[r] = failed[r]
               /\ \A p \in Parts : times'[r][p] = IF p \in main[r] THEN 1 ELSE times[r][p]
      <4>1. ~failed'[r]
        BY <2>1, <3>1
      <4>2. keyboard'[r] => pressed'[r]
        BY <1>1, <1>5, <3>1
      <4>3. \A p \in parts'[r] \ own'[r] : times'[r][p] = 1
        BY <1>1, <1>2, <2>1, <3>1
      <4>4. own'[r] \subseteq parts'[r] /\ \A p \in own'[r] : times'[r][p] = 0
        BY <1>1, <1>2, <2>1, <3>1
      <4> QED BY <1>5, <4>1, <4>2, <4>3, <4>4 DEF Reported
    <3>2. CASE failed'[r] = TRUE /\ times' = times
      BY <1>1, <1>2, <1>5, <2>1, <3>2 DEF Reported
    <3> QED BY <1>3, <3>1, <3>2 DEF Posted
  <2> QED BY <1>1, <1>2, <1>3, <1>5, <2>2 DEF Posted, ReplyGood, Unsent, Divided, Excused, Lost
<1> QED BY <1>1, <1>3, <1>4, <1>6, OtherReplies DEF Posted, ReplyInv, ReplyTypes

LEMMA SendOwnKeeps ==
    ASSUME ReplyInv, NEW r \in Replies, NEW p \in Parts, SendOwn(r, p)
    PROVE  ReplyInv'
<1>1. /\ step[r] = "media" /\ p \in own[r]
      /\ own' = [own EXCEPT ![r] = @ \ {p}]
      /\ UNCHANGED <<step, parts, keyboard, asMarkdown, slot, main, pressed>>
  BY DEF SendOwn
<1>2. ReplyGood(r) /\ own[r] \in SUBSET Parts /\ parts[r] \in SUBSET Parts
  BY DEF ReplyInv, ReplyTypes
<1>3. /\ own[r] \subseteq parts[r] /\ times[r][p] = 0
      /\ failed[r] <=> (keyboard[r] /\ ~pressed[r])
                       \/ \E q \in parts[r] \ own[r] : Kind[q] # "blank" /\ times[r][q] = 0
      /\ \A q \in own[r] : times[r][q] = 0 /\ Kind[q] # "blank"
  BY <1>1, <1>2 DEF ReplyGood, Reported, Divided
<1>4. \/ Post(r, {p})
      \/ failed' = [failed EXCEPT ![r] = TRUE] /\ times' = times
  BY DEF SendOwn, Upload
<1>5. Posted(r, {p})
  <2>1. CASE Post(r, {p})
    BY <1>3, <2>1, PostOutcome
  <2>2. CASE failed' = [failed EXCEPT ![r] = TRUE] /\ times' = times
    BY <1>2, <2>2 DEF Posted, ReplyInv, ReplyTypes, ReplyGood
  <2> QED BY <1>4, <2>1, <2>2
<1>6. /\ spoilt' \in [Replies -> SUBSET Parts]
      /\ \A q \in Replies \ {r} : spoilt'[q] = spoilt[q]
      /\ \A q \in spoilt'[r] \ spoilt[r] : Kind[q] = "unreadable"
  <2>1. CASE spoilt' = spoilt
    BY <2>1 DEF ReplyInv, ReplyTypes
  <2>2. CASE /\ p \in Images
             /\ \E f \in Outcomes(p, Assets) :
                   spoilt' = [spoilt EXCEPT ![r] = @ \cup IF f = "broken" THEN {p} ELSE {}]
    BY <2>2, OutcomesRange DEF ReplyInv, ReplyTypes
  <2> QED BY <2>1, <2>2 DEF SendOwn, Upload
<1>7. ReplyTypes'
  BY <1>1, <1>5, <1>6 DEF Posted, ReplyInv, ReplyTypes
<1>8. own'[r] = own[r] \ {p}
  BY <1>1 DEF ReplyInv, ReplyTypes
<1>9. ReplyGood(r)'
  <2>1. Reported(r)'
    <3>1. CASE /\ failed'[r] = failed[r]
               /\ \A q \in Parts : times'[r][q] = IF q \in {p} THEN 1 ELSE times[r][q]
      BY <1>1, <1>2, <1>3, <1>8, <3>1 DEF Reported
    <3>2. CASE failed'[r] = TRUE /\ times' = times
      BY <1>1, <1>2, <1>3, <1>8, <3>2 DEF Reported
    <3> QED BY <1>5, <3>1, <3>2 DEF Posted
  <2>2. Excused(r)'
    BY <1>1, <1>2, <1>6 DEF ReplyGood, Excused, Lost
  <2>3. Unsent(r)' /\ Divided(r)'
    BY <1>1, <1>2, <1>8 DEF ReplyGood, Unsent, Divided
  <2> QED BY <1>5, <2>1, <2>2, <2>3 DEF Posted, ReplyGood
<1> QED BY <1>1, <1>5, <1>6, <1>7, <1>9, OtherReplies DEF Posted, ReplyInv, ReplyTypes

LEMMA ReturnKeeps ==
    ASSUME ReplyInv, NEW r \in Replies, Return(r)
    PROVE  ReplyInv'
<1>1. /\ step[r] = "media" /\ own[r] = {} /\ step' = [step EXCEPT ![r] = "returned"]
      /\ UNCHANGED <<parts, keyboard, asMarkdown, slot, main, own, failed, times, pressed, spoilt>>
  BY DEF Return
<1>2. ReplyTypes' /\ step'[r] = "returned"
  BY <1>1 DEF ReplyInv, ReplyTypes
<1>3. ReplyGood(r)'
  <2>1. ReplyGood(r)
    BY DEF ReplyInv
  <2> QED BY <1>1, <1>2, <2>1 DEF ReplyGood, Unsent, Divided, Reported, Excused, Lost
<1> QED BY <1>1, <1>2, <1>3, OtherReplies DEF ReplyInv, ReplyTypes

LEMMA LoseRepliesKeeps ==
    ASSUME ReplyInv, LoseReplies
    PROVE  ReplyInv'
<1>1. /\ \A r \in Replies : \/ step'[r] = step[r] /\ step[r] \in {"new", "returned"}
                            \/ step'[r] = "lost"
      /\ UNCHANGED <<parts, keyboard, asMarkdown, slot, main, own, failed, times, pressed, spoilt>>
  BY DEF LoseReplies
<1>2. ReplyTypes'
  BY <1>1 DEF ReplyInv, ReplyTypes, LoseReplies
<1>3. ASSUME NEW r \in Replies  PROVE ReplyGood(r)'
  <2>1. ReplyGood(r)
    BY DEF ReplyInv
  <2> QED BY <1>1, <2>1 DEF ReplyGood, Unsent, Divided, Reported, Excused, Lost
<1> QED BY <1>2, <1>3 DEF ReplyInv

LEMMA ReplyInvInit == ReplyInit => ReplyInv
<1> SUFFICES ASSUME ReplyInit  PROVE ReplyInv
  OBVIOUS
<1>1. ReplyTypes
  BY DEF ReplyInit, ReplyTypes
<1>2. ASSUME NEW r \in Replies  PROVE ReplyGood(r)
  BY DEF ReplyInit, ReplyGood, Unsent, Divided, Reported, Excused, Lost
<1> QED BY <1>1, <1>2 DEF ReplyInv

LEMMA ReplyInvStep == ReplyInv /\ [ReplyNext]_<<vars, replyVars>> => ReplyInv'
<1> SUFFICES ASSUME ReplyInv, [ReplyNext]_<<vars, replyVars>>  PROVE ReplyInv'
  OBVIOUS
<1>1. CASE UNCHANGED replyVars
  BY <1>1 DEF replyVars, ReplyInv, ReplyTypes, ReplyGood, Unsent, Divided, Reported, Excused, Lost
<1>2. CASE LoseReplies
  BY <1>2, LoseRepliesKeeps
<1>3. ASSUME NEW r \in Replies, Answer(r)  PROVE ReplyInv'
  BY <1>3, PlanKeeps, ResolveImageKeeps, AssembleKeeps, SendMainKeeps, SendOwnKeeps, ReturnKeeps
     DEF Answer
<1> QED BY <1>1, <1>2, <1>3 DEF ReplyNext

\* However the options and the image host change under a reply: no part twice,
\* an error exactly if something is missing, and what is sent is shown, but for
\* the cases PartsOnce names.
THEOREM PartsCorrect == ReplySpec => []PartsOnce
<1>1. ReplyInv => PartsOnce
  <2> SUFFICES ASSUME ReplyInv, NEW r \in Replies
               PROVE  /\ \A p \in Parts : times[r][p] <= 1
                      /\ step[r] = "returned" =>
                            (failed[r] <=> (keyboard[r] /\ ~pressed[r]) \/ Missing(r) # {})
                      /\ \A p \in spoilt[r] : Lost(r, p)
    BY DEF PartsOnce
  <2>1. ReplyGood(r)
    BY DEF ReplyInv
  <2>2. step[r] = "returned" => parts[r] \ own[r] = parts[r]
    BY <2>1 DEF ReplyGood, Reported
  <2> QED BY <2>1, <2>2 DEF ReplyGood, Reported, Excused, Missing
<1> QED BY <1>1, ReplyInvInit, ReplyInvStep, PTL DEF ReplySpec

\* Replies only look at the settings: what holds of the console alone holds
\* with them.
THEOREM SettingsAlone == ReplySpec => Spec
<1>1. ReplyInit => Init
  BY DEF ReplyInit
<1>2. [ReplyNext]_<<vars, replyVars>> => [Next]_vars
  BY DEF ReplyNext, Settings, Next
<1> QED BY <1>1, <1>2, PTL DEF ReplySpec, Spec
=============================================================================
