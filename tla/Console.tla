------------------------------- MODULE Console -------------------------------
(***************************************************************************)
(* Settings changed at run time: the PUT handlers of lib/admin/plugins.go, *)
(* lib/admin/config.go and lib/admin/assets.go, persist of                 *)
(* lib/config/config.go, the Manager of lib/assets/manager.go, and the     *)
(* settings that are in force, in lib/plugin/register.go and in the        *)
(* options and the image host of lib/qqapi/client.go.                      *)
(*                                                                         *)
(* An entry is the settings of a plugin, the access configuration of a     *)
(* plugin, a core key or the image hosts.  It is kept three times: in      *)
(* config.json or assets.json (file), in the variable current of           *)
(* lib/config or cfg of the Manager (memory) and in force (live).  A       *)
(* handler prepares, saves and applies, each under a lock of its own, or   *)
(* none: the Manager writes assets.json without one.                       *)
(*                                                                         *)
(* A value is named by the requests that brought it: its text by the one   *)
(* that was saved, its password by the one that typed it, since a password *)
(* left blank is taken from what is in force.                              *)
(***************************************************************************)
EXTENDS Naturals, FiniteSets

CONSTANTS
    Requests,   \* the PUT requests of one behaviour
    Plugins,    \* entries of plugin_settings
    Accesses,   \* entries of plugin_access
    Core,       \* core keys: the message options and Unsavable
    Hosts,      \* the entry of the image hosts, kept in assets.json
    Unsavable,  \* keys of coreSpecs that applyCoreKey does not know
    Patches,    \* the sets of core keys a request may change together
    Unset,      \* entries of which the files hold nothing at first
    Shipped,    \* what they hold otherwise
    Absent,     \* no value, or none that can be read
    NoPassword, \* the empty password
    MaxFaults   \* bound: failed writes and crashes

InMaps  == Plugins \cup Accesses
Entries == InMaps \cup Core \cup Hosts

ASSUME ConsoleAssumption ==
    /\ Plugins \cap Accesses = {} /\ Plugins \cap Core = {} /\ Accesses \cap Core = {}
    /\ Hosts \cap (InMaps \cup Core) = {}
    /\ Unsavable \subseteq Core
    /\ Patches \subseteq SUBSET Core /\ {} \notin Patches
    /\ Unset \subseteq Plugins \cup Hosts
    /\ Shipped \notin Requests
    /\ NoPassword \notin Requests \cup {Shipped}
    /\ MaxFaults \in Nat

Value == [text : Requests \cup {Shipped}, secret : Requests \cup {Shipped, NoPassword}]

ASSUME AbsentAssumption == Absent \notin Value

VARIABLES
    up,        \* the process runs
    file,      \* config.json and assets.json
    torn,      \* config.json is no JSON any more
    memory,    \* config.current
    live,      \* pluginSettings, pluginAccess, options and Assets of the client
    stage,     \* where a request stands
    want,      \* the entries a request changes
    blank,     \* whether it leaves the password blank
    value,     \* what it prepared, or rebuilt
    todo,      \* core: options not yet set from read
    read,      \* core: what config.Current returned
    faults,    \* the faults that MaxFaults bounds
    stale,     \* history: requests whose preparation may be out of date
    overtaken, \* history: what a request will apply though it is no longer saved
    diverged,  \* history: entries in force differently from what is saved
    leaked     \* history: entries in memory and not in the file

vars == <<up, file, torn, memory, live, stage, want, blank, value, todo, read,
          faults, stale, overtaken, diverged, leaked>>

reqVars == <<stage, want, blank, value, todo, read, stale, overtaken>>

Initial == [e \in Entries |->
               IF e \in Unset THEN Absent ELSE [text |-> Shipped, secret |-> Shipped]]

NoValue == [text |-> Shipped, secret |-> NoPassword]

Init ==
    /\ up = TRUE
    /\ file = Initial /\ memory = Initial /\ live = Initial
    /\ torn = FALSE
    /\ stage = [r \in Requests |-> "new"]
    /\ want = [r \in Requests |-> {}]
    /\ blank = [r \in Requests |-> FALSE]
    /\ value = [r \in Requests |-> NoValue]
    /\ todo = [r \in Requests |-> {}]
    /\ read = [r \in Requests |-> [k \in Core |-> Initial[k]]]
    /\ faults = 0
    /\ overtaken = [r \in Requests |-> {}]
    /\ stale = {} /\ diverged = {} /\ leaked = {}

Fault == faults < MaxFaults /\ faults' = faults + 1

GoTo(r, s) == stage' = [stage EXCEPT ![r] = s]
At(r, s)   == up /\ stage[r] = s

\* What is in force is what is saved: no request has still to apply it, and
\* none applied it out of order.
Pending(e) ==
    \E r \in Requests : (stage[r] \in {"saved", "kept", "built"} /\ e \in want[r]) \/ e \in todo[r]
Settled(e) == ~Pending(e) /\ e \notin diverged

\* A save of it is under way.
Writing(e) == \E r \in Requests : stage[r] \in {"writing", "written"} /\ e \in want[r]

-----------------------------------------------------------------------------
SecretAbsentMutant(v) == IF v = Absent THEN Absent ELSE v.secret

Secret(v) == IF v = Absent THEN NoPassword ELSE v.secret

\* PrepareConfiguration, under the read lock: a blank password is the one in
\* force.  Input that is not valid is refused and changes nothing.
PrepareTypedMutant(r, p, b) ==
    /\ At(r, "new")
    /\ want' = [want EXCEPT ![r] = {p}]
    /\ blank' = [blank EXCEPT ![r] = b]
    /\ value' = [value EXCEPT ![r] = [text |-> r, secret |-> IF b THEN NoPassword ELSE r]]
    /\ stale' = IF Settled(p) THEN stale ELSE stale \cup {r}
    /\ GoTo(r, "prepared")
    /\ UNCHANGED <<up, file, torn, memory, live, todo, read, faults, overtaken, diverged, leaked>>

Prepare(r, p, b) ==
    /\ At(r, "new")
    /\ want' = [want EXCEPT ![r] = {p}]
    /\ blank' = [blank EXCEPT ![r] = b]
    /\ value' = [value EXCEPT ![r] = [text |-> r, secret |-> IF b THEN Secret(live[p]) ELSE r]]
    /\ stale' = IF Settled(p) THEN stale ELSE stale \cup {r}
    /\ GoTo(r, "prepared")
    /\ UNCHANGED <<up, file, torn, memory, live, todo, read, faults, overtaken, diverged, leaked>>

\* resolveAssetsConfig: a blank password is the one the Manager keeps.
ResolveHosts(r, h, b) ==
    /\ At(r, "new")
    /\ want' = [want EXCEPT ![r] = {h}]
    /\ blank' = [blank EXCEPT ![r] = b]
    /\ value' = [value EXCEPT ![r] = [text |-> r, secret |-> IF b THEN Secret(memory[h]) ELSE r]]
    /\ stale' = IF Writing(h) THEN stale \cup {r} ELSE stale
    /\ GoTo(r, "prepared")
    /\ UNCHANGED <<up, file, torn, memory, live, todo, read, faults, overtaken, diverged, leaked>>

\* PrepareAccessConfiguration and the checks of handlePutConfig keep nothing.
PrepareOther(r, w) ==
    /\ At(r, "new")
    /\ want' = [want EXCEPT ![r] = w]
    /\ value' = [value EXCEPT ![r] = [text |-> r, secret |-> r]]
    /\ GoTo(r, "prepared")
    /\ UNCHANGED <<up, file, torn, memory, live, blank, todo, read, faults,
                   stale, overtaken, diverged, leaked>>

-----------------------------------------------------------------------------
(* persist, under configLock.  current is copied, but the maps of the copy *)
(* are those of current: reading the two plugin maps from the file and     *)
(* putting the new value into one of them is done in memory whatever       *)
(* becomes of the write.  Core keys are fields of the copy.                *)
FromFile == [e \in Entries |->
                IF e \in InMaps /\ file[e] # Absent THEN file[e] ELSE memory[e]]

Mutated(r) == [e \in Entries |-> IF e \in want[r] THEN value[r] ELSE FromFile[e]]

SharedMaps(cfg) == [e \in Entries |-> IF e \in InMaps THEN cfg[e] ELSE memory[e]]

\* The keys of config.json that are written: a whole map, or the core keys.
Written(r) ==
    CASE want[r] \cap Plugins # {}  -> Plugins
      [] want[r] \cap Accesses # {} -> Accesses
      [] OTHER -> want[r]

\* applyCoreKey refuses a key it does not know, and with it the whole patch.
Refused(r) == want[r] \cap Unsavable # {}

Changed(r) == want[r] \cup {e \in Entries : file'[e] # file[e]}

\* Whom a save overtakes: a request that prepared the same entry before, one
\* that has yet to apply it, one that has yet to set an option it has read.
Saved(r) ==
    /\ stale' = stale \cup {q \in Requests \ {r} : stage[q] = "prepared" /\ want[q] \cap Changed(r) # {}}
    /\ overtaken' = [q \in Requests |->
                        CASE q = r -> {}
                          [] stage[q] = "saved" /\ want[q] \cap Core = {} ->
                                overtaken[q] \cup (want[q] \cap want[r])
                          [] OTHER -> overtaken[q] \cup (todo[q] \cap want[r])]
    /\ diverged' = diverged \cup (Changed(r) \ want[r])
    /\ leaked' = {e \in leaked : memory'[e] # file'[e]}
    /\ GoTo(r, "saved")
    /\ UNCHANGED <<up, torn, live, want, blank, value, todo, read, faults>>

SaveFromMemoryMutant(r) ==
    /\ At(r, "prepared") /\ want[r] \cap Hosts = {}
    /\ ~torn /\ ~Refused(r)
    /\ memory' = [e \in Entries |-> IF e \in want[r] THEN value[r] ELSE memory[e]]
    /\ file' = [e \in Entries |-> IF e \in Written(r) THEN memory'[e] ELSE file[e]]
    /\ Saved(r)

Save(r) ==
    /\ At(r, "prepared") /\ want[r] \cap Hosts = {}
    /\ ~torn /\ ~Refused(r)
    /\ memory' = Mutated(r)
    /\ file' = [e \in Entries |-> IF e \in Written(r) THEN memory'[e] ELSE file[e]]
    /\ Saved(r)

\* The file is no JSON: persist returns before it changes anything.
SaveUnreadable(r) ==
    /\ At(r, "prepared") /\ want[r] \cap Hosts = {}
    /\ torn
    /\ GoTo(r, "refused")
    /\ UNCHANGED <<up, file, torn, memory, live, want, blank, value, todo, read,
                   faults, stale, overtaken, diverged, leaked>>

\* mutate fails, after the maps were read.
SaveRefused(r) ==
    /\ At(r, "prepared") /\ want[r] \cap Hosts = {}
    /\ ~torn /\ Refused(r)
    /\ memory' = SharedMaps(FromFile)
    /\ leaked' = {e \in leaked : memory'[e] # file[e]}
    /\ GoTo(r, "refused")
    /\ UNCHANGED <<up, file, torn, live, want, blank, value, todo, read,
                   faults, stale, overtaken, diverged>>

\* os.WriteFile fails: on opening the file, or after it was truncated.
WriteFails(r) ==
    /\ At(r, "prepared") /\ want[r] \cap Hosts = {}
    /\ ~torn /\ ~Refused(r)
    /\ Fault
    /\ torn' \in BOOLEAN
    /\ memory' = SharedMaps(Mutated(r))
    /\ leaked' = leaked \cup (want[r] \ Core)
    /\ GoTo(r, "refused")
    /\ UNCHANGED <<up, file, live, want, blank, value, todo, read, stale, overtaken, diverged>>

-----------------------------------------------------------------------------
\* ApplyConfiguration and ApplyAccessConfiguration, under the registry lock.
InForce(r) ==
    /\ live' = [e \in Entries |-> IF e \in want[r] THEN value[r] ELSE live[e]]
    /\ diverged' = (diverged \ want[r]) \cup overtaken[r]
    /\ GoTo(r, "done")

Apply(r) ==
    /\ At(r, "saved")
    /\ want[r] \cap Core = {}
    /\ InForce(r)
    /\ UNCHANGED <<up, file, torn, memory, want, blank, value, todo, read,
                   faults, stale, overtaken, leaked>>

\* The ApplyConfig of the plugin refuses what its ValidateConfig let pass: the
\* request is answered with an error, and the file keeps its values.
ApplyFails(r) ==
    /\ At(r, "saved")
    /\ want[r] \cap Plugins # {}
    /\ diverged' = diverged \cup want[r]
    /\ GoTo(r, "refused")
    /\ UNCHANGED <<up, file, torn, memory, live, want, blank, value, todo, read,
                   faults, stale, overtaken, leaked>>

\* handlePutConfig reads config.Current ...
ReadBeforeMutant(r) ==
    /\ At(r, "saved")
    /\ want[r] \subseteq Core
    /\ read' = [read EXCEPT ![r] = [k \in Core |-> live[k]]]
    /\ todo' = [todo EXCEPT ![r] = Core]
    /\ GoTo(r, "reading")
    /\ UNCHANGED <<up, file, torn, memory, live, want, blank, value, faults,
                   stale, overtaken, diverged, leaked>>

ReadCurrent(r) ==
    /\ At(r, "saved")
    /\ want[r] \subseteq Core
    /\ read' = [read EXCEPT ![r] = [k \in Core |-> memory[k]]]
    /\ todo' = [todo EXCEPT ![r] = Core]
    /\ GoTo(r, "reading")
    /\ UNCHANGED <<up, file, torn, memory, live, want, blank, value, faults,
                   stale, overtaken, diverged, leaked>>

\* ... and SetMessageOptions sets every option, each on its own: no lock
\* orders the assignments of two requests.
SetOption(r, k) ==
    /\ At(r, "reading")
    /\ k \in todo[r]
    /\ live' = [live EXCEPT ![k] = read[r][k]]
    /\ todo' = [todo EXCEPT ![r] = @ \ {k}]
    /\ diverged' = IF k \in overtaken[r] THEN diverged \cup {k} ELSE diverged \ {k}
    /\ GoTo(r, IF todo[r] = {k} THEN "done" ELSE "reading")
    /\ UNCHANGED <<up, file, torn, memory, want, blank, value, read, faults,
                   stale, overtaken, leaked>>

-----------------------------------------------------------------------------
(* Manager.Save, with no lock around it: os.WriteFile opens and truncates  *)
(* assets.json, then writes it; cfg is kept; Reload builds the hosts from  *)
(* cfg and hands them to the client, the last outside the lock.            *)

\* Others of the same entry, in the stages given.
Passed(r, stages) == {q \in Requests \ {r} : stage[q] \in stages /\ want[q] \cap want[r] # {}}

Overtake(r, stages, own) ==
    overtaken' = [q \in Requests |-> CASE q = r -> own
                                        [] q \in Passed(r, stages) -> overtaken[q] \cup want[r]
                                        [] OTHER -> overtaken[q]]

OpenHosts(r) ==
    /\ At(r, "prepared") /\ want[r] \cap Hosts # {}
    /\ file' = [e \in Entries |-> IF e \in want[r] THEN Absent ELSE file[e]]
    /\ stale' = stale \cup Passed(r, {"prepared", "writing"})
    /\ overtaken' = [q \in Requests |->
                        CASE q \in {r} \cup Passed(r, {"writing"}) -> {}
                          [] q \in Passed(r, {"written"}) -> overtaken[q] \cup want[r]
                          [] OTHER -> overtaken[q]]
    /\ GoTo(r, "writing")
    /\ UNCHANGED <<up, torn, memory, live, want, blank, value, todo, read,
                   faults, diverged, leaked>>

\* What another wrote since may be longer: its end stays behind the new text.
WriteHosts(r) ==
    /\ At(r, "writing")
    /\ \E garbled \in IF want[r] \subseteq overtaken[r] THEN BOOLEAN ELSE {FALSE} :
          /\ file' = [e \in Entries |-> IF e \in want[r] THEN IF garbled THEN Absent ELSE value[r]
                                        ELSE file[e]]
          /\ Overtake(r, {"writing", "written"}, IF garbled THEN want[r] ELSE {})
    /\ stale' = stale \cup Passed(r, {"prepared", "writing"})
    /\ GoTo(r, "written")
    /\ UNCHANGED <<up, torn, memory, live, want, blank, value, todo, read,
                   faults, diverged, leaked>>

\* The open fails, or the write, perhaps over what another wrote since.
WriteHostsFails(r) ==
    /\ At(r, "prepared") \/ At(r, "writing")
    /\ want[r] \cap Hosts # {}
    /\ Fault
    /\ IF stage[r] = "prepared"
       THEN UNCHANGED <<file, leaked, overtaken>>
       ELSE /\ file' \in {file, [e \in Entries |-> IF e \in want[r] THEN Absent ELSE file[e]]}
            /\ leaked' = leaked \cup want[r]
            /\ Overtake(r, {"writing", "written"}, {})
    /\ GoTo(r, "refused")
    /\ UNCHANGED <<up, torn, memory, live, want, blank, value, todo, read, stale, diverged>>

KeepHosts(r) ==
    /\ At(r, "written")
    /\ memory' = [e \in Entries |-> IF e \in want[r] THEN value[r] ELSE memory[e]]
    /\ leaked' = (leaked \ want[r]) \cup overtaken[r]
    /\ Overtake(r, {"built"}, {})
    /\ GoTo(r, "kept")
    /\ UNCHANGED <<up, file, torn, live, want, blank, value, todo, read, faults,
                   stale, diverged>>

\* Reload, under the lock: the hosts are those of cfg now.
Rebuild(r) ==
    /\ At(r, "kept")
    /\ value' = [value EXCEPT ![r] = memory[CHOOSE h \in want[r] : TRUE]]
    /\ GoTo(r, "built")
    /\ UNCHANGED <<up, file, torn, memory, live, want, blank, todo, read, faults,
                   stale, overtaken, diverged, leaked>>

\* onReload, which is SetAssets of the client.
Publish(r) ==
    /\ At(r, "built")
    /\ InForce(r)
    /\ UNCHANGED <<up, file, torn, memory, want, blank, value, todo, read,
                   faults, stale, overtaken, leaked>>

-----------------------------------------------------------------------------
Ended == {"done", "refused", "lost"}
Stages == {"new", "prepared", "saved", "reading", "writing", "written", "kept", "built"} \cup Ended

\* The process dies, perhaps inside os.WriteFile.
Crash ==
    /\ up
    /\ Fault
    /\ up' = FALSE
    /\ \/ UNCHANGED torn
       \/ /\ \E r \in Requests : stage[r] = "prepared" /\ want[r] \cap Hosts = {} /\ ~Refused(r)
          /\ torn' = TRUE
    /\ stage' = [r \in Requests |-> IF stage[r] \in Ended \cup {"new"} THEN stage[r] ELSE "lost"]
    /\ todo' = [r \in Requests |-> {}]
    /\ UNCHANGED <<file, memory, live, want, blank, value, read, stale,
                   overtaken, diverged, leaked>>

\* main: InitConfig, LoadConfigurations, LoadAccessConfigurations, Load of the
\* Manager and SetMessageOptions, before any request is served.  It exits if
\* config.json is no JSON or a plugin refuses its settings; an assets.json that
\* cannot be read leaves it without image hosts.
Restart ==
    /\ ~up
    /\ ~torn
    /\ up' = TRUE
    /\ memory' = file
    /\ live' = file
    /\ diverged' = {}
    /\ leaked' = {}
    /\ UNCHANGED <<file, torn, reqVars, faults>>

Begin(r) ==
    \/ \E p \in Plugins, b \in BOOLEAN : Prepare(r, p, b)
    \/ \E h \in Hosts, b \in BOOLEAN : ResolveHosts(r, h, b)
    \/ \E w \in {{a} : a \in Accesses} \cup Patches : PrepareOther(r, w)

Persist(r) ==
    \/ Save(r) \/ SaveUnreadable(r) \/ SaveRefused(r) \/ WriteFails(r)
    \/ OpenHosts(r) \/ WriteHosts(r) \/ WriteHostsFails(r)

Conclude(r) ==
    \/ Apply(r) \/ ApplyFails(r) \/ ReadCurrent(r)
    \/ KeepHosts(r) \/ Rebuild(r) \/ Publish(r)
    \/ \E k \in Core : SetOption(r, k)

Next ==
    \/ \E r \in Requests : Begin(r) \/ Persist(r) \/ Conclude(r)
    \/ Crash \/ Restart

Spec == Init /\ [][Next]_vars

-----------------------------------------------------------------------------
(* Properties *)

\* The types; a request has options to set only while it sets them, and a key
\* that applyCoreKey does not know is never changed (config.go:298-300).
TypeOK ==
    /\ up \in BOOLEAN /\ torn \in BOOLEAN
    /\ file \in [Entries -> Value \cup {Absent}]
    /\ memory \in [Entries -> Value \cup {Absent}]
    /\ live \in [Entries -> Value \cup {Absent}]
    /\ stage \in [Requests -> Stages]
    /\ want \in [Requests -> SUBSET Entries]
    /\ blank \in [Requests -> BOOLEAN]
    /\ value \in [Requests -> Value]
    /\ todo \in [Requests -> SUBSET Core]
    /\ read \in [Requests -> [Core -> Value \cup {Absent}]]
    /\ faults \in 0..MaxFaults
    /\ stale \subseteq Requests
    /\ overtaken \in [Requests -> SUBSET Entries]
    /\ diverged \subseteq Entries /\ leaked \subseteq Entries
    /\ \A r \in Requests : todo[r] # {} => stage[r] = "reading"
    /\ \A k \in Unsavable : file[k] = Initial[k] /\ live[k] = Initial[k]

\* The three copies agree.  Memory is the file, but for an entry whose save
\* failed, and image hosts that are being written or were written or kept out
\* of order (config.go:109-158, manager.go:69-83).  What is in force is what is
\* saved, for image hosts what memory holds, as soon as no request is about to
\* apply it, but for an entry whose ApplyConfig failed, one that was applied in
\* another order than it was saved, and one that came into the file with
\* somebody else's save (plugins.go:24-70, config.go:184-194, manager.go:86-97).
CopiesAgree ==
    up /\ ~torn => \A e \in Entries :
        /\ memory[e] = file[e] \/ e \in leaked \/ Writing(e)
        /\ live[e] = (IF e \in Hosts THEN memory[e] ELSE file[e]) \/ ~Settled(e)

\* A save changes what it was asked to change and nothing else, although it
\* writes the settings of all plugins: other requests are not undone.  The
\* exception is an entry the file does not hold, which may appear with the
\* value of a save that failed (config.go:121-151).
Stores(r) == \/ stage[r] = "prepared" /\ stage'[r] \in {"saved", "writing"}
             \/ stage[r] = "writing" /\ stage'[r] \in {"written", "refused"}

SavesOnlyItsOwn ==
    [][\A e \in Entries : file'[e] # file[e] =>
          \/ \E r \in Requests : e \in want[r] /\ Stores(r)
          \/ e \in leaked /\ file[e] = Absent]_vars

\* A password left blank stays the one in the file, unless the entry of
\* the plugin was saved in between, had been saved and not yet applied, or was
\* in force differently from the file (register.go:580-582).  That of an image
\* host stays the one in memory, unless another save of the hosts was under way
\* at any time since (assets.go:104-131).
PasswordKept ==
    [][\A r \in Requests : blank[r] /\ r \notin stale =>
          /\ \A p \in Plugins \cap want[r] : stage[r] = "prepared" /\ stage'[r] = "saved" =>
                  Secret(file'[p]) = Secret(file[p])
          /\ \A h \in Hosts \cap want[r] : stage[r] = "writing" /\ stage'[r] = "written" =>
                  file'[h] = Absent \/ Secret(file'[h]) = Secret(memory[h])]_vars
=============================================================================
