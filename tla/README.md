# PolarixPlus in TLA+

TLA+ modules for the concurrent core of PolarixPlus (`src/`, Go), the TLC
configurations that check them, and TLAPS proofs of the results that hold for
every instance. A `pool.go:38` below is a file and line of `src/lib/...`.

## 1. The system

PolarixPlus is a QQ bot framework in one process. Events come in over a
WebSocket (gateway) or HTTP (webhook), pass through a worker pool into the
middleware, which resolves a command and runs a plugin's handler; handlers
answer through the QQ API client. A scheduler runs plugin jobs, an admin
console changes settings at run time, and a small store keeps plugin data.

| component | state | operations | talks to |
|---|---|---|---|
| event pool `middleware/pool.go` | channel of 1024 tasks, atomic worker count | `Go`, `loop`, `exec` | called for every event and handler |
| gateway client `gateway/` | session id, sequence number, current connection, status flags, stop signal | `Start`, `run`, `handshake`, `serve`, `pump`, `Stop` | server; pool (dispatch); API client (token) |
| scheduler `schedule/` | job list, cancel channels, `stopCh`, `started`, `cronLoopOn` | `Register`, `Cancel`, `Pause`, `Resume`, `Start`, `Stop`, loops | plugins; admin live bus (change hook) |
| event dispatch `middleware/handle.go` | none of its own | acknowledge, resolve, permission, run, recover | registry, pool, API client |
| plugin registry `plugin/`, configuration `config/` | registry snapshot behind an atomic pointer, settings and access maps, `config.json` | `Register`, `Prepare…`/`Apply…`, `Resolve`, `SavePlugin…`, `UpdateCore` | admin console, dispatch |
| admin console `admin/` | login sessions, live subscribers, control triggers | login, live stream, settings | registry, configuration, scheduler, logs, process control |
| QQ API client `qqapi/`, `requests/` | cached token, audit waiters | send with retry, upload, wait for audit | server, pool (audit events) |
| command resolution `plugin/register.go` | name, alias and subcommand tables | `ResolveRoot`, `gluedCommand`, `Resolve` | dispatch |
| storage `storage/` | database handle and path | `Open`, `Set`, `Get`, `Delete`, `Clear`, `Close` | plugins |
| process `main.go` | control queue, port, running parts | start order, takeover, stop, restart, shutdown | all |
| logs `logx/` | ring of entries, subscribers | write, resize, snapshot, broadcast | admin live bus |
| statistics `state/` | counters | count, read | admin pages |
| image hosts `assets/` | ordered host list, `assets.json` | `Load`, `Save`, `Reload`, `ImgToURL` | console, replies, plugins |
| reply planning `context/`, `message/` | a builder's parts, the number of the last message | plan, resolve images, send | API client, image hosts, options in force |
| push plugin `plugins/push/` | keys and consents in the store, one rate window | owner's commands, `HTTPHandle` | storage, API client |
| login sessions `admin/session.go` | sessions by token | login, logout, test of each request | configuration (password) |

Hard behaviours, component by component:

- **pool**: the decision to start a worker reads two counters in separate
  steps, while workers retire; the queue may be full.
- **gateway**: reconnection with or without the session, a server that repeats
  events, forgets sessions or goes silent, the heartbeat that kills the
  connection from outside, a Stop at any point of a round.
- **scheduler**: `Register` in two critical sections, loops that evaluate a
  shared `stopCh` at each select, replacement under the same Id, a cron loop
  that looks every second but may fire once a minute.
- **registry, configuration, admin**: prepare, save and apply are separate
  steps of concurrent requests; snapshots are published in pieces.
- **API client**: cached token tested twice, retried POSTs, an audit answer
  that may precede its waiter, a waiter that occupies the worker its answer
  needs.
- **process**: tasks still running while the parts are shut down one by one; a
  second instance that takes over the port by terminating the first.
- **replies**: the options and the image hosts are read several times while a reply
  is built and sent, and the console may change them in between.
- **storage**: first uses race with each other, with Open and with Close, and a
  closed store opens again on the next use, on another file.

The properties that make each component correct: the pool runs every accepted task
once (`NeverTwice`, `NeverDropped`) with as many workers as it believes to have
(`AliveCounts`); the gateway hands on every event once and in order (`EventStream`)
and gets away from dead sessions, silent servers and its own Stop; the scheduler has
a loop for each listed job and no other for good; the live bus has loops exactly
while somebody listens; dispatch runs only what the text names and the rules admit;
a send that reports success was published; no part of a reply is sent twice or lost
without an error; the three copies of a setting agree; one process remains, with one
handle on the right file.

The lines at which these bite, and the property that covers each, are the
hazards of `PROJECT.json`.

## 2. Modules

| module | models | kind |
|---|---|---|
| `TaskPoolAbs` | what the pool promises: accept, start, finish once | abstract |
| `TaskPool` | `pool.go`, one step per atomic access | detailed |
| `TaskPoolProofs` | theorems about `TaskPool` | proofs |
| `EventStream` | what the gateway promises the middleware: one session at a time, its events in order, each once | abstract |
| `Gateway` | `client.go`, `conn.go`, `codes.go`, with the server as environment | detailed |
| `GatewayProofs` | theorems about `Gateway` | proofs |
| `Cron` | `schedule/cron.go`, the expressions | functions |
| `Schedule` | `schedule.go`, `cron.go`, with the expressions of `Cron` | detailed |
| `ScheduleProofs` | theorems about `Schedule` and `Cron` | proofs |
| `LogHub` | the ring and the hub of `logx/` | functions |
| `LiveBus` | `admin/live.go`, the log loop as a subscriber of `LogHub`, with the change hook of `schedule/hook.go` | detailed |
| `LiveBusProofs` | theorems about `LiveBus`, the ring of `LogHub` and `Session` | proofs |
| `Session` | the login sessions, `admin/session.go`, `requireAuth` of `admin/admin.go` | functions |
| `Commands` | from a text to a command, `plugin/register.go` | functions |
| `Access` | what becomes of an access configuration and the decision `CanUse` takes by it, `plugin/register.go` | functions |
| `Dispatch` | `middleware/handle.go` with the search of `Commands`, the rules of `Access`, `constant/role.go`, the callbacks of `buttons/` | detailed |
| `DispatchProofs` | theorems about `Dispatch`, `Access` and `Commands` | proofs |
| `Delivery` | `message/ref.go`, sending in `qqapi/client.go`, the audit of `qqapi/upload.go`, the retries of `requests/` | detailed |
| `DeliveryProofs` | theorems about `Delivery`, `Upload` and `Push` | proofs |
| `Upload` | `UploadMedia`, the chunked upload and the stream sessions of `qqapi/` | functions |
| `Push` | `plugins/push/push.go` | functions |
| `Console` | the PUT handlers of `admin/`, `persist` of `config/config.go`, `assets/manager.go`, prepare and apply of `plugin/register.go` | detailed |
| `ImageHost` | `assets/host.go`: the order of the providers and the way of an image through them | functions |
| `Reply` | `context/builder.go` and the messages of `message/`, composed with `Console` and `ImageHost` | detailed |
| `ConsoleProofs` | theorems about `Console` and `Reply` | proofs |
| `Storage` | `storage/storage.go`, the handle of every process | detailed, part of `Lifecycle` |
| `Lifecycle` | `main.go`, composed with `Storage` | detailed |
| `LifecycleProofs` | theorems about `Lifecycle` and `Storage` | proofs |
| `MCTaskPool`, `MCGateway`, `MCSchedule`, `MCLiveBus`, `MCDispatch`, `MCDelivery`, `MCConsole`, `MCLifecycle` | constants for TLC, and the comparison of the functions with what they should compute | |

`Schedule` and `LiveBus` meet in `NotifyChanged`: a change of the job list is an
action of `Schedule` and the start of a `ChangeJobs` in `LiveBus`. They are not
composed, because the list is a version number to the bus and the bus is
invisible to the scheduler. `Dispatch` and `Delivery` both run in the event
pool: `Dispatch` needs of it only that an accepted task is executed, `Delivery`
that its workers are limited, which it counts itself (`WorkerFree`). `Console`
changes the access configuration that `Dispatch` reads; `Dispatch` contains the
two publications of it (`RefreshDisabled`, `PublishRegistry`), `Console` takes
them as one step of a request. `Reply` EXTENDS `Console`: a reply is built while
requests change the two settings it reads, `global_markdown` and the image hosts,
and it changes none (`SettingsAlone`). `Lifecycle` EXTENDS `Storage`: the store of a
process is opened and closed by steps of its main, and used at any other moment.
Of the gateway `Lifecycle` needs only that its Stop may miss the connection being
made, which is what `StopReturnsOrMisses` of `Gateway` leaves open.

### TaskPool

A task is an opaque function; one `Go` call is made per task, so the task also
names the call and the worker that call may start. `queue` is the channel,
`alive` the counter, `loaded[t]` the local `n`. `Send` and `RunDirect` are the
two branches of the first select (`pool.go:29-34`), `Load`, `Compare`
(`EnoughWorkers`), `CompareAndSwap` and `Spawn` the sizing loop (36-45), `Take`,
`Finish` and `IdleTimeout` the worker's select (52-59), `Retire` the deferred
decrement (49). A panic of the task ends in `exec`'s recover and is therefore
the same step as its return. A worker takes its timer branch only when parked
on an empty channel: `t.Reset` discards an expiry that happened during a task.

### Gateway

`loop` is the position of the single goroutine of `Start`; `EndRound(err)` is
the return of `run` with its deferred calls together with the switch of `Start`
(112-143). `wire` is the socket as the client can tell (`cut` after a local
kill), `peer` and `cursor` the server's view of it, `held` and `sent` the
session the server knows. A frame is read and handled in one step. `pump`'s
test of the flag and its write are one step, `Beat`; Stop is four:
`StopSignal`, `StopGrab`, `StopKill`, `StopReturn`. Delays are left out: any
wait may end at any moment, so every order of deadlines the code can produce
is in the model, and those its delays exclude as well. To the middleware all of
it is `EventStream` with `position <- seq`: a session is opened, its events follow,
it is given up; everything else is a stutter. Every event of the model is handed on:
one of a type the program does not know (`conn.go:189`), or whose data cannot be read
(`client.go:250`), is numbered and dropped.

### Schedule

A registration is one accepted `Register` call, that is one `registeredJob`;
`Id` maps registrations to job Ids, so replacing a job is registering another
one of the same Id. `RegisterEnter` is the section under `jobsLock`,
`RegisterLaunch` the one under `startMu` (and the `go` that follows). `gen`
counts the channels `stopCh` has held; `at[l]` is the channel a loop selects on.
Loops are named by what launched them, because the code keeps no handle on
them. A minute is a number; `Clock` gives its fields of date and time and `Expr` the
expression of a cron registration, which `DueAt` matches with `Cron`. There a part
such as `1-59/2` is a record of its range and its step, for splitting strings
says nothing about when a job runs.

### LiveBus

`conn[s]` follows the goroutine of one SSE connection through `subscribe`, `start`,
the greeting, `handleStream` and `unsubscribe`, with a step for each critical
section and for what happens between them: `Start` after `subscribe` has released
the lock, `CloseGen` and `Unhook` after `unsubscribe` has. `change[c]` follows the
goroutine that changed the job list through `NotifyChanged` and `bumpJobs`. A frame
is a job list (its version) or `Other`. `hub` holds the subscriptions of the log
loops with the number of entries waiting in their channels; an entry written while a
channel is full is dropped for it (`Broadcast`). The loop subscribes after it has
been launched (`LogSubscribe`), perhaps after its generation was stopped. The ring
of `LogHub` has no part in the bus: its functions are compared in `MCLiveBus` with
the newest entries of a history. A `Push` holds the lock and is one step; the greeting is
sent without it, and its send is three (`TrySend`, `Drain`, `TrySend`), with frames
of others between them. `Drain` is one step, for a reader that takes a frame
meanwhile empties the queue as well.

### Dispatch

`at[e]` follows the goroutine of an event through `ProcessPayload`,
`dispatchCommand` and the second task of the pool that runs the handler or the
callback. A message is a record of its words, its sender and whether the arguments
parse; `Root` and `Leaf` are what `Commands` finds for the words. A word is a symbol
and a name, a name a sequence of numbered letters, because the glued command
(`register.go:398`) depends on prefixes and on the order of names. A table entry
replaces an earlier one of the same name (`Winner`). `disabled` and `registry` are
the two snapshots; `Resolve` reads the first, `Deny` and `Permit` the second, and a
configuration may be published before, between and after them. A configuration is
what `Access` makes of what the console was given: `Prepared` is
`PrepareAccessConfiguration`, and `LoadAccessConfigurations` for one plugin, which
does the same. It trims and sorts the lists, refuses an unknown mode or path, and
drops the rules of commands that are off; of two paths that differ in blanks either
may win, as Go's iteration over a map has no order. `CanUse` is the function of the
code; `Admits` in the properties says what its rules mean without its case
distinction. `ran[e]` is the command whose `Handle` was called,
`told[e]` whether the `permissionDenied` hook that ran is the leaf's or the root's.
`Answered` says of each way an event can end that it deserved this one; `Heard` is
what the search makes of the text. `ReceiveJoin` is a
join request with an answer, which panics on a nil interface
(`plugin/lifecycle.go:12`); the pool recovers.

### Delivery

A send is one call of `Message.Send` in a worker of its own. `tries` counts the
attempts of one request (`requests.do`), `attempt` the requests of one
`sendWithRetry`. What a post can become is six actions: lost, answered in vain,
refused, deferred by a business code, published, or put under review.
`ReadToken`, `LockToken` and `Recheck` are the three looks `getAccessToken` takes
at the token; `holder` is its write lock. `waiters` and `chan` are `auditWaiter`
and the buffered channels in it, `event` the goroutine of a verdict, in
`TakeWaiter` under the lock and in `HandOver` after it. `review` and `copies` are
the platform's.

The other users of the client are functions, each of one goroutine that shares
nothing. `ChunkedUpload` gives the requests an upload makes and the one it stops at,
for the parts the server lists and the requests that fail; a part beyond the
data panics (`upload.go:110`). `Fragments` gives what a stream session sends
while answers come or do not. `HTTPHandle` of `Push` goes through the checks of a push in
their order and counts the wrong keys in the window of its rate limit.

### Console

Every setting is kept three times: in the file, in `config.current` and in the
place it takes effect (the plugin, the access snapshot, the options of the
client). A request prepares, saves and applies an entry, each under its own
lock and with other requests in between. The image hosts are the third kind: the
`Manager` writes `assets.json` without a lock (`OpenHosts`, `WriteHosts`), keeps its
copy (`KeepHosts`), builds a host from whatever that copy is then (`Rebuild`) and
hands it to the client (`Publish`). `Persist` is `persist` under the mutex, whose
working copy shares its maps with `current` (`config.go:121`), so a save
whose write fails stays in memory: `leaked` remembers those entries. The options
of the client are four assignments without a lock, one `SetOption` each. `Crash`
is the end of the process at any moment, also between the truncation of the file and
its last byte (`torn`), and `Restart` reads the file. The history variables
`overtaken`, `stale` and `diverged` name why a copy differs, and `CopiesAgree`
says that it differs for no other reason.

### Reply

`step[r]` follows the goroutine of `MsgBuilder.Send`. `Plan` reads the option and the
image host once; `ResolveImage` is one goroutine for each image of a markdown message,
whose fragment is what `ImageHost` makes of it with any of the providers down; `Assemble`
is `wg.Wait` and the choice of what goes into the main message; `SendMain` and `SendOwn`
are the messages, each with its number (`MsgRef.Count`) and refused beyond the limit.
`Text` and the `Send` of an image read the option again, so a reply planned as
text may go out as markdown: `Unseen` and the second branch of `SendOwn` are
what becomes of its parts then. A text without content (`blank`) opens no message of its
own, and the keyboard of a markdown part (`panel`) is left behind: `Missing` and `Lost`
in `PartsOnce` name both. `times` and `pressed` are history: what the platform
accepted. The order of the parts within a message is left out.

### Lifecycle and Storage

`pc[p]` is the position of main in each process: the boot in the order of
`main.go:55-172`, `run` for the select, and the steps of `shutdown`. `srv` is the
goroutine of `ListenAndServe`, `port` the process that holds the port. Before
`NotifyContext` a SIGTERM ends the process at once (`Killed`), afterwards main
reads it in `Select`, which chooses among signal and instruction and never looks
at the other one. `CheckInstance` is the takeover: the owner of the port gets
SIGTERM and, if it is still there after five seconds (`KillInstance`, possible at
any time, as delays are left out), SIGKILL. A step that calls `os.Exit` is `BootFails`.
The protocol is websocket; the port is contended by this program only. `Die`
releases what the system releases: port, files, goroutines.

In `Storage` an operation is `Look` (the handle under the read lock), `Ensure` (the
first use, under the write lock) and `Execute`; Open and Close come from main in
between. `file` says which file a handle was opened on; the configured path is
taken to differ from the default one, as equal paths would hide the difference
`FileFollowsMain` is about. `OpenFails` has both ways to fail: the file cannot be
opened, or the handle on another file cannot be closed, which leaves that handle in
`db`, closed, until main exits.

## 3. Runs

| run | instance | shows |
|---|---|---|
| `taskpool` | 3 tasks, queue of 2, 2 workers; 11,180 states | exact counter within poolMax, nothing dropped or run twice, `TaskPool` implements `TaskPoolAbs`; a queued task runs unless it is stranded; the next `Go` clears a stranded backlog |
| `taskpool_lost` | as above | **violated**: "保证不丢" (`pool.go:27`) |
| `gateway` | 2 session ids, 4 events, 5 strikes; 92,575 states | session and number belong together, `Gateway` implements `EventStream` (events once and in order), bounded resumes, dead sessions and silent servers are given up, Stop returns or missed the connection |
| `schedule` | an interval and a cron registration (`1-59/2,58 * * * 1-5`) of one Id, of which the cron job may be paused, 2 Starts, 2 minutes of which 1 matches; 291,802 states | consistent list, every listed job has a loop, and only one but for two ways to a second, fires at most once in a minute and only in one that matches; loops of cancelled jobs and of a stopped scheduler end |
| `schedule_restart` | the same without pauses, 1 minute | **violated**: a later `Start` does not bring the loops back (`docs/schedule.md:210`) |
| `live` | 2 connections, 1 change of the job list, queue of 2, log channel of 1; 298,882 states | one generation of loops while somebody listens, no loop, subscription or hook left when nobody does; the ring holds the newest entries, and sessions admit whom they should |
| `live_heals` | as above | **violated**: dropped frames heal (`live.go:33`) |
| `dispatch` | 2 events of any kind with 7 messages, 2 commands, one for owners, and a subcommand, 5 inputs of the console of which 3 are accepted and 2 applied; 560,087 states | only handlers that the text names and the rules permit run, failures are reported once, every event is answered or turned away for a reason |
| `dispatch_leaf` | 1 event | **violated**: a subcommand is an ordinary command (`README.md:253`); its `Handle` is never called |
| `delivery` | 2 replies to one event, 2 x 2 attempts, 2 workers, 2 faults; 139,370 states | sent means published, only a lost answer repeats a message, no stale waiter, one token per lapse, every worker returns; uploads, streams and pushes are what they should be |
| `console` | 3 requests for 2 plugins, the access rules, the image hosts or the options, or 1 request and a reply of 2 parts of 8 kinds, 2 faults; 2,152,611 states | file, memory and effect agree but for named exceptions, a save touches only its entry, a blank password is kept, no part of a reply is sent twice or lost unreported |
| `lifecycle` | 2 processes, 1 user of the store, 3 handles each; 269,306 states | two processes work together only while one comes or goes, one remains, no handle leaks, an operation works on the file of its phase |

Bounds. *TaskPool*: with three tasks and a queue of two the queue fills and a third
task runs directly, a swap fails because another call or an exit came between, and
two workers may retire around one call. The counter, the places of a task and the
refinement are proved for every size; no symmetry is used, since the run checks
liveness. *Gateway*: two identifiers suffice for a session to be replaced by another
one (the server never issues the identifier it holds again, and a client that
identifies has none). Four events leave room for some handled, some lost with the
connection and repeated, and new ones during the repetition; `StrikeLimit` is the
code's 5. *Schedule*: two starts are needed for a loop to outlive the channel it was
launched with; two minutes, of which the expression matches the first, for a tick
handled in the minute after its own, and for a minute that would match but for its
hour and day. `fired` is a history variable that counts under the first Start, for
`OncePerMinute` is a claim about one cron loop: two can coexist after a restart
(hazard at `schedule.go:303`). *LiveBus*: two connections suffice for one to leave
while the other subscribes and for both to find the bus idle; the theorem covers any
number. A queue of two is filled by the greeting, as one of eight is by a burst of
log lines, and a log channel of one by one entry. *Dispatch*: two events suffice for
one to set the callback the other presses; the three accepted configurations disable
the plugin, admit by one list and refuse by the other, so that two applications
open, close or swap what a sender may do between the two looks; the two refused ones
have an unknown mode and an unknown path. *Delivery*: two sends compete for the
token and for the workers their verdicts need; two faults allow a lost answer and a
lapse, or a verdict delivered twice; two attempts in each loop instead of four and
three reach every exit of both. `MaxFaults` stands in the guards of all faults.
*Console*: three requests allow one to be overtaken by a second while a third saves
another entry; the two plugins are interchangeable but for one that starts without
an entry; symmetry of the requests only, and no liveness is checked there. `MaxWork`
counts a reply as two requests: one beside it changes an option or the hosts at any
of the points where the reply reads them. Two parts and a keyboard give three
messages at most, which `ReplyLimit` 3 cuts short as 5 cuts five; `PartsOnce` is
proved for any of these numbers. *Lifecycle*: two processes suffice for a takeover,
a restart and two starts at the same moment; `Open` and `Close` of main are the
second actor beside the one user of the store, and three handles are one before
Open, one by it and one after Close. `MaxApply`, `MaxSeq`, `MaxGen` and `MaxMinute`
bound counters in the guards of `Emit`, `Start` and `MinutePasses`, `MaxOpens` in
that of `OpenHandle`.

The functions are compared with their meaning over bounded inputs, by named
assumptions that TLC evaluates before a run: `GluedFindsTheLongest` and
`ResolvesAsNamed` (`MCDispatch`) for every first word of at most four letters,
`PreparedAsSaid` (`MCDispatch`) for the five inputs, `CronExamples`
(`MCSchedule`), `NewHostCorrect` (`MCConsole`) for every `assets.json` of two providers,
`SnapshotIsNewest`, `ResizedKeepsNewest` and
`ResizedGoesOn` (`MCLiveBus`) for rings of up to four entries after up to nine writes,
past which a ring only repeats its positions, `SessionAdmits` and `UnprotectedIsLocal`
(`MCLiveBus`) for four doings of a browser and of the owner, `ChunksCoverTheData`
and `SendsTheWholeFile` (`MCDelivery`) for every block size and any failing requests of
small files, `StreamGoesOn` and `SeqWraps` for streams, `PushNeedsConsentAndKey` and
`AttemptsAreBounded` for four commands of an owner and six wrong keys.

Deadlock checking is off everywhere, since each system may rest: a pool without
work, a gateway that was stopped, a scheduler nobody calls any more.

Fairness. *TaskPool*: every started goroutine is run by the Go scheduler and
handlers return; no further `Go` call and no idle period is promised.
*Gateway*: the loop, Stop and the timers run; the read deadline expires if the
server owes a frame. The server promises nothing: it may stay silent, and no
frame is ever assumed to come. *Schedule*: loops run and handlers return; strong
fairness for leaving, because Go's select chooses at random among ready cases,
so a loop whose ticks and closed channel are both ready leaves eventually. Both are
asked of the loops of one job, or of all cron loops, together, which is less than
Go grants to each.
*LiveBus*: the handlers of connections and changes run, stopped loops end; nobody
has to subscribe, leave or change anything. *Dispatch*: the goroutine of an event
that arrived is run and its handler returns; that it gets a worker is what
`TaskPool` is about. *Delivery*: each step of a send runs, for requests and the
wait for a verdict have timeouts; strong fairness for the two locks of the
token, which Go grants to every waiter in time; the platform promises neither
an answer nor a verdict. *Console*: no liveness, no fairness. *Lifecycle*: a process
takes steps while it can, by main, by its server or by the delivery of a signal;
nobody has to start, stop or use anything, and a connection that Stop missed may
last for ever, which is the exception `Stuck` in `OneRemains`.

Every property has a mutant, a plausible slip in the code that the same run
catches; the operators named `...Mutant` stand before the definition they
change and are not used otherwise.

## 4. Proofs

`TaskPoolProofs` proves for any set of tasks, any capacity and any worker limit
(`PoolAssumption`): `TypeCorrect`, `AliveCorrect`, `NeverTwiceCorrect`,
`NeverDroppedCorrect`, and `PoolImplementsAbs`, the refinement.

- The counter. `AliveCounts` is not inductive: a swap that finds the counter at
  the loaded value must know that the loaded value was below `poolMax`, and a
  spawn that it adds no worker beside one it already has. `CountInv` adds
  `Staged` (what a call at a given point has established, and that a call starts
  its worker once) and the finiteness of `Counted`, the set behind the number;
  even with infinitely many tasks only finitely many workers are counted.
- The places. `PlaceInv` adds to `NeverTwice` and `NeverDropped` that a worker
  holds a task exactly while it is busy. Each action moves one task from one
  place to the next.
- The refinement uses `PlaceInv` to show that an accepted task is fresh in the
  abstract sense and that taking it from the queue removes its only copy.
- The backlog. `NeverLost` is refuted by a run; what holds instead is proved. A
  pool that has lost no worker strands nothing (`StrandedAfterExit`), the step that
  strands is the exit of the last worker or a sizing test on a count read before it
  (`StrandedByExit`), and the call that will see the backlog cannot be lost
  (`RescueHolds`).

`GatewayProofs` proves `TypeOK`, `SeqOfSession`, `EventsOnce`, `OnlineIsReady`,
`BoundedResumes` and the refinement of `EventStream` (`StreamImplemented`) for any set of
sessions, any number of events and any strike limit (`GatewayAssumption`). None is inductive alone. `Phases` says what each
position of the loop implies: a round opens not ready, its connection is
published with the status flag down, the server has been asked something
exactly while the loop serves. `Numbers` is the reason the others hold: while
the server repeats or sends events, its position on the connection *is* the
number the client holds, so the next event is neither new by more than one nor
old. `Attempts` charges every unconfirmed RESUME but the current one to a
strike. `EndRoundKeeps` is shared by the nine actions that can end a round. On this
invariant rest three results about the end of things: Stop leaves no loop,
connection or heartbeat (`StopIsFinal`), after its signal the loop has at most five
moves left (`StopConverges`), and a dead session hands nothing on and is never
confirmed (`DeadStaysDead`).

`ScheduleProofs` proves `TypeOK`, `ListedOrCancelled`, `EveryJobServed`, `OneLoopEach` and
`OncePerMinute` for any registrations, expressions, starts and minutes. `Served` ties
the progress of `Register` and `cronLoopOn` to loops that serve; `Fresh` says that no
loop runs before what launches it. `Single` adds to `OneLoopEach` that an interval job
has no loop before its `Register` is through and that, under a running scheduler, a cron
loop means the flag is up; the jobs for which a Start broke this are in the history
`overlap`. `Ordered` adds to `OncePerMinute` that under the first Start `lastFire` marks
every minute that fired and never runs ahead of the tick in hand. `NoneComesBack` says
that a loop that left stays away and who may get a new one, `FiresOnlyListed` that
whatever loop ticks, only a job that is listed and not paused fires. `PartSteps` and
`AcceptedFieldsAdmit` are about `Cron`: which values the loop over a range takes, and
that an accepted field admits only times there are.

`LiveBusProofs` proves `TypeOK` and `OneGeneration` for any number of connections,
changes and any queue capacity: generations are numbered in the order of their
start, the map holds exactly the connections between subscribe and unsubscribe,
and one that finds no generation is about to start it. For the type, `Counts` charges
each generation to a connection and each version to a change. A deserted bus has told
every loop to end (`IdleIsStopped`), an empty one starts nothing (`QuietWhileEmpty`), and
a generation is used once (`UsedOnce`). `RingHoldsLatest` is an invariant of the ring
over everything written to it: it holds the latest entries, at the positions given by
their numbers modulo the capacity; `SnapshotReadsLatest` reads them back in
order. `LoginAdmits`, `LogoutRefuses` and `AskingDecidesNothing` say of each step on
the sessions whom it admits later, for every token, password and time.

`DispatchProofs` proves `TypeOK`, `RunsOnlyPermitted` and `FailureReported` for any command
tree, rules and number of events. The invariant adds what a position has
established: an event past `Resolve` met an enabled plugin in `inForce`, a queued
one an admitting rule as well (`Passed`); until then `inForce` holds the
configurations behind both snapshots (`Tracked`). That the search of the tables
returns only a command the text names is a lemma of its own (`ResolvedNamed`),
by the cases of `ResolveRoot`. `SavedAccessLoads` is about `Access` alone: preparing
a configuration that was prepared gives exactly this configuration, so the
next start accepts what the console saved. It needs that trimming is
idempotent and that the names of modes and commands have no blanks
(`AccessAssumption`). `PreparedAccepts` and `PreparedDecides` say which configurations
are accepted and that one that is decides as it was said. `GluedLongest` and
`GluedFound` state of the glued command what holds of the comment at
`register.go:398`: the longest name if any, and any unless one lies in between. The
last two are about events again: nobody is turned away without a reason
(`RefusedForAReason`, whose invariant gives each stage of an event the
refusals it has passed), and an event only moves towards its end
(`EventsConverge`).

`DeliveryProofs` proves `TypeOK`, `SentOnce`, `NoStaleWaiter`, `OneFetchPerLapse` and
`NumbersDistinct` (the replies to one event have different numbers below the
limit) for any number of sends, workers and attempts. Until a send has been
told of publication or review it has at most one copy per lost answer; once it
has, it posts no more, and the review adds at most the one it is due. `Limits` bounds
the copies by the posts of both retry loops, for the type, and `Tokens` charges every
fetch but the first to a lapse: without a token there is a lapse to spare. `Trail` adds
what a send has registered and why it failed; from it follow that the goroutine of a
verdict never blocks (`VerdictFits`), that a send denies a published message only
after a lost answer or an audit it gave up (`FailureExplained`), and that a message
comes out after its send returned only in the second case (`LateOnlyAfterTimeout`).
`StepsLeft` orders the nested retries: each step of a send lowers it and no other
step raises it (`SendsConverge`). `ChunksCover` says of any data and block size that the
parts divide the bytes, and `PushesAreLimited` that 2 * `RateLimitMax` wrong keys in
a row take longer than a window; the invariant is what a fixed window still knows of
the answers before it.

`ConsoleProofs` proves `TypeOK`, `CopiesAgree`, `SavesOnlyItsOwn` and `PasswordKept`
for any requests, entries and faults. `Refreshed` says that memory is the file but
for leaked entries, `Carries` that what a request under way is about to apply is
what is saved unless it was overtaken, `InForceOrKnown` that an entry no request is
about to apply is in force unless it diverged, and `Keeps` that a prepared blank
password is the one in the file unless the preparation is stale. For `Reply`,
`PartsCorrect` proves `PartsOnce` for any replies, parts and providers: before the
main message nothing was sent (`Unsent`), it and the parts that need a message of
their own divide what the builder was given (`Divided`), and then a part still to be
sent was not sent, and one neither sent nor to be sent is among the errors
(`Reported`). `SettingsAlone` shows that a behaviour of `Reply` is one of `Console`,
so the theorems about `Console` hold while replies run.

`LifecycleProofs` proves `TypeOK`, `TogetherOnlyBriefly`, `FileFollowsMain` and `OneHandle` for any
number of processes and store users. The first follows from `PortInv`: a server
that failed to listen has put an instruction into the queue or main is leaving
already, and only one process holds the port. The others follow from `StoreInv`:
the only open handle is the one in `db`, on the file `dbPath` names, and `dbPath` is
determined by the phase of main. `WayOut` is the safety half of `OneRemains`: what a
process was asked is never forgotten, although `Select` drops what it did not
choose, and main passes every stage once at most. Where main waits for the gateway
its connection has ended or was missed (`WaitsForMissed`).

The assumptions are those on the constants, evaluated by TLC in the runs.
Every `TypeOK` and every safety property of a passing run is proved. Model-checked
only:

- liveness, which under fairness is outside the prover's reach. Of most such
  properties the part without fairness is proved, that nothing leads away from the
  goal or that a measure falls with every step: `RescueHolds` for `NextCallRescues`,
  `StopConverges` for `StopReturnsOrMisses`, `DeadStaysDead` for `DeadSessionDropped`,
  `NoneComesBack` for `LoopsLeave`, `IdleIsStopped` for `IdleCostsNothing`, `EventsConverge`
  for `EveryEventAnswered`, `SendsConverge` for `EveryWorkerReturns`, `WayOut` for `OneRemains`.
  What is left to the runs is that the steps are taken;
- what a recursive definition or a fold computes for every input, which takes an
  induction the prover cannot do: `NewHostCorrect`, `ResizedKeepsNewest`, the sequences of
  requests of an upload and a stream. Where a function is applied step by step,
  as the push into the ring or the window of the rate limit, the invariant of
  the step is proved instead.

## 5. Plan

The core was built in this order: `TaskPool`, `Gateway`, `Schedule`, `LiveBus`, `Dispatch`,
`Delivery`, `Console`, then `Storage` with `Lifecycle`, `Cron`, `Commands` and `LogHub`, then
`ImageHost` and `Reply` on top of `Console`, `Access`, `Upload`, `Push` and `Session`, and the
proofs of each. The pure functions are checked in the run of the component
that uses them, so that a run stays one question about one component. What is
left, in order:

1. A push and the command that forbids it at the same moment: `HTTPHandle` in steps,
   composed with `Storage`. The reads of the store and the send are one step now.
2. The uploads of one reply to the image host at the same time, whose counter is
   not synchronised (`assets/host.go:270`).
3. Theorems: that the requests of `Console` and the replies of `Reply` converge as
   events and sends do, and that `Storage` leaks no handle in whatever order a program
   calls it.

## 6. Findings and observations

The four violated runs are the findings of `PROJECT.json`. Of these the one about
restarts decides what `EveryJobServed` means: the model follows the code, in which
a second `Start` launches the loops again, so the property asks for them, and
`StartRestoresNothing` states the document, which the run refutes. Noted while reading,
without a run of their own:

- a reply is refused as soon as the counter, which starts at 1, reaches 5
  (`message/ref.go:13-21`): four replies are sent, the error says the limit is 5
  (`message/errors.go:31`);
- Stop is said to interrupt every stage (`client.go:74`, 201), but it can miss the
  connection that is being made and then waits until the server ends it;
  `StopReturnsOrMisses` states the exact exception, and a shutdown may hang there
  (`Stuck`);
- the glued command is the longest prefix (`register.go:398`) only if no other
  name lies in between: with `db` and `dbx` registered, `/dbz` resolves to nothing,
  for the search looks at one neighbour; `README.md:186` promises the split without
  that exception (`Hidden` in `Commands`);
- a ring that was never overwritten keeps its oldest entries when it shrinks
  (`stream.go:90-110`); the program resizes only to the size it has (`main.go:57`);
- a handler that is still running when the store was closed opens `bot.db` and
  writes there (`FileFollowsMain`);
- a cron job registered again, by its own handler for instance, fires again in
  the same minute, for `lastFire` belongs to the registration
  (`docs/schedule.md:247`: once per minute);
- two cron loops may coexist after Stop and Start, and one with a late tick of
  the minute before fires that minute again;
- the settings page offers `prefixes` (`admin/config.go:37`), which `applyCoreKey`
  refuses;
- a rule `off` for one command under a restrictive default is dropped when it is
  saved (`register.go:199`, 294), so the default applies; `README.md:294` says that
  `off` lets everybody pass and may be given per command;
- `markdown_verify_image` is read by nothing (`client.go:31`, 60); `README.md:69` says
  that a failed transfer of an image interrupts the send then;
- `push.go:31` says the rate limit slides; it counts wrong keys in fixed windows, so
  twice the limit less one fit into one minute (`AttemptsAreBounded`);
- changing the admin password ends the sessions (`admin/config.go:38`) until it is
  changed back, and a live stream that is open already goes on (`SessionAdmits`);
- a chunked upload panics if the server lists a part beyond the data
  (`upload.go:110`); its blocks are cut by the size the server gives and not by
  what it lists;
- the 256th fragment of a stream has the number 0 (`stream.go:91`), and until the
  first answer each fragment asks for a stream of its own;
- an image whose file cannot be read goes out as its local path and no error is
  reported (`host.go:134`), and an `@everyone` in a reply planned as text is lost if
  `global_markdown` is switched on before it is sent (`PartsOnce` names both);
- the keyboard of a markdown part given to a builder is dropped without a word
  (`builder.go:163`); only that of the builder itself is sent;
- a cron step near 2^63 wraps (`schedule/cron.go:83`): the expression
  `59/9223372036854775807 * * * *` is accepted and admits every odd minute; `Cron` leaves
  such steps out;
- `config.example.json` uses an access mode and command paths that
  `LoadConfigurations` rejects, so a start with it fails.

## 7. Not modelled

- The webhook signature (`middleware/verify.go`): one request, no state, a library
  does the arithmetic.
- Statistics (`state/`): three atomic counters nobody decides by.
- Buttons, templates, images and how a message is put into JSON: wording and
  layout. Of `buttons/` the callbacks are in `Dispatch`.
- The sample plugins: each is a handler that sends one reply, which is
  what `Dispatch`, `Reply` and `Delivery` are about.
- The browser front end (`web/`) and the pages of the console: they show what the
  modelled handlers return.
- How arguments are parsed (kong), HTTP routing, the wire encoding.

What is left out of a component that is modelled in part is listed with its reason in
`PROJECT.json`.
