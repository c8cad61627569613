# TLA+ verification of CouchMic

CouchMic receives a microphone stream from an iPad on a Windows PC and plays it into a virtual
cable. While a device sends, the PC's default recording device is switched to the cable, and given
back afterwards. This directory models the parts of the program that are hard to test: the switch
of the default microphone and its recovery after a crash, the tasks that decide when to switch, the
gate between several senders, the way of the audio from lossy packets into the jitter buffer, the
sessions the sender page sets up, the access guard with its lazy look-up of the owner, the log file
and the tray icon, and the life of the processes between the scheduled task, the user and the
installer.

Paths below are relative to the repository's `src/` (`micswitch.rs` is `src/src/micswitch.rs` as
`PROJECT.json` writes it). Run everything in this directory:

    tlc -workers 4 -config MicSwitch.cfg MCMicSwitch
    tlapm MicSwitchProofs.tla

## 1. Inventory

| Component | Source | State | Operations | Modelled by |
|---|---|---|---|---|
| MicSwitch | `micswitch.rs` | `previous`, `target`, the lock; outside the process: the default device of each role, `previous-mic.txt`, `previous-mic.lock` | `new` with `recover_previous`, `activate`, `restore` | `MicSwitch` |
| Switch control | `app.rs` 357-430, 807-834, 1230-1256 | client counter, `switch_enabled`, `mic_active`, timers, blocking tasks | a client comes or goes, the grace timer, tray commands, shutdown | `SwitchControl`, `MicPolicy` |
| Source gate and connections | `app.rs` `ws_upgrade`/`handle_ws`, `audio.rs` `SourceGate`, `webrtc_rx.rs` | slots, active id, per-connection session, decode loops, `RtcStats` | upgrade, block, offer, close, idle check, packet | `SourceGate` |
| Jitter buffer, packet loss | `audio.rs` `JitterBuffer`, `webrtc_rx.rs` `decode_loop` | pending and queued samples, adaptive target, last underrun; expected sequence number | push, note a loss, change the rate, pull, say goodbye; gap, FEC, PLC, resync, pause | `JitterBuffer`, `AudioPath` |
| Sender page | `web/index.html` | start/stop/reconnect flags, coroutines, `pendingOffer`, socket, peer connection, timers | start, stop, socket, offer and answer, reconnect timers | `SenderPage` (partly) |
| Access guard | `access.rs` | allow list, last look-up, log window and its counters | `check`, look-up, log a rejection | `AccessRules`, `Access` |
| Rotating log | `logfile.rs` | the two files, `written`, `last_attempt` | open, write, rotate | `RotatingLog` in `Reporting` |
| Tray and status | `tray.rs`, `app.rs` 716-805 | channel, message queue, icon, `last`; counters of the tick before, `last_trouble` | start, `set_state`, `shutdown`, message loop; the two loops that report | `Tray` in `Reporting` (partly) |
| Life cycle | `app.rs` `main`, `main.rs`, `install.ps1` | processes, port, stop marker, scheduled task, installed program, record of the microphone | start, quit, watchdog, `--restore-mic`, install, uninstall, sign-out | `Lifecycle` |
| Output, HTTP routes | `app.rs` | cpal stream | open device, serve files | no: pure I/O; the callback's `pull` is in `AudioPath`, the order of start-up in `Lifecycle` |
| Texts; build | `i18n.rs`; `Cargo.toml`, CI | none | | no: constants, scripts |

How they interact. `handle_ws` runs once per WebSocket, behind the access guard, which every route
has in front of it. Its first valid block or offer makes the connection a client and may spawn a
blocking task that calls `MicSwitch::activate`; the last client leaves a timer behind that calls
`restore`. The tray and the shutdown call the same `MicSwitch` through one mutex. Every connection
asks the `SourceGate`, one atomic integer, before it pushes into the jitter buffer; a WebRTC session
adds a decode loop, a task that nobody joins. The audio callback pulls from the buffer. One loop
reads the counters of all of this once a second and tells the tray thread, over a channel and a
posted message; another one writes them into the log. The state file, the lock file, the port, the
log and the stop marker are shared with any other CouchMic process of the logon session: one the
scheduled task starts every five minutes, one started by hand, the uninstaller's `--restore-mic`.

What is hard:

* `MicSwitch`: three calls per pass, each can fail; the process can die between any two steps; the
  user and Windows change the same defaults; the record on disk, the memory of the process and
  Windows must agree often enough to recover.
* Switch control: decisions (`clients == 0`, "first client", `switch_enabled`) are read in one step
  and acted on in another, by tasks that are spawned and not awaited.
* Gate: the active id is claimed by loops whose connection may already be gone.
* Audio: a 16-bit number space, late packets, a paused track, two writers and one reader, an
  adaptive target that must not make latency grow or silence the output.
* Page: two coroutines share every global and read it again after each await; timers are not
  cleared.
* Access: the verdict, the decision to look the owner up and the update are taken under different
  locks; a slow look-up may bring back an older answer than the one that is known by then.
* Log and tray: every call of a rotation can fail, and the process can die between two of them; an
  update and the message that announces it travel apart.
* Life cycle: five ways to start and as many to end, an order of steps in `main` and in
  `install.ps1` that everything rests on.

The hazards are listed one by one, with the line where they bite, in `PROJECT.json`.

## 2. The modules

### MicSwitch (with MCMicSwitch, MicSwitchProofs)

One process is one element of `Procs`; several share the lock file and the state file. Windows is
`default` (the default device of each of the three roles), `plugged` and `apiOk`. A process is at a
point `pc[p]`: `dead`, `recover` (inside `recover_previous`), `recovered` (it took over a dead
run's memory and goes on into `restore`), `idle`, `save`/`write` (the two halves of
`save_state`: `fs::write` truncates, then writes), `switch` (the pass of `activate` over the
roles), `restore` (the pass of `restore`), `cleanup` (before the file is removed).

| Code | Actions |
|---|---|
| `new(manage)` | `LaunchManaging`, `LaunchLazy` (`--no-switch`) |
| `recover_previous` | `RecoverNothing`, `RecoverTakeOver`, `RecoverDiscard` |
| `activate` | `ActivateNoTarget`, `ActivateAlready`, `ActivateScan`, `SaveTruncate`, `SaveWrite`, `SaveFails`, `SwitchRole` (once per role) |
| `restore` | `RestoreNothing`, `RestoreKeepsUserChoice`, `RestoreBegin`, `RestoreRole` (once per role), `RestoreEnd` |
| outside | `Kill`, `UserPicks`, `Unplug`, `PlugIn`, `ApiFlips` |

`chosen` (what the user wants for each role) and `switched` (the roles that are on a target because
a process put them there) are ghosts: no guard reads them. The three deletions of the state file are
one operator, `RemoveFile`: the code ignores an error, and so the file may stay. A behaviour takes place in one `world`,
a record chosen in `Init` that says what the environment may do there; `MCMicSwitch` defines the
worlds the runs look at. Abstracted: COM initialisation, device names (a filter always finds the
same device), the text format of the state file. A file of an older version, with no `T` line, is
the initial state `legacy` adds.

### SwitchControl (with MCSwitchControl, SwitchControlProofs) and MicPolicy

`MicSwitch` is reduced to `switched` (its `is_active()`). Connections go `new` -> `open` -> `check`
(counted, about to call `activate_switch`) -> `counted` -> `gone`; `grace[c]` is the timer task the
last client leaves behind, `tray` the command loop, `quit` the shutdown future. `activations` counts
the spawned tasks, `restores` the waiters whose task has not finished; `holder`/`called` are the
mutex and the point between the call and the store of `mic_active`. `pace` says whether an event
(connect, disconnect, tray command, quit) may arrive while the calls of an earlier one still run
(`overlapping`) or not (`calm`). Grace timers overlap everything at both paces. `undone` is a ghost.

`MicPolicy` is the abstract promise of `app.rs:9-11`: the microphone is switched only when a client
is connected and switching is on, given back only when not, and both happen in the end. Its fairness
makes it say, too, that a process that quits has given the microphone back.

### SourceGate (with MCSourceGate, SourceGateProofs)

Every await and every atomic of `ws_upgrade`, `handle_ws` and the packet loop that touches shared
state is a step. A connection goes through `upgrade`/`refused`, `open` (`offer` while one is answered),
then `closing`, `release`, `clear`, `drop` and `gone`; its locals end with it. A decode loop
is `<<connection, n>>` for the n-th accepted offer; it goes `poll` -> `got` -> (`stats` ->) `play`.
`LateLoops` says whether a session may be closed while its loop is working on a packet. SDP, header
validation and sample values are abstracted.

### JitterBuffer, AudioPath, JitterBufferProofs

`JitterBuffer` has one action per method (each runs under the mutex). Samples are durations in ms.
Left out: the drift control (a block is stretched by at most 0.5 %), the resampler's own delay,
sample values, and that a block of `CHUNK` samples lasts longer at a lower rate. Whether the last
underrun came after the last block, which the code decides by two time stamps, is `tail`. `dried` is
a ghost. `BufferSpec` lets arbitrary callers call it in any order.

`AudioPath` composes it with `decode_loop`, a PCM connection, the audio callback and the clock. The
decode loop is split at every lock: `note_loss`, the FEC frame, each PLC frame, the packet itself.
The gate is only "who is active": `SourceGate` has its races. A PCM block takes the gate and the
buffer in one step, and so does a goodbye; those races are in `SourceGate`, too. `SEQ` stands for
2^16.

### SenderPage (with SenderPageProofs)

The page is one event loop; an action is one task, from the event that wakes a coroutine to its next
await. `flow` says at which await the coroutines of `start()` and `reconnect()` are: `audio`
(permission), `ws` (`openWs`), then in `startRtc` `offer`, `gather`, `answer`, `remote`, `connect`.
`ws`/`waiter` are the current socket and the coroutine that `openWs` promised it to; a replaced one
has no handlers. `pendingOffer` is the coroutine whose resolver is stored, `armed` and `leftover` are
the 6 s timers whose promise is still pending or already settled, `retry` the timers that call
`reconnect()`. `conn`, `pc` and `peer` are the peer connections: the object a coroutine waits for may
no longer be the global one.

`env` is chosen at the start: a `wild` environment may do anything at any time; a `calm` one leaves
a negotiation alone, and the 6 s after an offer. The safety properties hold in both, the liveness
properties are about the calm one; the observations below say what happens in the wild.

Assumed of the browser: calls on a closed peer connection reject instead of staying pending; a failed
socket reports `error` before `close`; the page's own worklet module loads. Making a node on a closed
context may work or throw. Left out: mute, the ping and statistics intervals, the choice between tabs
at load.

### AccessRules, Access (with MCAccess, AccessProofs)

`AccessRules` is `AllowList::check` as an operator on a request, with the parsing it rests on. A
name is a record of who it is and whether it is spelled in lower case, an address or a login the
record of its parts before they are parsed; characters are abstracted, broken parts stay as values
of their own. `OtherNames` are the hosts that the options may name besides loopback and the PC's own
name; `Extra` are the texts of `--allow-origin` and `--ui-url`, of which `ExtraTexts` says only that
none of them names the host "foreign", which stands for every host nobody allowed. `AsDocumented`
states the rules of the module's documentation (`access.rs:23-29`) without parsing, by listing the
texts that name an allowed address.

`Access` is the guard in front of every route. A call of it goes `idle` -> (the check) `maybe` ->
(the two halves of `should_probe`) `interval` -> `probing` -> `probed` -> `recheck`, and ends in
`serve` or `reject`; every lock it takes is a step. `GivesUp` is a client that closes its connection
during the look-up: the call is dropped at its await. The Tailscale service is `tailscale`, which may
know nothing, the PC without its user, its owner, or somebody else. `Restart` is a new process,
with a list from `tailscale status` at that moment. `owners` and `lookups` are ghosts, and
so are `unseen`, the rejections since the beginning that the log does not show, and `lost`, those of
them that a process had only counted when it ended.

### RotatingLog, Tray, Reporting (with ReportingProofs)

`RotatingLog` is `logfile.rs`: a rotation is `Measure`, `RemoveOld`, `Rename`, `Reopen`, `Stat`, each
of which may fail, with a kill between any two; `WriteLine` begins a line, `WriteOut` ends it.
Another program may hold the log so that it cannot be renamed. `blind` and `kept` are ghosts.

`Tray` is the thread with its message loop. `setting` and `closing` are the steps of `set_state` and
`shutdown` (send, then wake), `wakes` the posted messages, `queue` the channel; the start handshake
is `TrayStart` and `TrayReady`.

`Reporting` composes both with a process that starts, serves, quits or is killed, with connections
that come and go, and with the two loops of `app.rs` that read the counters: `ReadCounters` and
`ReportStatus` are the two halves of a tick of `tray_status_loop` (the locks are taken one after the
other), `StatsTick` one of `stats_log_loop`. Underruns and lost packets are one number. A behaviour
has a log or a tray (`Outputs`), since the two share nothing but the process. `lossSince` and
`rewound` are ghosts.

### Lifecycle (with LifecycleProofs)

The scheduled task's instance, one started by hand, and `couchmic --restore-mic`. `StartOrder` is
the order of `main`: stop marker, port, log, microphone, output; each step ends the process or goes
on. `UninstallOrder` and `InstallOrder` are the steps of `install.ps1` that touch processes, task,
marker or record. The microphone is reduced to `mic` and `record`, and a call of `MicSwitch` to one
step. `DeletesMarker` is the deletion of the stop marker by a start by hand and by `install.ps1`, none
of which looks at an error. `stopped`, `abandoned`, `lostRecord` and `stuck` (the marker could not be
deleted) are ghosts.

Assumed: the 200 ms of a shutdown outlast the two statements of another process between reading the
stop marker and binding the port (`Outlasts`); the user starts nothing by hand while `install.ps1`
runs, and does not quit one instance in the milliseconds in which another one starts by hand.

## 3. Runs

| Run | Bounds | What it asks |
|---|---|---|
| `mic` | 2 processes, 3 devices, three worlds (below) | `Consistent`, `MemoryOnDisk`, `Recorded`, `GivenBack`, `RecoveryCompletes`, `UserChoiceKept` |
| `mic_kill_in_restore` | kills everywhere, 2 events | `RecoveryCompletes` **is violated** |
| `control` | 3 connections when calm, 2 when overlapping, 2 commands, failing activations | `Consistent`, `NoActivationLost`, `RestoresFinish`, `QuitExits`, refinement of `MicPolicy` |
| `control_grace_race` | 3 connections, no commands, any overlap | `ConnectedIsSwitched` **is violated** |
| `gate_safety` | 3 connections, 2 slots, 2 offers, 2 packets | `SlotsHold`, `ActiveIsAlive`, `OnlyStartsTakeOver` |
| `gate_live` | 2 connections, 1 offer, 2 packets | `SomebodyPlays` |
| `gate_zombie` | the same with `LateLoops` | `SomebodyPlays` **is violated** |
| `audio_path` | 8 sequence numbers, 2 losses, 1 late packet, 2 underruns | `Bounded`, `UnderrunsAreGaps`, `LossIsCounted`, `NoExtraAudio`, `SilenceEnds` |
| `page` | 5 events, calm and wild, with and without forced PCM | `NoForgottenPeer`, `StoppedIsSilent`, `WaitersServed`, `Recovers`, `SetupFinishes` |
| `access` | 2 calls of the guard, requests of owner and guest, 1 change of Tailscale, 1 restart | `ServedRightly`, `OneLookup`, `RulesAsDocumented`, `RejectionsReported`, `OwnerGetsIn` |
| `reporting` | limit of 3 units, lines of 1 and 2, 3 faults or changes | `Sound`, `HistoryKept`, `LogResumes`, `TroubleIsReal`, `IconFollows` |
| `life` | 5 acts of the user, 3 kills or failures | `OneInstance`, `StopWins`, `NothingForgotten`, `RecoveredFirst`, `ServedAgain` |

The type invariant of each module is a conjunct of its first invariant (`Consistent`, `SlotsHold`,
`LossIsCounted`, `NoForgottenPeer`, `ServedRightly`, `Sound`, `OneInstance`).

The worlds of `mic`. `Killed`: kills everywhere except inside a restore pass, the user changes all
roles at once, two devices are unplugged and plugged in again, the state file cannot always be
deleted, 6 events. `BrokenApi`: the same with
an `IPolicyConfig` that stops and starts working, kills outside the passes, 5 events. `Hostile`: two
targets, `--no-switch` starts, failures of single calls, a user who changes roles apart, anything in
the middle of anything, 2 events. `Consistent` and `MemoryOnDisk` are claimed in all of them; the
other four in orderly worlds, where no single role fails and nothing races a call; the state file may
stay undeleted there, too.

Why the bounds are enough to be interesting. Two processes are what a lock file is about: one holds
it, one wants it. Three devices give a target, a previous device and another one to fall back to or
to pick by hand. Six events reach, for instance, a kill in the middle of the switch, a second kill
in the recovery, an unplugged and re-plugged device and a user's choice in one behaviour. Three calm
connections let timers of two departed clients run while a third one comes. Three connections for
two slots reach the step between `fetch_add` and `fetch_sub`; two
offers reach two sessions of one connection and one each of two. Eight sequence numbers wrap within
a run, and 3 as the small gap separates concealed gaps from resynchronised ones; `BaseMs = 30`,
`MaxMs = 35`, `TARGET_MAX_MS = 40` put the grown target above `--max-ms`, which is the case
`SilenceEnds` is about. Five events of user and network are a start, a stop and a second start with
two outages, or a session with a drop of the socket and two of the peer connection. Two calls of the
guard let a slow look-up end after a later one. Tailscale is in any state (nothing, the PC without a
user, its owner, another user) at the first start and changes once, before or after the restart, which
is enough for two look-ups, or two starts, that find different things. One line per window and one suppressed rejection reach
the summary; at most two are suppressed in a window, so `MaxUnseen = 6` is never reached.
A limit of 3 with lines of 1 and 2 reaches a file just below, at and above the limit and the cap;
three faults are, for instance, a program that takes the log, a size that cannot be read and a kill;
for the tray, a client, a loss and a goodbye. Five acts reach an installation, a quit, a start by
hand, and an update or an uninstall after that; three faults a kill, a failing output and a failing
installer.

The symmetric runs (`gate_safety`, `control_grace_race`) check no liveness.
`CHECK_DEADLOCK FALSE`: every model really stops, when its processes have exited or its bounded
environment has nothing left to do.

Each property has a mutant in `PROJECT.json`: a plausible bug in the code (the console role looked
at last, a timer that forgets to look at the counter, a gate released on one path only, a woken
thread that finds nothing yet) that makes TLC violate it. The mutated operators stand before the
definitions they mutate.

### Fairness

* `SwitchControl`: weak fairness of every task. Tokio runs runnable tasks, sleeps end, and a
  blocking thread that waits for the mutex gets it (weak fairness of the blocking threads together
  is enough, since a behaviour has finitely many calls). Nothing says that anybody
  connects, disconnects or quits. It assumes that every COM call returns.
* `SourceGate`: weak fairness of the tasks; strong fairness of a PCM block of a connection that has
  started, since `SomebodyPlays` is about devices that keep sending: while another connection plays,
  the block is dropped, which the model shows as a disabled step.
* `AudioPath`: weak fairness of the decode loop and of the clock. `SilenceEnds` asks in its premise
  for a source that plays for ever.
* `SenderPage`: weak fairness of sockets, timers and calls on a peer connection. The PC owes no answer
  and the user nothing.
* `Access`: weak fairness of the tasks and of time, which assumes that `tailscale status` ends, and
  none of the clients that give up;
  strong fairness of the owner's requests: the page tries again and again, and finds a free task now
  and then.
* `Reporting`: weak fairness of the tasks, the tray thread and time. Another program that holds the
  log lets go of it.
* `Lifecycle`: weak fairness of processes, of the triggers of the task, of the script and of the other
  program that has the port; strong fairness of a shutdown, which `Outlasts` holds up for instants
  only. Nobody has to start, quit, install or sign on.

### Reading the properties

* `Recorded`, `MemoryOnDisk`: the state file covers every role that is on the target because of the
  program, and is what the process would have to give back if it died at this very step.
* `RecoveryCompletes`: a start that discards the state file leaves nothing switched.
* `GivenBack`, `UserChoiceKept`: when nothing is left to recover the user has the devices they want,
  and no restore overwrites a role that already is where the user wants it.
* `NoActivationLost`: connecting and turning switching on in the tray each read what the other one
  writes; at least one of them sees the other.
* `Mirror`: `mic_active`, read without the mutex, is right whenever nobody is in a call.
* `OnlyStartsTakeOver`, `ActiveIsAlive`: the gate moves only to a first block or packet, and never
  belongs to a connection past its release.
* `LossIsCounted`: the gap the loop computes is what the network lost since the last packet, across
  the wrap and across a pause. `NoExtraAudio`: concealment never makes more frames than that.
* `NoForgottenPeer`, `StoppedIsSilent`: `stop()` tells no coroutine; still, nothing that one of them
  does later brings the microphone, a socket or a peer connection back, and no peer connection is
  left where `stop()` does not reach it.
* `Recovers`, `SetupFinishes`: a started page sends again after each outage, or is stopped.
* `UnderrunsAreGaps`: an underrun that stays counted was followed by more audio.
* `ServedRightly`: whatever look-ups, restarts and changes of the user come in between, a request from
  the tailnet is served only to somebody Tailscale has named as the owner. `OwnerGetsIn`: a slow
  look-up that found less may overwrite a complete identity, and still the owner gets in again. Its
  premise excludes another user's identity: a complete one is never looked up again. It also asks
  that from some time on nobody gives up during a look-up: each such call uses up an interval.
* `RejectionsReported`: as long as requests keep being rejected, the log comes up to date again and
  again: windows end, and each summary tells of all that was suppressed. What a process had only
  counted when it ended (`lost`) is excepted, since no summary tells of it.
* `RulesAsDocumented`: over all spellings and parts of the headers, the parsed rules accept exactly
  the texts that name an allowed address.
* `HistoryKept`: the two files together keep the lines written last, close to the limit, at every
  step. `LogResumes`: a full log takes lines again once it can be rotated.
* `Sound`, `IconFollows`: the tray thread never sleeps over an update, and the icon ends on what the
  counters say. `TroubleIsReal`: the icon turns yellow for a loss since the tick before, and for nothing
  else but counters that went back.
* `OneInstance`: whoever meets at the start, only the process that has the port has the log and the
  microphone. `StopWins`: after a quit, no process gets past the marker or the port until the user
  says otherwise. `RecoveredFirst`: a start that fails for its output has given the microphone back.
  `ServedAgain`: otherwise CouchMic comes back after everything, but for a marker that cannot be
  deleted.

## 4. Findings

Three runs end in a violation, each of a sentence of the repository:

1. `mic_kill_in_restore` (`micswitch.rs:331`). `restore` gives the console role back first. Killed
   before the other roles are back, the process leaves them on the target; the next start sees that
   the console default is not the target, takes it for the user's choice and removes the file.
2. `control_grace_race` (`app.rs:417`). The timer looks at the counter, releases its lock and then
   restores. A client that connects in between finds the microphone still switched, so that its
   `activate` does nothing, and is restored away.
3. `gate_zombie` (`webrtc_rx.rs:107`). A packet already polled when its session is closed is still
   processed after the release and gives the gate to an id nobody will release.

The passing runs leave out these cases, and the first observations below, by a named constant
(the fields `crash`, `scopes`, `faults`, `lazy` and `racing` of a world; the calm pace;
`LateLoops = FALSE`); everything else stays in.

### Observations

Seen while modelling, with TLC or by reading, and not made into a run of their own:

* `restore` looks at the console role only (`micswitch.rs:415`): a user who changes just the
  communications device while the microphone is switched loses that choice. The orderly worlds
  therefore let the user change all roles at once; `Hostile` lets them change them apart.
* When `SetDefaultEndpoint` fails for the console role alone (388), the restore takes the result for
  a user's choice and removes the file (421), with the other roles on the target. When it fails for
  a later role alone in a restore, the file is kept (450) but the next start discards it (331).
* A kill in the middle of the switch, then a recovery that stays incomplete because the API is
  broken, then a new `activate`: it overwrites the record with the roles that still differ. This is
  why `BrokenApi` is a world apart from `Killed`.
* `activate` is spawned and not awaited (`app.rs:363`), so it may get the mutex after a restore that
  was asked for later. A first block in the 200 ms before exit switches again (1253). Grace timers
  are not cancelled when a client comes back; an older one cuts the time of a newer one short (416).
* `clients` counts connections that have sent audio, not "open WebSockets" (`PROTOCOL.md:115`).
* The gate is released before the shared RTC state and the buffer are cleared (704-706): a new
  source may lose one block. A superseded WebRTC sender that sends nothing on its socket is closed
  as idle (603). The RTC counters start again with each loop (`webrtc_rx.rs:109`), although
  `PROTOCOL.md:115` calls the counters cumulative.
* A late RTP packet moves `expected` backwards, so that the next one looks like a loss. `LossIsCounted`
  and `NoExtraAudio` speak of the time until then.
* `--target-ms` above `--max-ms` is not refused and silences the output for good; a target grown
  above `--max-ms` silences it until it shrinks (`SilenceEnds` shows that it does).
* The page, in a wild environment. The timer of an answered offer is not cleared
  (`index.html:448`): a reconnect within 6 s loses its resolver to it, waits for ever and keeps
  `reconnecting` set. When the socket drops while `reconnect()` negotiates, the retry timer finds
  `reconnecting` set (423) and nobody tries again; the page says "Sending" over a dead socket. After
  a stop during a negotiation the fallback may leave a node of the closed context behind (465),
  which the next start keeps; it also sets the status to "Sending" (552).
* Should the worklet module not load (535), `start()` ends with the microphone on and `running`
  false. `stop` from another tab is ignored while a page waits for permission (616), since `running` is set
  afterwards. After a start whose first socket fails, the reconnect does not start the ping and
  statistics intervals (549).
* Two tabs with `?autostart=1` may each ask whether another one sends before either does, and both
  start (`index.html:638`).
* A log whose file could not be opened again after a rotation is lost until the next start: `written`
  is then 0, so that `write` never tries to rotate, which is what would open it
  (`logfile.rs:71-83`, 88). `LogResumes` excepts it.
* The tray turns yellow after a reconnect without any loss: a new WebRTC session sets its counters to
  0 (`webrtc_rx.rs:108-110`), a goodbye takes an underrun back (`audio.rs:125`), and the status loop
  takes any difference for trouble (`app.rs:729-731`), though `tray.rs:7-8` speaks of losses. The other
  way round, counters that went back and came up to the same number hide a loss.
* The icon stays as it was when `set_icon` fails (`tray.rs:216`), since the same status is never sent
  again.
* The summary of suppressed rejections is written by the first rejection after the minute
  (`access.rs:398-404`), not per minute: after a burst it comes with the next rejection, whenever that
  is, and never if the process ends before (`lost`).
* A state file that could not be deleted (`micswitch.rs:331`, 423, 448) names its target for good: a
  user who later makes the target the default by hand has it taken away at the next start. A
  kill just before the deletion leaves the same file.
* The stop marker that a start by hand could not delete (`app.rs:962`) stays: when that process is
  killed later, the watchdog does not bring CouchMic back, as if the user had quit. After an update
  with such a marker (`install.ps1:428`) the new program does not answer. `ServedAgain` excepts
  this (`stuck`).
* `StopWins` rests on the order of durations `Outlasts` states. A start by the task that has read the
  marker before the Quit and binds the port after the exit would serve on.
* A start by hand clears the stop marker before it fails to bind its port (`app.rs:1068`), whoever has
  the port.
* A killed `install.ps1` leaves the task disabled: its `finally` block does not run. The uninstaller
  deletes the record of the microphone also after a `--restore-mic` that failed (`install.ps1:227`,
  253). `ServedAgain` and `NothingForgotten` except these.

## 5. Proofs

`tlapm` proves every theorem below, to the last leaf, for all values of the constants that satisfy
the named assumptions of the modules (`ConstantsOK`, `PathConstantsOK`, `RulesConstants`,
`AccessConstants`, `ExtraTexts`, `LogConstants`, `TrayConstants`, `ReportingConstants`,
`LifecycleConstants`): any number of connections, processes, slots, requests, commands, faults and
acts, any sizes, any environment the constants allow. TLC evaluates the assumptions in every run, and
checked the inductive invariants on small instances before they were proved.

| Module | Theorem | States |
|---|---|---|
| `MicSwitchProofs` | `TypeCorrect`, `LockIsHeld`, `AlwaysConsistent` | `TypeOK`, `LockHeld`, `Consistent` |
| | `AlwaysRecoverable` | `MemoryOnDisk` |
| | `AlwaysRecorded`, `AlwaysGivenBack` | in a sheltered world `Recorded`, `GivenBack` |
| | `RecoveryIsComplete`, `ChoiceIsKept` | in a sheltered world `RecoveryCompletes`, `UserChoiceKept` |
| `SwitchControlProofs` | `AlwaysConsistent` | `Consistent` |
| | `ActivationNotLost` | `NoActivationLost` |
| | `RefinesPolicy` | `Policy!Init /\ [][Policy!Next]_(Policy!vars)` |
| `SourceGateProofs` | `SlotsAlwaysHold` | `SlotsHold` |
| | `OnlyStartsMayTakeOver` | `OnlyStartsTakeOver` |
| | `ActiveAlwaysAlive` | `~LateLoops =>` `ActiveIsAlive` |
| `JitterBufferProofs` | `BufferBounded`, `BufferGaps` | `Bounded`, `UnderrunsAreGaps`, for any callers |
| | `UsesBuffer`, `PathSafe` | `AudioPath!Spec => BufferSpec`, and both on the whole audio path |
| | `AlwaysCounted`, `NeverExtraAudio` | `LossIsCounted`, `NoExtraAudio` |
| `SenderPageProofs` | `NoPeerForgotten`, `StopsForGood`, `NoWaiterForgotten` | `NoForgottenPeer`, `StoppedIsSilent`, `WaitersServed` |
| `AccessProofs` | `AlwaysServedRightly`, `AlwaysOneLookup` | `ServedRightly`, `OneLookup` |
| | `RulesAlwaysMatch`, `AlwaysAsDocumented` | the rules are the documented ones, for every request and for those the run tries |
| `ReportingProofs` | `AlwaysSound`, `HistoryAlwaysKept`, `TroubleAlwaysReal` | `Sound`, `HistoryKept`, `TroubleIsReal` |
| `LifecycleProofs` | `AlwaysOneInstance`, `NeverForgotten`, `RecoversFirst`, `StopLasts` | `OneInstance`, `NothingForgotten`, `RecoveredFirst`, `StopWins` |

In each module the inductive invariant is `IInv` (for the sheltered worlds of `MicSwitchProofs` it is
`ShelterInv`). What it adds to the properties, and why they are not inductive without it:

* `MicSwitchProofs`. `MemoryOnDisk` needs to know of a start that discards the file, and of a scan
  that will overwrite it, that no *other* process depends on it, which is `LockHeld` (two processes
  that both have something to give back would both hold the lock), and that the process *itself*
  remembers nothing, which is `MemoryAtRest` (only an idle process, or one on its way from recovery
  into `restore`, has a memory). `ActorHoldsLock` and `OthersHoldNothing` are the lemmas that say so;
  the proof of a step then looks at the one process that acts.
  `Recorded`, `GivenBack`, `RecoveryCompletes` and `UserChoiceKept` are proved of the sheltered worlds
  (`Sheltered`), which both `Killed` and `BrokenApi` are. `ShelterInv` describes the one process that
  runs, by where it is (`Running`, `Doing`; all others are as after a kill, `Reset`). The heart of it:
  a restore pass gives back every role or none (`CanGive`, `Giving`), so that outside the passes
  the console role, the only one recovery looks at, speaks for all (`Settled`); and what the record
  says is what the user wants, unless the user has since picked one device for all roles (`Remembers`,
  `Uniform`). Every conjunct of `Sheltered` beyond `Orderly` keeps out counterexamples that TLC
  finds: a kill inside a restore (finding 1); a kill inside a switch with an API that breaks (the
  observations); an old file without target line read with another `--mic-filter`, and a cable that is
  unplugged between two processes with different filters (after which recovery asks Windows about the
  wrong device); a user who picks the cable by hand, which `restore` takes for its own doing.
* `SwitchControlProofs`. `ClientsCounted` and `Mirror` need `SpawnedOnce` (there are never more spawned
  activations than connections that have passed `check`, and commands) and `Lag` (`mic_active` differs
  from `switched` only while the mutex is held). `NoActivationLost` speaks of the moments when nobody
  is in flight; `Promised` says who is about to act at all the others. `RefinesPolicy`: at the calm
  pace a call of `MicSwitch` still agrees with the policy when it comes, since the state that made
  somebody ask for it lasts (`CalmInv`). It is the safety part of the refinement that the run checks
  with its fairness. At the other pace `MicPolicy` promises only what holds there.
* `SourceGateProofs`. That the number of packets counted stays in range needs the number of loops that
  work on one (`PacketsCounted`), that of offers the loops that exist (`OffersLooped`); `SlotsHold` is
  a statement about cardinalities, kept by `ConnectionMoves`. `ActiveIsAlive` rests on `Attached`: a
  loop that works has an open session, and an open session a live socket. The hypothesis `~LateLoops`
  is finding 3: without it the property is false.
* `JitterBufferProofs`. The invariant adds the types and `primed => tail = 0`: a primed buffer has had
  a block since its last underrun, so a second underrun never hides the first. `UsesBuffer` needs only
  that the numbers the loop works on are numbers (`LoopInv`).
  `LossInv` is the part about losses. Between two packets in order the losses so far are the way from
  the number expected to the sender's next (`Counting`), which `WayOneFurther` carries across the wrap
  of the numbers; during a packet the sender is one ahead of it (`Following`); frames made and frames
  to make are together no more than the gap (`Concealing`), in or out of order.
* `SenderPageProofs`. `Promised` (a socket that has not opened is promised to a coroutine that waits
  for it), `NothingYet` (until its socket is open, a start has no peer connection, not even one of a
  reconnect before it), `TimersWait` and `PeersKnown` (whose timer, whose object). `OneOfferEach`
  bounds the answers a socket owes by the two coroutines, whatever the environment does.
* `AccessProofs`. `OwnersKnown`: every identity that the list, the service or a look-up under way may
  hold was named by Tailscale before; `ServedOnly` follows at the check. `Interval` ties look-ups to the
  time of the last one across the two halves of `should_probe`. `RulesAlwaysMatch` quantifies over every
  combination of texts, not only those the run tries; its lemmas say what parsing makes of a text.
* `ReportingProofs` has one invariant per part. `LogInv`: a file is above the limit only by lines the
  program wrote blind (`BlindCounted`, `SizeKnown`), and the rotation finds the old file gone before
  it renames (`Rotates`). `TrayInv`: the posted messages are as many as the queued updates and the
  senders between sending and waking (`WakesCounted`), so a thread that sleeps has an empty channel.
  `LoopInv`: what the counters differ by since the last tick is a loss or a rewind since then
  (`Differences`). `HasLongest`, that a finite set of line lengths has a longest, is proved by
  well-founded strict subsets, since no induction theorem with an operator parameter can be used.
* `LifecycleProofs`. `PortHeld` and `SwitchHeld` say which process has port, log and lock by its place
  in `main`; `InOrder` and `Uninstalling` what has been done by the time the script is at a step.
  `StopWins` needs who has read the marker before it was written. The theorems rest on what the model
  assumes of durations (`Outlasts`) and of the user, which section 2 names.

Only model-checked:

* all liveness: the promises that something happens in the end (`RestoresFinish`, `QuitExits`, the
  fairness of `MicPolicy`, `SomebodyPlays`, `SilenceEnds`, `Recovers`, `SetupFinishes`, `OwnerGetsIn`,
  `RejectionsReported`, `LogResumes`, `IconFollows`, `ServedAgain`), which rest on fairness and are out of the prover's reach.

Every invariant and every action property of the passing runs is stated by a theorem above; four of
them with the hypothesis that the world is sheltered, and `ActiveIsAlive` with `~LateLoops`. The runs
check these five within the same hypotheses: their orderly worlds are sheltered, and their
`LateLoops` is FALSE.

## 6. Not modelled

* The tabs of the sender page (`?autostart=1`, `?stop=1`, the `BroadcastChannel`), mute, its ping and
  statistics intervals.
* The menu of the tray, its drawing, and notifications: the menu's commands are events of
  `SwitchControl` and `Lifecycle`, the rest is fire and forget.
* `/api/stats` and the static routes, which read; the security headers; the choice of the output
  device; `i18n.rs`; the firewall rule and `tailscale serve` of `install.ps1`; build and CI.
* Clock drift and the resampler in the jitter buffer, SDP and codec details, the text of the state
  file and of the log.

## 7. Plan

1. Done: all modules above; the proofs of section 5.
2. The same four theorems of `MicSwitch` with two different filters, for files that have a target line,
   where the cables stay plugged in.
3. The tabs of `SenderPage`, should its state space allow it.
