---------------------------- MODULE SwitchControl ----------------------------
(***************************************************************************)
(* When the microphone is switched and when it is given back               *)
(* (src/src/app.rs).  Connections count themselves as clients; the first   *)
(* one spawns a blocking task that calls MicSwitch::activate, the last one *)
(* leaves a timer behind that calls MicSwitch::restore.  The tray turns    *)
(* switching on and off, and quitting restores before the process exits.   *)
(* All calls of MicSwitch run on blocking threads, one at a time under its *)
(* mutex, in no particular order.                                          *)
(*                                                                         *)
(* MicSwitch itself is reduced to is_active() here; MicSwitch.tla has it.  *)
(***************************************************************************)
EXTENDS Naturals, FiniteSets

CONSTANTS
  Conns,        \* connections; each lives once, as connection ids do
  None,         \* nobody
  Paces,        \* "calm": events arrive only when the calls of the earlier ones are over;
                \* "overlapping": at any time
  BusyConns,    \* BOUND: the connections that come at the overlapping pace
  Fallible,     \* may activate() return without switching (at the overlapping pace)?
  MaxCommands   \* BOUND: commands from the tray

ASSUME ConstantsOK ==
  /\ IsFiniteSet(Conns)
  /\ None \notin Conns \cup {"activate", "tray", "quit"}
  /\ Conns \cap {"activate", "tray", "quit"} = {}
  /\ Paces \subseteq {"calm", "overlapping"}
  /\ BusyConns \subseteq Conns
  /\ Fallible \in BOOLEAN
  /\ MaxCommands \in Nat

\* The tasks that wait for a restore: grace timers, the tray's command loop, the shutdown.
Waiters == Conns \cup {"tray", "quit"}

VARIABLES
  pace,         \* never changes: how events arrive in this behaviour
  phase,        \* [Conns -> phase of the WebSocket task]
  clients,      \* AppState.clients
  enabled,      \* AppState.switch_enabled
  grace,        \* [Conns -> phase of the timer task the connection left behind]
  tray,         \* command_loop
  quit,         \* the graceful-shutdown future and the process
  activations,  \* blocking tasks that will call activate()
  restores,     \* waiters whose blocking task that calls restore() has not finished
  holder,       \* the blocking task that holds the mutex: "activate", a waiter or None
  called,       \* it has called MicSwitch and not yet stored mic_active
  switched,     \* MicSwitch::is_active()
  micActive,    \* AppState.mic_active
  commands,     \* tray commands so far
  undone        \* ghost: since the first client came or switching was turned on, a restore ran
                \* or an activation failed

tasks == <<activations, restores, holder, called, switched, micActive>>
moving == <<phase, clients, enabled, grace, tray, quit, tasks, commands, undone>>
vars == <<pace, moving>>

Calm == pace = "calm"

TypeOK ==
  /\ pace \in Paces
  /\ phase \in [Conns -> {"new", "open", "check", "counted", "gone"}]
  /\ clients \in 0..Cardinality(Conns)
  /\ enabled \in BOOLEAN
  /\ grace \in [Conns -> {"none", "sleeping", "checked", "restoring", "done"}]
  /\ tray \in {"idle", "on", "off"}
  /\ quit \in {"no", "asked", "restoring", "draining", "exited"}
  /\ activations \in 0..(Cardinality(Conns) + MaxCommands)
  /\ restores \subseteq Waiters
  /\ holder \in Waiters \cup {"activate", None}
  /\ {called, switched, micActive, undone} \subseteq BOOLEAN
  /\ commands \in 0..MaxCommands

\* switch_enabled starts as !no_switch.
Init ==
  /\ pace \in Paces
  /\ phase = [c \in Conns |-> "new"]
  /\ clients = 0
  /\ enabled \in BOOLEAN
  /\ grace = [c \in Conns |-> "none"]
  /\ tray = "idle" /\ quit = "no"
  /\ activations = 0 /\ restores = {} /\ holder = None /\ called = FALSE
  /\ switched = FALSE /\ micActive = FALSE
  /\ commands = 0 /\ undone = FALSE

Running == quit # "exited"

\* Some code other than a sleeping timer is between two steps.
InFlight ==
  \/ activations > 0 \/ restores # {} \/ holder # None
  \/ \E c \in Conns : phase[c] = "check" \/ grace[c] \in {"checked", "restoring"}
  \/ tray # "idle"
  \/ quit \in {"asked", "restoring", "draining"}

\* At the calm pace, people and devices act only once the previous event has been dealt with.
Event == Running /\ (Calm => ~InFlight)

(***************************************************************************)
(* A connection: handle_ws, on_client_connected, on_client_disconnected    *)
(***************************************************************************)
Open(c) ==
  /\ Event
  /\ Calm \/ c \in BusyConns
  /\ phase[c] = "new"
  /\ phase' = [phase EXCEPT ![c] = "open"]
  /\ UNCHANGED <<clients, enabled, grace, tray, quit, tasks, commands, undone>>

\* Mutant of IsFirst: the count before this client is looked at.
IsFirst_CountBefore(n) == n - 1 = 1

IsFirst(n) == n = 1

\* Mutant of FirstAudio: every block counts, not only the first.
FirstAudio_EveryBlock(c) ==
  /\ Event
  /\ phase[c] = "open"
  /\ clients' = clients + 1
  /\ UNCHANGED <<phase, enabled, grace, tray, quit, tasks, commands, undone>>

\* The first valid PCM block or offer of a connection makes it a client.
FirstAudio(c) ==
  /\ Event
  /\ phase[c] = "open"
  /\ clients' = clients + 1
  /\ phase' = [phase EXCEPT ![c] = IF IsFirst(clients') THEN "check" ELSE "counted"]
  /\ undone' = IF IsFirst(clients') THEN FALSE ELSE undone
  /\ UNCHANGED <<enabled, grace, tray, quit, tasks, commands>>

\* activate_switch: spawns a blocking task and does not wait for it.
SpawnActivate == activations' = IF enabled THEN activations + 1 ELSE activations

ActivateForClient(c) ==
  /\ Running
  /\ phase[c] = "check"
  /\ SpawnActivate
  /\ phase' = [phase EXCEPT ![c] = "counted"]
  /\ UNCHANGED <<clients, enabled, grace, tray, quit, restores, holder, called, switched,
                 micActive, commands, undone>>

\* saturating_sub(1)
OneLess(n) == IF n = 0 THEN 0 ELSE n - 1

\* Mutant of CloseSilent: every closed socket is taken off the counter.
CloseSilent_Uncounts(c) ==
  /\ Event
  /\ phase[c] = "open"
  /\ phase' = [phase EXCEPT ![c] = "gone"]
  /\ clients' = OneLess(clients)
  /\ UNCHANGED <<enabled, grace, tray, quit, tasks, commands, undone>>

\* A connection that never counted as a client leaves nothing behind.
CloseSilent(c) ==
  /\ Event
  /\ phase[c] = "open"
  /\ phase' = [phase EXCEPT ![c] = "gone"]
  /\ UNCHANGED <<clients, enabled, grace, tray, quit, tasks, commands, undone>>

CloseClient(c) ==
  /\ Event
  /\ phase[c] = "counted"
  /\ phase' = [phase EXCEPT ![c] = "gone"]
  /\ clients' = OneLess(clients)
  /\ IF clients' = 0
       THEN grace' = [grace EXCEPT ![c] = "sleeping"]
       ELSE UNCHANGED grace
  /\ UNCHANGED <<enabled, tray, quit, tasks, commands, undone>>

(***************************************************************************)
(* The grace timer of the last client                                      *)
(***************************************************************************)
\* Mutant of NobodyBack: the timer does not look at the counter again.
NobodyBack_Unchecked == TRUE

NobodyBack == clients = 0

GraceEnds(c) ==
  /\ Running
  /\ grace[c] = "sleeping"
  /\ grace' = [grace EXCEPT ![c] = IF NobodyBack THEN "checked" ELSE "done"]
  /\ UNCHANGED <<phase, clients, enabled, tray, quit, tasks, commands, undone>>

SpawnRestore(w) == restores' = restores \cup {w}
Restored(w) == w \notin restores

GraceRestores(c) ==
  /\ Running
  /\ grace[c] = "checked"
  /\ SpawnRestore(c)
  /\ grace' = [grace EXCEPT ![c] = "restoring"]
  /\ UNCHANGED <<phase, clients, enabled, tray, quit, activations, holder, called, switched,
                 micActive, commands, undone>>

GraceDone(c) ==
  /\ Running
  /\ grace[c] = "restoring"
  /\ Restored(c)
  /\ grace' = [grace EXCEPT ![c] = "done"]
  /\ UNCHANGED <<phase, clients, enabled, tray, quit, tasks, commands, undone>>

(***************************************************************************)
(* The tray's command loop, one command at a time                          *)
(***************************************************************************)
TakesCommand ==
  /\ Event
  /\ tray = "idle"
  /\ commands < MaxCommands
  /\ commands' = commands + 1

TurnOn ==
  /\ TakesCommand
  /\ enabled' = TRUE
  /\ tray' = "on"
  /\ undone' = FALSE
  /\ UNCHANGED <<phase, clients, grace, quit, tasks>>

\* Mutant of SomebodyConnected: a single client is overlooked.
SomebodyConnected_OffByOne == clients > 1

SomebodyConnected == clients > 0

ActivateIfConnected ==
  /\ Running
  /\ tray = "on"
  /\ IF SomebodyConnected THEN SpawnActivate ELSE UNCHANGED activations
  /\ tray' = "idle"
  /\ UNCHANGED <<phase, clients, enabled, grace, quit, restores, holder, called, switched,
                 micActive, commands, undone>>

\* Mutant of TurnOff: only later connects are affected.
TurnOff_NoRestore ==
  /\ TakesCommand
  /\ enabled' = FALSE
  /\ UNCHANGED <<phase, clients, grace, tray, quit, tasks, undone>>

TurnOff ==
  /\ TakesCommand
  /\ enabled' = FALSE
  /\ SpawnRestore("tray")
  /\ tray' = "off"
  /\ UNCHANGED <<phase, clients, grace, quit, activations, holder, called, switched,
                 micActive, undone>>

OffDone ==
  /\ Running
  /\ tray = "off"
  /\ Restored("tray")
  /\ tray' = "idle"
  /\ UNCHANGED <<phase, clients, enabled, grace, quit, tasks, commands, undone>>

(***************************************************************************)
(* Shutdown: Quit in the tray or Ctrl-C                                    *)
(***************************************************************************)
Quit ==
  /\ Event
  /\ quit = "no"
  /\ quit' = "asked"
  /\ UNCHANGED <<phase, clients, enabled, grace, tray, tasks, commands, undone>>

\* Mutant of QuitRestores: the process goes without restoring.
QuitRestores_Skipped ==
  /\ quit = "asked"
  /\ quit' = "draining"
  /\ UNCHANGED <<phase, clients, enabled, grace, tray, tasks, commands, undone>>

QuitRestores ==
  /\ quit = "asked"
  /\ SpawnRestore("quit")
  /\ quit' = "restoring"
  /\ UNCHANGED <<phase, clients, enabled, grace, tray, activations, holder, called, switched,
                 micActive, commands, undone>>

\* Mutant of QuitRestored: open WebSockets keep the server alive.
QuitRestored_WaitsForClients ==
  /\ quit = "restoring"
  /\ Restored("quit")
  /\ clients = 0
  /\ quit' = "draining"
  /\ UNCHANGED <<phase, clients, enabled, grace, tray, tasks, commands, undone>>

\* The tray goes, and open WebSockets get 200 ms; they keep running meanwhile.
QuitRestored ==
  /\ quit = "restoring"
  /\ Restored("quit")
  /\ quit' = "draining"
  /\ UNCHANGED <<phase, clients, enabled, grace, tray, tasks, commands, undone>>

Exit ==
  /\ quit = "draining"
  /\ quit' = "exited"
  /\ UNCHANGED <<phase, clients, enabled, grace, tray, tasks, commands, undone>>

(***************************************************************************)
(* The blocking threads                                                    *)
(***************************************************************************)
StartActivate ==
  /\ Running
  /\ holder = None
  /\ activations > 0
  /\ activations' = activations - 1
  /\ holder' = "activate"
  /\ UNCHANGED <<phase, clients, enabled, grace, tray, quit, restores, called, switched,
                 micActive, commands, undone>>

StartRestore(w) ==
  /\ Running
  /\ holder = None
  /\ w \in restores
  /\ holder' = w
  /\ UNCHANGED <<phase, clients, enabled, grace, tray, quit, activations, restores, called,
                 switched, micActive, commands, undone>>

\* m.activate() or m.restore().
CallMicSwitch ==
  /\ Running
  /\ holder # None /\ ~called
  /\ called' = TRUE
  /\ IF holder = "activate"
       THEN /\ switched' \in IF Fallible /\ ~Calm THEN {TRUE, switched} ELSE {TRUE}
            /\ undone' = (undone \/ ~switched')
       ELSE /\ switched' = FALSE
            /\ undone' = TRUE
  /\ UNCHANGED <<phase, clients, enabled, grace, tray, quit, activations, restores, holder,
                 micActive, commands>>

\* Mutant of StoredValue: mic_active is left as it was.
StoredValue_Forgotten == micActive

StoredValue == switched

\* Mutant of StoreActive: the mutex is not released.
StoreActive_KeepsMutex ==
  /\ Running
  /\ called
  /\ micActive' = switched
  /\ UNCHANGED <<phase, clients, enabled, grace, tray, quit, activations, restores, holder,
                 called, switched, commands, undone>>

\* active.store(m.is_active()), then the mutex is unlocked and the waiter woken.
StoreActive ==
  /\ Running
  /\ called
  /\ micActive' = StoredValue
  /\ restores' = restores \ {holder}
  /\ holder' = None
  /\ called' = FALSE
  /\ UNCHANGED <<phase, clients, enabled, grace, tray, quit, activations, switched,
                 commands, undone>>

Connection(c) == ActivateForClient(c)
Timer(c) == GraceEnds(c) \/ GraceRestores(c) \/ GraceDone(c)
CommandLoop == ActivateIfConnected \/ OffDone
Shutdown == QuitRestores \/ QuitRestored \/ Exit
Blocking == StartActivate \/ CallMicSwitch \/ StoreActive \/ \E w \in Waiters : StartRestore(w)
Events ==
  \/ \E c \in Conns : Open(c) \/ FirstAudio(c) \/ CloseSilent(c) \/ CloseClient(c)
  \/ TurnOn \/ TurnOff \/ Quit

Next ==
  /\ \/ Events \/ CommandLoop \/ Shutdown \/ Blocking
     \/ \E c \in Conns : Connection(c) \/ Timer(c)
  /\ UNCHANGED pace

Spec == Init /\ [][Next]_vars

\* Tokio runs every task that can run and every sleep ends; nobody has to connect or quit.
Fairness ==
  /\ WF_moving(CommandLoop) /\ WF_moving(Shutdown) /\ WF_moving(Blocking)
  /\ \A c \in Conns : WF_moving(Connection(c)) /\ WF_moving(Timer(c))

FairSpec == Spec /\ Fairness

(***************************************************************************)
(* Properties                                                              *)
(***************************************************************************)

\* The client counter is the number of connections that sent audio and are still there, so it
\* never sticks above zero and saturating_sub never saturates (app.rs:391-411).
ClientsCounted == clients = Cardinality({c \in Conns : phase[c] \in {"check", "counted"}})

\* Whenever no blocking task holds the mutex, mic_active is what MicSwitch would say
\* (app.rs:154-156): readers that never take the mutex see the truth at rest.
Mirror == holder = None => micActive = switched

\* What the status line, the toasts and the timers read is right at every moment
\* (app.rs:154-156, 391-411): the counter, mic_active, and the types.
Consistent == TypeOK /\ ClientsCounted /\ Mirror

\* A client that connects while the tray turns switching on is not missed by both: at rest, the
\* microphone is switched unless some restore ran since (app.rs:357-369, 399-400, 815-820).
NoActivationLost ==
  Running /\ ~InFlight /\ clients > 0 /\ enabled /\ ~undone => switched

\* At rest, a connected client has the microphone switched (app.rs:10-11).
ConnectedIsSwitched == Running /\ ~InFlight /\ clients > 0 /\ enabled => switched

\* No caller waits for ever: every restore that was asked for runs, and a shutdown ends.
RestoresFinish == \A w \in Waiters : (w \in restores) ~> (w \notin restores \/ ~Running)
QuitExits == (quit = "asked") ~> (quit = "exited")

\* At the calm pace SwitchControl implements what app.rs:9-11 promises; a process that quits
\* wants nothing.  At the overlapping pace nothing is claimed: the policy sees no client at all.
Policy == INSTANCE MicPolicy WITH
  clients <- IF Calm THEN clients ELSE 0,
  on <- Calm /\ enabled /\ quit = "no",
  switched <- Calm /\ switched,
  MaxClients <- Cardinality(Conns)
ImplementsPolicy == Policy!Spec
=============================================================================
