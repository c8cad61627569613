------------------------------ MODULE Reporting ------------------------------
(***************************************************************************)
(* What the user and the log get to know of the connections: the task that *)
(* derives the tray status from the counters once a second, and the task   *)
(* that logs the counters every five seconds (src/src/app.rs), with the    *)
(* tray thread and the log file they feed.  A process opens its log before *)
(* it starts its tray; it has no tray with --no-tray, and no log file when *)
(* it was started from a console.  When it ends, the next one starts with  *)
(* the files it left.                                                      *)
(***************************************************************************)
EXTENDS RotatingLog, Tray

CONSTANTS
  None,        \* no counters read yet
  Outputs      \* what a process may have: sets of "log" and "tray"

ASSUME ReportingConstants ==
  /\ States = {"idle", "connected", "trouble"}
  /\ Outputs \subseteq SUBSET {"log", "tray"}
  /\ None \notin Nat

\* Clients that come or go, losses and new sessions are events of the same bound as the faults of
\* the file system, MaxFaults.
Counts == 0..MaxFaults

VARIABLES
  outputs,      \* never changes: what the processes of this behaviour have
  running,      \* the process: "no", "starting", "serving", "quitting"
  clients,      \* AppState.clients, 0 or 1
  counts,       \* underruns and lost packets together
  changed,      \* some counter changed since stats_log_loop looked last; "first": it never did
  lastCounts,   \* tray_status_loop: last_counts
  seen,         \* tray_status_loop: the counters it has just read, or None between two ticks
  trouble,      \* AppState.last_trouble is less than a minute ago
  lossSince,    \* ghost: "new": something was lost that the status loop has not read yet;
                \* "read": something was lost that it has read and not yet compared
  rewound       \* ghost: the counters went back, in the same way

counters == <<clients, counts>>
loops == <<changed, lastCounts, seen, trouble>>
ghost == <<lossSince, rewound>>
vars == <<outputs, running, logVars, trayVars, counters, loops, ghost>>

TypeOK ==
  /\ outputs \in Outputs /\ running \in {"no", "starting", "serving", "quitting"}
  /\ LogTypeOK /\ TrayTypeOK
  /\ clients \in 0..1 /\ counts \in Counts
  /\ changed \in {"first", "yes", "no"}
  /\ {lastCounts, seen} \subseteq Counts \cup {None}
  /\ trouble \in BOOLEAN
  /\ {lossSince, rewound} \subseteq SUBSET {"new", "read"}

LoopsInit ==
  /\ clients = 0 /\ counts = 0
  /\ changed = "first" /\ lastCounts = None /\ seen = None /\ trouble = FALSE
  /\ lossSince = {} /\ rewound = {}

Init == outputs \in Outputs /\ running = "no" /\ LogInit /\ TrayInit /\ LoopsInit

(***************************************************************************)
(* The process: main(), as far as the log and the tray are concerned       *)
(***************************************************************************)
Start ==
  /\ running = "no" /\ running' = "starting"
  /\ IF "log" \in outputs THEN OpenLog ELSE UNCHANGED logVars
  /\ UNCHANGED <<outputs, trayVars, counters, loops, ghost>>

LogIsSetUp == "log" \notin outputs \/ step = "ready"

StartTray ==
  /\ running = "starting" /\ LogIsSetUp /\ "tray" \in outputs
  /\ TrayStart
  /\ UNCHANGED <<outputs, running, logVars, counters, loops, ghost>>

\* tray::start has returned, with a handle or with an error.
Serve ==
  /\ running = "starting" /\ LogIsSetUp
  /\ "tray" \in outputs => thread \notin {"none", "starting"}
  /\ running' = "serving"
  /\ UNCHANGED <<outputs, logVars, trayVars, counters, loops, ghost>>

\* The microphone is restored; the tray goes (SwitchControl.tla has what comes before).
QuitServing ==
  /\ running = "serving" /\ running' = "quitting"
  /\ IF HasHandle THEN TrayShutdown ELSE UNCHANGED trayVars
  /\ UNCHANGED <<outputs, logVars, counters, loops, ghost>>

\* exit(0) after a shutdown, or killed at any step.  Threads and channels are gone.
ProcessEnds ==
  /\ running # "no" /\ running' = "no"
  /\ IF running = "quitting" THEN NoFault ELSE Fault
  /\ LogCloses
  /\ thread' = "none" /\ icon' = Unset /\ last' = Unset /\ queue' = <<>> /\ wakes' = 0
  /\ setting' = 0 /\ closing' = 0
  /\ clients' = 0 /\ counts' = 0
  /\ changed' = "first" /\ lastCounts' = None /\ seen' = None /\ trouble' = FALSE
  /\ lossSince' = {} /\ rewound' = {}
  /\ UNCHANGED outputs

(***************************************************************************)
(* The connections                                                         *)
(***************************************************************************)
Change ==
  /\ running = "serving"
  /\ Fault
  /\ changed' = IF changed = "first" THEN changed ELSE "yes"
  /\ UNCHANGED <<outputs, running, disk, handle, step, line, blind, kept, trayVars>>
  /\ UNCHANGED <<lastCounts, seen, trouble>>

ClientComes ==
  /\ clients = 0 /\ clients' = 1
  /\ Change
  /\ UNCHANGED <<counts, ghost>>

ClientGoes ==
  /\ clients = 1 /\ clients' = 0
  /\ Change
  /\ UNCHANGED <<counts, ghost>>

\* An underrun, or lost packets.
Loss ==
  /\ clients = 1
  /\ Change
  /\ counts' = counts + 1
  /\ lossSince' = lossSince \cup {"new"}
  /\ UNCHANGED <<clients, rewound>>

\* A new WebRTC session sets its counters to 0, and a source that ends takes its last underrun
\* back.
CountersGoBack ==
  /\ clients = 1 /\ counts > 0
  /\ Change
  /\ counts' = 0
  /\ rewound' = rewound \cup {"new"}
  /\ UNCHANGED <<clients, lossSince>>

(***************************************************************************)
(* tray_status_loop                                                        *)
(***************************************************************************)
Aged(since) == IF "new" \in since THEN {"read"} ELSE since

\* buffer.stats() and rtc_stats.
ReadCounters ==
  /\ running \in {"serving", "quitting"} /\ HasHandle
  /\ seen = None /\ setting = 0
  /\ seen' = counts
  /\ lossSince' = Aged(lossSince) /\ rewound' = Aged(rewound)
  /\ UNCHANGED <<outputs, running, logVars, trayVars, counters, changed, lastCounts, trouble>>

\* Mutant of Noticed: the counters are stored before they are compared.
Noticed_StoredFirst == seen # seen /\ clients > 0

\* Something was lost or ran dry since the previous tick, and somebody is connected.
Noticed == lastCounts # None /\ seen # lastCounts /\ clients > 0

Status(troubled) ==
  IF clients = 0 THEN "idle" ELSE IF troubled THEN "trouble" ELSE "connected"

\* Mutant of NewStatus: it is derived anew only when the counters have changed.
NewStatus_OnChange == IF seen = lastCounts THEN last ELSE Status(trouble \/ Noticed)

NewStatus == Status(trouble \/ Noticed)

ReportStatus ==
  /\ seen # None
  /\ SetState(NewStatus)
  /\ trouble' = (trouble \/ Noticed)
  /\ lastCounts' = seen
  /\ seen' = None
  /\ lossSince' = lossSince \ {"read"} /\ rewound' = rewound \ {"read"}
  /\ UNCHANGED <<outputs, running, logVars, counters, changed>>

TroubleAges ==
  /\ trouble /\ trouble' = FALSE
  /\ UNCHANGED <<outputs, running, logVars, trayVars, counters, changed, lastCounts, seen, ghost>>

(***************************************************************************)
(* stats_log_loop                                                          *)
(***************************************************************************)
\* A tick that changes nothing and logs nothing is a stuttering step.  Lines of other parts of the
\* program are written in the same way.
StatsTick ==
  /\ running \in {"serving", "quitting"} /\ LogIsSetUp
  /\ IF clients = 0 /\ changed # "yes"
       THEN changed = "first" /\ UNCHANGED logVars
       ELSE IF "log" \in outputs THEN \E n \in LineSizes : WriteLine(n) ELSE UNCHANGED logVars
  /\ changed' = "no"
  /\ UNCHANGED <<outputs, running, trayVars, counters, lastCounts, seen, trouble, ghost>>

OthersSame == UNCHANGED <<outputs, running, trayVars, counters, loops, ghost>>
LogSteps == WriterSteps /\ OthersSame
MinutePasses == RetryPasses /\ OthersSame
LogIsReleased == OtherLetsGo /\ OthersSame
LogIsHeld == OtherTakesLog /\ OthersSame

TraySteps ==
  /\ TrayThread \/ Update \/ CloseTray
  /\ UNCHANGED <<outputs, running, logVars, counters, loops, ghost>>
StatusLoop == ReadCounters \/ ReportStatus
Connections == ClientComes \/ ClientGoes \/ Loss \/ CountersGoBack

Next ==
  \/ Start \/ StartTray \/ Serve \/ QuitServing \/ ProcessEnds
  \/ Connections \/ StatusLoop \/ TroubleAges \/ StatsTick
  \/ LogSteps \/ MinutePasses \/ LogIsReleased \/ LogIsHeld \/ TraySteps

Spec == Init /\ [][Next]_vars

\* Tokio runs its tasks, Windows runs the threads, and minutes pass; another program that holds
\* the log lets go of it.  Nobody has to start, connect or quit.
Fairness ==
  /\ WF_vars(StartTray \/ Serve) /\ WF_vars(StatusLoop) /\ WF_vars(StatsTick)
  /\ WF_vars(LogSteps) /\ WF_vars(MinutePasses) /\ WF_vars(LogIsReleased)
  /\ WF_vars(TroubleAges) /\ WF_vars(TraySteps)

FairSpec == Spec /\ Fairness

(***************************************************************************)
(* Properties                                                              *)
(***************************************************************************)

\* However the file system fails, the log stays within its bound, and however updates, wake-ups and
\* the tray thread interleave, that thread never sleeps over an update (logfile.rs:38-40,
\* tray.rs:50, 57-58).
Sound == TypeOK /\ LogBounded /\ NoLostUpdate

\* A log that is full because it could not be rotated takes lines again once it can be: it is
\* not full for ever while there is something to log, unless the file was lost (logfile.rs:38-40).
Lost == step \in {"ready", "append"} /\ ~open
LogResumes == []<>("log" \notin outputs \/ running # "serving" \/ clients = 0
                   \/ Lost \/ ~Full(Longest))

\* A loss or an underrun turns the icon yellow at the next tick if somebody is connected, and
\* nothing but that or counters that went back does (tray.rs:7-8, app.rs:166).
TroubleIsReal ==
  [][ReportStatus /\ clients > 0 /\ lastCounts # None =>
       /\ "read" \in lossSince \ rewound => trouble'
       /\ ~trouble /\ trouble' => "read" \in lossSince \cup rewound]_vars

\* The icon says in the end what the counters say, however updates, wake-ups and the thread
\* interleave (tray.rs:50, app.rs:716).
IconFollows ==
  \A s \in States :
    <>[](running = "serving" /\ HasHandle /\ Status(trouble) = s) => <>[](icon = s)
=============================================================================
