------------------------------ MODULE Lifecycle ------------------------------
(***************************************************************************)
(* The processes of CouchMic: how they start, what they find, how they end *)
(* and what starts them again.  main() and the tray command Quit           *)
(* (src/src/app.rs) with the scheduled task that install.ps1 registers: it *)
(* runs the installed program at logon and every few minutes after that    *)
(* (--watchdog).  A start by hand and the one-shot --restore-mic use the   *)
(* same port, log, lock and registry key.  The microphone is reduced to    *)
(* what one step of MicSwitch.tla does to it.                              *)
(***************************************************************************)
EXTENDS Naturals, Sequences, FiniteSets

CONSTANTS
  MaxActs,     \* BOUND: what the user does: quits, starts by hand, installs, uninstalls, signs out
  MaxFaults    \* BOUND: kills, and failures of any call

ASSUME LifecycleConstants == MaxActs \in Nat /\ MaxFaults \in Nat

\* The instance of the scheduled task (MultipleInstances IgnoreNew: one), one started by hand,
\* and couchmic --restore-mic, which the uninstaller runs.
Servers == {"task", "manual"}
Procs == Servers \cup {"oneshot"}

VARIABLES
  pc,         \* per process: "none", "begin", a step of StartOrder, "serving", "restoring",
              \* "draining"
  switch,     \* per process: its MicSwitch: "none" yet, "have", "failed"
  port,       \* who listens: "free", a process, or "other"
  lock,       \* previous-mic.lock: "free" or a process
  logs,       \* processes that have couchmic.log open
  mic,        \* default microphone: "user" or "cable"
  record,     \* previous-mic.txt exists
  marker,     \* the volatile registry key StoppedByUser exists
  task,       \* scheduled task: "none", "disabled", "enabled"
  signedOn,   \* the user is signed on
  script,     \* install.ps1: "idle", or the steps that are left of it and how it runs
  exe,        \* couchmic.exe is installed
  acts, faults,
  stopped,    \* ghost: the user's last word was Quit, and it could be written down
  abandoned,  \* ghost: install.ps1 was killed, or gave up an uninstall, and left things half done
  lostRecord, \* ghost: --restore-mic failed and the uninstaller went on
  stuck       \* ghost: the marker is still there because it could not be deleted

procVars == <<pc, switch, port, lock, logs>>
micVars == <<mic, record>>
ghost == <<stopped, abandoned, lostRecord, stuck>>
vars == <<procVars, micVars, marker, task, signedOn, script, exe, acts, faults, ghost>>

\* Mutant of StartOrder: the log is opened before the port is taken.
StartOrder_LogFirst == <<"mark", "log", "bind", "recover", "output">>

\* Mutant of StartOrder: the output is opened before the microphone is recovered.
StartOrder_OutputFirst == <<"mark", "bind", "log", "output", "recover">>

\* What main() does before it serves, in this order: the stop marker, the port, the log, the
\* microphone, the audio output.
StartOrder == <<"mark", "bind", "log", "recover", "output">>

StartSteps == {StartOrder[i] : i \in DOMAIN StartOrder}
After(s) ==
  LET i == CHOOSE k \in DOMAIN StartOrder : StartOrder[k] = s
  IN IF i = Len(StartOrder) THEN "serving" ELSE StartOrder[i + 1]

Quitting == {"restoring", "draining"}
Running(p) == pc[p] # "none"
Serving == \E p \in Servers : pc[p] = "serving"

\* Mutant of UninstallOrder: the microphone is restored while CouchMic still runs.
UninstallOrder_RestoreFirst ==
  <<"disable", "restore", "restored", "endTask", "unregister", "stopAll", "forget", "delete">>

\* install.ps1 -Uninstall.
UninstallOrder ==
  <<"disable", "endTask", "unregister", "stopAll", "restore", "restored", "forget", "delete">>

\* install.ps1 from the point where it changes the task.
InstallOrder == <<"disable", "stopAll", "copy", "register", "unmark", "start", "answer">>

Idle == [left |-> <<>>, uninstalls |-> FALSE, reenables |-> FALSE]
Scripts ==
  [left : {SubSeq(InstallOrder, i, 7) : i \in 1..8} \cup {SubSeq(UninstallOrder, i, 8) : i \in 1..9},
   uninstalls : BOOLEAN, reenables : BOOLEAN]

TypeOK ==
  /\ pc \in [Procs -> {"none", "begin", "serving"} \cup StartSteps \cup Quitting]
  /\ switch \in [Procs -> {"none", "have", "failed"}]
  /\ port \in Servers \cup {"free", "other"} /\ lock \in Procs \cup {"free"}
  /\ logs \subseteq Servers
  /\ mic \in {"user", "cable"}
  /\ task \in {"none", "disabled", "enabled"}
  /\ {record, marker, signedOn, exe, stopped, abandoned, lostRecord, stuck} \subseteq BOOLEAN
  /\ script \in Scripts
  /\ acts \in 0..MaxActs /\ faults \in 0..MaxFaults

\* Nothing is installed, or CouchMic is and the user signs on.
Init ==
  /\ pc = [p \in Procs |-> "none"] /\ switch = [p \in Procs |-> "none"]
  /\ port = "free" /\ lock = "free" /\ logs = {}
  /\ mic = "user" /\ record = FALSE /\ marker = FALSE
  /\ \/ task = "none" /\ exe = FALSE
     \/ task = "enabled" /\ exe = TRUE
  /\ signedOn = TRUE /\ script = Idle
  /\ acts = MaxActs /\ faults = MaxFaults
  /\ stopped = FALSE /\ abandoned = FALSE /\ lostRecord = FALSE /\ stuck = FALSE

Act == acts > 0 /\ acts' = acts - 1 /\ UNCHANGED faults
Fault == faults > 0 /\ faults' = faults - 1 /\ UNCHANGED acts
Normal == UNCHANGED <<acts, faults>>

(***************************************************************************)
(* The end of processes: what Windows takes back                           *)
(***************************************************************************)
End(ps) ==
  /\ pc' = [p \in Procs |-> IF p \in ps THEN "none" ELSE pc[p]]
  /\ switch' = [p \in Procs |-> IF p \in ps THEN "none" ELSE switch[p]]
  /\ port' = IF port \in ps THEN "free" ELSE port
  /\ lock' = IF lock \in ps THEN "free" ELSE lock
  /\ logs' = logs \ ps

\* ASSUMPTION: the 200 ms of a shutdown (and the restoring before it) outlast the step of another
\* process from reading the stop marker to binding the port, two statements of main().
Outlasts(p) == pc[p] \in Quitting => \A q \in Servers : pc[q] # "bind"

Kill(p) ==
  /\ Running(p) /\ Outlasts(p)
  /\ Fault /\ End({p})
  /\ lostRecord' = (lostRecord \/ p = "oneshot")
  /\ UNCHANGED <<micVars, marker, task, signedOn, script, exe, stopped, abandoned, stuck>>

(***************************************************************************)
(* main()                                                                  *)
(***************************************************************************)
Launch(p) ==
  /\ pc[p] = "none" /\ exe /\ signedOn
  /\ pc' = [pc EXCEPT ![p] = "begin"]
  /\ UNCHANGED <<switch, port, lock, logs>>

\* The task's trigger: at logon, and every five minutes after that; a task that failed is also
\* started again within a minute.
Watchdog ==
  /\ task = "enabled" /\ Launch("task")
  /\ Normal
  /\ UNCHANGED <<micVars, marker, task, signedOn, script, exe, ghost>>

\* A double click.  ASSUMPTION: not while install.ps1 runs.
ManualStart ==
  /\ Launch("manual") /\ script = Idle
  /\ Act
  /\ UNCHANGED <<micVars, marker, task, signedOn, script, exe, ghost>>

Goes(p) == pc' = [pc EXCEPT ![p] = After(pc[p])]
StaysSame == UNCHANGED <<task, signedOn, script, exe, ghost>>

Begin(p) ==
  /\ pc[p] = "begin" /\ p \in Servers
  /\ pc' = [pc EXCEPT ![p] = StartOrder[1]]
  /\ Normal /\ StaysSame
  /\ UNCHANGED <<switch, port, lock, logs, micVars, marker>>

\* Mutant of StaysAway: the watchdog starts CouchMic whatever the user said.
StaysAway_Never(p) == FALSE

\* The watchdog must not bring CouchMic back after Quit.
StaysAway(p) == p = "task" /\ marker

\* Mutant of Clears: only the installer clears the marker.
Clears_Never(p) == FALSE

\* A start by hand does.
Clears(p) == p = "manual"

\* Deleting the registry key: neither the program nor the script looks at an error.
DeletesMarker ==
  \/ marker' = FALSE /\ stuck' = FALSE /\ Normal
  \/ marker /\ Fault /\ stuck' = TRUE /\ UNCHANGED marker

\* A start by hand that gets here is the user's last word.
CheckMarker(p) ==
  /\ pc[p] = "mark"
  /\ stopped' = (stopped /\ p # "manual")
  /\ IF Clears(p) THEN DeletesMarker ELSE UNCHANGED <<marker, stuck>> /\ Normal
  /\ IF StaysAway(p) THEN End({p}) ELSE Goes(p) /\ UNCHANGED <<switch, port, lock, logs>>
  /\ UNCHANGED <<micVars, task, signedOn, script, exe, abandoned, lostRecord>>

\* exit(4) when the port is taken.
Bind(p) ==
  /\ pc[p] = "bind"
  /\ IF port = "free" THEN port' = p /\ Goes(p) /\ UNCHANGED <<switch, lock, logs>> ELSE End({p})
  /\ Normal /\ StaysSame
  /\ UNCHANGED <<micVars, marker>>

OpensLog(p) ==
  /\ pc[p] = "log"
  /\ logs' = logs \cup {p} /\ Goes(p)
  /\ Normal /\ StaysSame
  /\ UNCHANGED <<switch, port, lock, micVars, marker>>

\* MicSwitch::new: takes the lock and restores what an earlier process left, or fails.
NewSwitch(p) ==
  \/ /\ lock = "free" /\ Normal
     /\ lock' = p /\ switch' = [switch EXCEPT ![p] = "have"]
     /\ mic' = (IF record THEN "user" ELSE mic) /\ record' = FALSE
  \/ /\ \/ lock # "free" /\ Normal
        \/ lock = "free" /\ Fault
     /\ switch' = [switch EXCEPT ![p] = "failed"]
     /\ UNCHANGED <<lock, micVars>>

Recover(p) ==
  /\ pc[p] = "recover"
  /\ NewSwitch(p) /\ Goes(p)
  /\ StaysSame
  /\ UNCHANGED <<port, logs, marker>>

\* pick_device and start_output: exit(2) or exit(3) when there is no output.
OpenOutput(p) ==
  /\ pc[p] = "output"
  /\ \/ Normal /\ Goes(p) /\ UNCHANGED <<switch, port, lock, logs>>
     \/ Fault /\ End({p})
  /\ StaysSame
  /\ UNCHANGED <<micVars, marker>>

StartStep(p) ==
  \/ Begin(p) \/ CheckMarker(p) \/ Bind(p) \/ OpensLog(p) \/ Recover(p) \/ OpenOutput(p)

\* A client comes: the microphone is switched.
Activate(p) ==
  /\ pc[p] = "serving" /\ switch[p] = "have" /\ mic = "user"
  /\ mic' = "cable" /\ record' = TRUE
  /\ Normal /\ StaysSame
  /\ UNCHANGED <<procVars, marker>>

GivesBack(p) ==
  IF switch[p] = "have" /\ record THEN mic' = "user" /\ record' = FALSE ELSE UNCHANGED micVars

\* The last client has left.
Restore(p) ==
  /\ pc[p] = "serving" /\ switch[p] = "have" /\ record
  /\ GivesBack(p)
  /\ Normal /\ StaysSame
  /\ UNCHANGED <<procVars, marker>>

\* set_stopped_by_user(true): the key, or its parent, may not be writable.
WritesMarker ==
  \/ Act /\ marker' = TRUE /\ stopped' = TRUE /\ stuck' = FALSE
  \/ Fault /\ UNCHANGED <<marker, stopped, stuck>>

\* command_loop: Quit in the tray menu; CouchMic quits whether or not the marker could be written.
\* ASSUMPTION: not in the milliseconds in which a start by hand is on its way to its port.
TrayQuit(p) ==
  /\ pc[p] = "serving"
  /\ pc["manual"] \notin {"begin", "mark", "bind"}
  /\ pc' = [pc EXCEPT ![p] = "restoring"]
  /\ WritesMarker
  /\ UNCHANGED <<switch, port, lock, logs, micVars, task, signedOn, script, exe>>
  /\ UNCHANGED <<abandoned, lostRecord>>

\* Ctrl+C in the console of a start by hand.
Interrupt ==
  /\ pc["manual"] = "serving" /\ Act
  /\ pc' = [pc EXCEPT !["manual"] = "restoring"]
  /\ StaysSame
  /\ UNCHANGED <<switch, port, lock, logs, micVars, marker>>

ShutdownRestores(p) ==
  /\ pc[p] = "restoring"
  /\ GivesBack(p)
  /\ pc' = [pc EXCEPT ![p] = "draining"]
  /\ Normal /\ StaysSame
  /\ UNCHANGED <<switch, port, lock, logs, marker>>

\* exit(0) after 200 ms.
Exit(p) ==
  /\ pc[p] = "draining" /\ Outlasts(p)
  /\ End({p})
  /\ Normal /\ StaysSame
  /\ UNCHANGED <<micVars, marker>>

Shutdown(p) == ShutdownRestores(p) \/ Exit(p)

\* The server ends without a signal: exit(1), and nothing is restored.
ServeEnds(p) ==
  /\ pc[p] = "serving" /\ Fault
  /\ End({p})
  /\ StaysSame
  /\ UNCHANGED <<micVars, marker>>

\* couchmic --restore-mic: "nothing to restore", restored, left to the running instance, or
\* exit(5).  It opens neither log nor port.
RestoreMic ==
  /\ pc["oneshot"] = "begin"
  /\ \/ /\ lock = "free" /\ Normal
        /\ mic' = (IF record THEN "user" ELSE mic) /\ record' = FALSE
        /\ UNCHANGED lostRecord
     \/ lock # "free" /\ Normal /\ UNCHANGED <<micVars, lostRecord>>
     \/ lock = "free" /\ Fault /\ lostRecord' = TRUE /\ UNCHANGED micVars
  /\ pc' = [pc EXCEPT !["oneshot"] = "none"]
  /\ UNCHANGED <<switch, port, lock, logs, marker, task, signedOn, script, exe>>
  /\ UNCHANGED <<stopped, abandoned, stuck>>

(***************************************************************************)
(* The system around it                                                    *)
(***************************************************************************)
OtherTakesPort ==
  /\ port = "free" /\ port' = "other" /\ Fault
  /\ StaysSame
  /\ UNCHANGED <<pc, switch, lock, logs, micVars, marker>>

OtherLeavesPort ==
  /\ port = "other" /\ port' = "free" /\ Normal
  /\ StaysSame
  /\ UNCHANGED <<pc, switch, lock, logs, micVars, marker>>

\* Signing out ends every process and unloads the volatile key.
SignOut ==
  /\ signedOn /\ signedOn' = FALSE /\ Act
  /\ End(Procs)
  /\ marker' = FALSE /\ stopped' = FALSE /\ stuck' = FALSE
  /\ script' = Idle /\ abandoned' = (abandoned \/ script # Idle)
  /\ UNCHANGED <<micVars, task, exe, lostRecord>>

SignOn ==
  /\ ~signedOn /\ signedOn' = TRUE /\ Normal
  /\ UNCHANGED <<procVars, micVars, marker, task, script, exe, ghost>>

(***************************************************************************)
(* install.ps1                                                             *)
(***************************************************************************)
RunScript(steps, uninstalls) ==
  /\ script = Idle /\ signedOn /\ Act
  /\ script' = [left |-> steps, uninstalls |-> uninstalls, reenables |-> FALSE]
  /\ UNCHANGED <<procVars, micVars, marker, task, signedOn, exe, ghost>>

Install == RunScript(InstallOrder, FALSE)
Uninstall == exe /\ RunScript(UninstallOrder, TRUE)

Does(s) == script.left # <<>> /\ Head(script.left) = s
NextOf == [script EXCEPT !.left = Tail(@)]
Advance == script' = (IF Len(script.left) = 1 THEN Idle ELSE NextOf)
ScriptSame == UNCHANGED <<micVars, signedOn, lostRecord, stuck>> /\ Normal

DisableTask ==
  /\ Does("disable")
  /\ task' = (IF task = "none" THEN task ELSE "disabled")
  /\ script' = [NextOf EXCEPT !.reenables = task # "none"]
  /\ ScriptSame /\ UNCHANGED <<procVars, marker, exe, stopped, abandoned>>

EndTask ==
  /\ Does("endTask") /\ Advance
  /\ End({"task"})
  /\ ScriptSame /\ UNCHANGED <<marker, task, exe, stopped, abandoned>>

Unregister ==
  /\ Does("unregister") /\ Advance
  /\ task' = "none"
  /\ ScriptSame /\ UNCHANGED <<procVars, marker, exe, stopped, abandoned>>

\* Stop-CouchMic: every process of the installed program.
StopCouchMic ==
  /\ Does("stopAll") /\ Advance
  /\ End(Servers)
  /\ ScriptSame /\ UNCHANGED <<marker, task, exe, stopped, abandoned>>

StartRestoreMic ==
  /\ Does("restore") /\ Advance
  /\ pc' = [pc EXCEPT !["oneshot"] = "begin"]
  /\ ScriptSame /\ UNCHANGED <<switch, port, lock, logs, marker, task, exe, stopped, abandoned>>

\* The uninstaller waits for it and does not look at its exit code.
RestoreMicEnded ==
  /\ Does("restored") /\ Advance
  /\ ~Running("oneshot")
  /\ ScriptSame /\ UNCHANGED <<procVars, marker, task, exe, stopped, abandoned>>

\* The registry key and the files in the data folder, the record of the microphone among them.
Forget ==
  /\ Does("forget") /\ Advance
  /\ DeletesMarker
  /\ record' = FALSE /\ stopped' = FALSE
  /\ UNCHANGED <<procVars, mic, signedOn, task, exe, abandoned, lostRecord>>

DeleteExe ==
  /\ Does("delete") /\ Advance
  /\ exe' = FALSE
  /\ ScriptSame /\ UNCHANGED <<procVars, marker, task, stopped, abandoned>>

CopyExe ==
  /\ Does("copy") /\ Advance
  /\ exe' = TRUE
  /\ ScriptSame /\ UNCHANGED <<procVars, marker, task, stopped, abandoned>>

Register ==
  /\ Does("register") /\ Advance
  /\ task' = "enabled"
  /\ ScriptSame /\ UNCHANGED <<procVars, marker, exe, stopped, abandoned>>

\* A tray "Quit" earlier in this session would keep the watchdog start from running.
Unmark ==
  /\ Does("unmark") /\ Advance
  /\ DeletesMarker
  /\ stopped' = FALSE
  /\ UNCHANGED <<procVars, micVars, task, signedOn, exe, abandoned, lostRecord>>

\* Start-ScheduledTask; ignored when the task runs already.
StartTask ==
  IF exe /\ ~Running("task")
    THEN pc' = [pc EXCEPT !["task"] = "begin"] /\ UNCHANGED <<switch, port, lock, logs>>
    ELSE UNCHANGED procVars

StartInstalled ==
  /\ Does("start") /\ Advance
  /\ StartTask
  /\ ScriptSame /\ UNCHANGED <<marker, task, exe, stopped, abandoned>>

Answered ==
  /\ Does("answer") /\ Advance
  /\ Serving
  /\ abandoned' = FALSE
  /\ ScriptSame /\ UNCHANGED <<procVars, marker, task, exe, stopped>>

\* Mutant of Reenables: the finally block is missing.
Reenables_Never == FALSE

\* The finally block: the task was disabled, is still there, and the script did not succeed.
Reenables == script.reenables /\ task # "none"

\* A step of the installer throws, or the new program does not answer within ten seconds.
InstallFails ==
  /\ script # Idle /\ ~script.uninstalls
  /\ ~Does("disable")
  /\ IF Does("answer") /\ ~Serving THEN Normal ELSE Fault
  /\ script' = Idle
  /\ IF Reenables
       THEN task' = "enabled" /\ StartTask
       ELSE UNCHANGED <<task, procVars>>
  /\ UNCHANGED <<micVars, marker, signedOn, exe, ghost>>

\* A step of the uninstaller throws, or the script is killed.
ScriptBreaks ==
  /\ script # Idle /\ Fault
  /\ script' = Idle /\ abandoned' = TRUE
  /\ UNCHANGED <<procVars, micVars, marker, task, signedOn, exe, stopped, lostRecord, stuck>>

InstallStep ==
  \/ DisableTask \/ StopCouchMic \/ CopyExe \/ Register \/ Unmark \/ StartInstalled \/ Answered
UninstallStep ==
  \/ EndTask \/ Unregister \/ StartRestoreMic \/ RestoreMicEnded \/ Forget \/ DeleteExe
ScriptStep == InstallStep \/ UninstallStep

Next ==
  \/ Watchdog \/ ManualStart \/ Interrupt \/ RestoreMic
  \/ \E p \in Servers :
       StartStep(p) \/ Activate(p) \/ Restore(p) \/ TrayQuit(p) \/ Shutdown(p) \/ ServeEnds(p)
  \/ \E p \in Procs : Kill(p)
  \/ OtherTakesPort \/ OtherLeavesPort \/ SignOut \/ SignOn
  \/ Install \/ Uninstall \/ ScriptStep \/ InstallFails \/ ScriptBreaks

Spec == Init /\ [][Next]_vars

\* Windows runs the processes and the task's triggers, the script runs on, and another program
\* gives the port back.  Strong for a shutdown: minutes lie between two starts by the task, of
\* which only an instant keeps Outlasts false.  Nobody has to start, quit, install or sign on.
Fairness ==
  /\ WF_vars(Watchdog)
  /\ \A p \in Servers : WF_vars(StartStep(p)) /\ SF_vars(Shutdown(p))
  /\ WF_vars(RestoreMic) /\ WF_vars(OtherLeavesPort)
  /\ WF_vars(ScriptStep \/ InstallFails)

FairSpec == Spec /\ Fairness

(***************************************************************************)
(* Properties                                                              *)
(***************************************************************************)

\* However starts by hand, by the task and by the uninstaller meet, only the process that holds
\* the port has the log open, and only that one or a one-shot the microphone (app.rs:1076-1078).
OneInstance ==
  /\ TypeOK
  /\ logs \subseteq {port}
  /\ \A p \in Servers : switch[p] = "have" => port = p /\ lock = p

\* A Quit that could be written down lasts until the user signs out, starts CouchMic or installs
\* it: no other process gets through to the microphone (app.rs:1064-1067, README.md:79).
StopWins ==
  stopped =>
    /\ marker
    /\ \A p \in Servers :
         \/ pc[p] \in {"none", "begin", "mark"} \cup Quitting
         \/ pc[p] = "bind" /\ port \in Servers \ {p} /\ pc[port] \in Quitting

\* A process that gives up because there is no output has given the microphone of an earlier
\* one back, unless it could not have the microphone at all or an uninstall after a failed
\* --restore-mic has deleted the record (app.rs:1085-1087).
RecoveredFirst ==
  [][\A p \in Servers :
       OpenOutput(p) /\ pc'[p] = "none" => mic = "user" \/ switch[p] = "failed" \/ lostRecord]_vars

\* The microphone is never left on CABLE Output without the record that says what it was before,
\* in particular not by an uninstall, unless --restore-mic failed (install.ps1:225-229).
NothingForgotten == mic = "cable" => record \/ lostRecord

\* As long as the user is signed on, has CouchMic installed and has not quit it, CouchMic runs
\* again and again, whatever was killed or failed before, the installer's steps included, unless
\* the marker of an earlier Quit cannot be deleted (README.md:141, install.ps1:447-451).
ServedAgain ==
  []<>(Serving \/ stopped \/ ~signedOn \/ task = "none" \/ ~exe \/ abandoned \/ stuck)
=============================================================================
