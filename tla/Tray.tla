--------------------------------- MODULE Tray ---------------------------------
(***************************************************************************)
(* The tray icon (src/src/tray.rs).  It lives in a thread of its own with  *)
(* a Win32 message loop.  A change of the status goes into a channel, and  *)
(* a posted WM_APP message wakes the loop, which then empties the channel. *)
(* The status that was set last is remembered, so that only changes wake   *)
(* the thread.                                                             *)
(***************************************************************************)
EXTENDS Naturals, Sequences

CONSTANTS
  States,    \* TrayState and tooltip: what the icon can say
  Unset,     \* no status set yet; the icon of a new tray says "waiting"
  Quit       \* the update that ends the thread

ASSUME TrayConstants == {Unset, Quit} \cap States = {} /\ Unset # Quit

VARIABLES
  thread,    \* the tray thread: "none", "starting", "waiting" in GetMessageW, "draining", "gone"
  icon,      \* what the icon says
  last,      \* TrayHandle.last
  queue,     \* the channel of updates
  wakes,     \* WM_APP messages in the queue of the thread
  setting,   \* steps of a running set_state, which holds the lock of `last`; 0: none runs
  closing    \* steps of shutdown()

trayVars == <<thread, icon, last, queue, wakes, setting, closing>>

\* BOUND: updates under way; the status is set once a second and the thread needs milliseconds.
MaxUpdates == 2

\* Mutant of HandOver: the thread is woken before there is anything to take.
HandOver_WakesFirst == <<"wake", "send">>

\* How an update gets to the thread.
HandOver == <<"send", "wake">>

TrayTypeOK ==
  /\ thread \in {"none", "starting", "waiting", "draining", "gone"}
  /\ {icon, last} \subseteq States \cup {Unset}
  /\ queue \in Seq(States \cup {Quit}) /\ Len(queue) <= MaxUpdates + 2
  /\ wakes \in 0..MaxUpdates + 1
  /\ {setting, closing} \subseteq 0..3

TrayInit ==
  /\ thread = "none" /\ icon = Unset /\ last = Unset
  /\ queue = <<>> /\ wakes = 0 /\ setting = 0 /\ closing = 0

(***************************************************************************)
(* start(): the caller waits until the thread has its icon or has failed   *)
(***************************************************************************)
TrayStart ==
  /\ thread = "none"
  /\ thread' = "starting"
  /\ UNCHANGED <<icon, last, queue, wakes, setting, closing>>

TrayReady ==
  /\ thread = "starting"
  /\ thread' \in {"waiting", "gone"}
  /\ UNCHANGED <<icon, last, queue, wakes, setting, closing>>

\* start() has returned a handle.
HasHandle == thread \in {"waiting", "draining"} \/ closing > 0

(***************************************************************************)
(* TrayHandle::set_state, shutdown, wake                                   *)
(***************************************************************************)
\* One step of the hand-over of update u.  Nothing reaches a thread that has ended.
Deliver(i, u) ==
  IF thread = "gone" THEN UNCHANGED <<queue, wakes>>
  ELSE IF HandOver[i] = "send" THEN queue' = Append(queue, u) /\ UNCHANGED wakes
  ELSE wakes' = wakes + 1 /\ UNCHANGED queue

\* Only a change goes to the thread.
SetState(s) ==
  /\ setting = 0 /\ wakes < MaxUpdates
  /\ IF last = s THEN UNCHANGED <<last, setting>> ELSE last' = s /\ setting' = 1
  /\ UNCHANGED <<thread, icon, queue, wakes, closing>>

Update ==
  /\ setting \in 1..2
  /\ Deliver(setting, last)
  /\ setting' = (setting + 1) % 3
  /\ UNCHANGED <<thread, icon, last, closing>>

TrayShutdown ==
  /\ closing = 0 /\ closing' = 1
  /\ UNCHANGED <<thread, icon, last, queue, wakes, setting>>

CloseTray ==
  /\ closing \in 1..2
  /\ Deliver(closing, Quit)
  /\ closing' = closing + 1
  /\ UNCHANGED <<thread, icon, last, setting>>

(***************************************************************************)
(* The thread                                                              *)
(***************************************************************************)
GetMessage ==
  /\ thread = "waiting" /\ wakes > 0
  /\ wakes' = wakes - 1
  /\ thread' = "draining"
  /\ UNCHANGED <<icon, last, queue, setting, closing>>

ShowUpdate ==
  /\ thread = "draining"
  /\ queue # <<>> /\ Head(queue) # Quit
  /\ icon' = Head(queue)
  /\ queue' = Tail(queue)
  /\ UNCHANGED <<thread, last, wakes, setting, closing>>

DropIcon ==
  /\ thread = "draining"
  /\ queue # <<>> /\ Head(queue) = Quit
  /\ thread' = "gone" /\ icon' = Unset /\ queue' = <<>> /\ wakes' = 0
  /\ UNCHANGED <<last, setting, closing>>

Drained ==
  /\ thread = "draining" /\ queue = <<>>
  /\ thread' = "waiting"
  /\ UNCHANGED <<icon, last, queue, wakes, setting, closing>>

TrayThread == TrayReady \/ GetMessage \/ ShowUpdate \/ DropIcon \/ Drained

(***************************************************************************)
(* Properties                                                              *)
(***************************************************************************)

\* The thread never sleeps over an update: when it waits, no message is under way and no caller
\* is between sending and waking, the icon says what was set last (tray.rs:50, 57-58).
NoLostUpdate ==
  thread = "waiting" /\ wakes = 0 /\ setting = 0 /\ closing \notin {2} =>
    queue = <<>> /\ icon = last
=============================================================================
