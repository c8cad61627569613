------------------------------ MODULE MicSwitch ------------------------------
(***************************************************************************)
(* The switch of the default microphone (src/src/micswitch.rs): a process  *)
(* remembers the default recording device of every role in a state file,   *)
(* makes its target the default of all three roles, and later gives the    *)
(* remembered devices back.  Several CouchMic processes share one Windows  *)
(* session and one state file; a lock file says which of them may switch.  *)
(*                                                                         *)
(* A call of activate() or restore() is not atomic: every Windows call and *)
(* every file operation is a step, and the process can be killed between   *)
(* any two of them.  Windows, the user and the disk are the environment.   *)
(***************************************************************************)
EXTENDS Naturals, FiniteSets

CONSTANTS
  Procs,    \* CouchMic processes that may run in this logon session
  Mics,     \* recording devices
  None,     \* "no device", "nothing remembered", "no file", "no holder"
  Worlds    \* the surroundings the processes may find themselves in: a set of records

Roles == {"console", "multimedia", "communications"}

\* Mutant of RoleAt: the console role, which recovery looks at, is switched last.
RoleAt_ConsoleLast == <<"communications", "multimedia", "console">>

\* The order of every pass over the roles.
RoleAt == <<"console", "multimedia", "communications">>

\* What the three roles were before: the device of a role that has to be given back, else None.
Memory == [Roles -> Mics \cup {None}]
NoRoles == [r \in Roles |-> None]
Record == [target : Mics \cup {None}, prev : Memory]

ProgramPoints == {"dead", "recover", "recovered", "idle", "save", "write",
                  "switch", "restore", "cleanup"}
Resting == {"dead", "idle"}

\* What can happen around the processes.  A behaviour has one world, chosen in Init.
World == [
  target      : [Procs -> Mics],        \* the device the --mic-filter of each process finds
  legacy      : SUBSET Mics,            \* targets an old version may have left switched, with a
                                        \* file that has no T line
  scopes      : SUBSET SUBSET Roles,    \* the sets of roles one change by the user covers
  picks       : SUBSET Mics,            \* the devices the user picks by hand
  unpluggable : SUBSET Mics,            \* devices that can be unplugged and plugged in again
  crash       : SUBSET ProgramPoints,   \* the points at which a process may be killed
  lazy        : BOOLEAN,                \* may a process start with --no-switch?
  breaks      : BOOLEAN,                \* may IPolicyConfig stop working for every role at once?
  faults      : SUBSET {"switch", "restore", "remove"},
                                        \* the passes in which SetDefaultEndpoint may fail for one
                                        \* role and not for others; "remove": so may the deletion of
                                        \* the state file
  racing      : BOOLEAN,                \* may the environment act in the milliseconds a call takes?
  events      : Nat                     \* BOUND: number of environment events of a behaviour
]

ASSUME ConstantsOK ==
  /\ None \notin Mics /\ None \notin Procs /\ None \notin Memory /\ None \notin Record
  /\ Worlds \subseteq World

VARIABLES
  world,     \* never changes
  default,   \* Windows: the default recording device of each role
  plugged,   \* Windows: the active devices
  apiOk,     \* Windows: IPolicyConfig works
  file,      \* previous-mic.txt: None or its parsed contents
  lock,      \* holder of previous-mic.lock
  pc,        \* where each process is
  previous,  \* MicSwitch.previous of each process (None: not switched)
  target,    \* MicSwitch.target, and the local `target` of a running call
  work,      \* the local `prev` of a running call
  next,      \* index into RoleAt of the next role of a running pass
  allOk,     \* the local `all_ok` of restore
  chosen,    \* ghost: the device the user wants for each role (None: no wish)
  switched,  \* ghost: the roles that are on a target because a process put them there
  budget     \* environment events left

windows == <<default, plugged, apiOk>>
process == <<pc, previous, target, work, next, allOk>>
ghost == <<chosen, switched>>
vars == <<world, windows, file, lock, process, ghost, budget>>

TypeOK ==
  /\ world \in Worlds
  /\ default \in Memory
  /\ plugged \in SUBSET Mics
  /\ apiOk \in BOOLEAN
  /\ file \in Record \cup {None}
  /\ lock \in Procs \cup {None}
  /\ pc \in [Procs -> ProgramPoints]
  /\ previous \in [Procs -> Memory \cup {None}]
  /\ target \in [Procs -> Mics \cup {None}]
  /\ work \in [Procs -> Memory]
  /\ next \in [Procs -> 1..3]
  /\ allOk \in [Procs -> BOOLEAN]
  /\ chosen \in Memory
  /\ switched \in SUBSET Roles
  /\ budget \in 0..world.events

Remembered(prev) == {r \in Roles : prev[r] # None}

Init ==
  /\ world \in Worlds
  /\ chosen \in [Roles -> Mics]
  /\ plugged = Mics
  /\ apiOk = TRUE
  /\ \/ /\ default = chosen
        /\ file = None
        /\ switched = {}
     \/ \E t \in world.legacy :
          LET prev == [r \in Roles |-> IF chosen[r] = t THEN None ELSE chosen[r]] IN
          /\ prev # NoRoles
          /\ default = [r \in Roles |-> t]
          /\ file = [target |-> None, prev |-> prev]
          /\ switched = Remembered(prev)
  /\ lock = None
  /\ pc = [p \in Procs |-> "dead"]
  /\ previous = [p \in Procs |-> None]
  /\ target = [p \in Procs |-> None]
  /\ work = [p \in Procs |-> NoRoles]
  /\ next = [p \in Procs |-> 1]
  /\ allOk = [p \in Procs |-> TRUE]
  /\ budget = world.events

Goto(p, l) == pc' = [pc EXCEPT ![p] = l]

\* Mutant of TryAcquire: the lock file is opened with sharing.
TryAcquire_Shared(p) == lock' = p

\* SwitchLock::try_acquire, or the lock this process already holds.
TryAcquire(p) ==
  /\ lock \in {None, p}
  /\ lock' = p

\* Mutant of MoreRoles: one role too many.
MoreRoles_OffByOne(p) == next[p] <= 3

\* The pass over the roles goes on after this one.
MoreRoles(p) == next[p] < 3

\* Back to the caller.  The locals of the finished call are gone.
Return(p, prev, t) ==
  /\ Goto(p, "idle")
  /\ previous' = [previous EXCEPT ![p] = prev]
  /\ target' = [target EXCEPT ![p] = t]
  /\ work' = [work EXCEPT ![p] = NoRoles]
  /\ next' = [next EXCEPT ![p] = 1]
  /\ allOk' = [allOk EXCEPT ![p] = TRUE]

(***************************************************************************)
(* Starting: new(manage) and recover_previous().                           *)
(***************************************************************************)

\* A start that manages the microphone takes the lock or fails with WouldBlock
\* (then the process has no MicSwitch, which is the state "dead").
LaunchManaging(p) ==
  /\ pc[p] = "dead"
  /\ TryAcquire(p)
  /\ Goto(p, "recover")
  /\ UNCHANGED <<windows, file, previous, target, work, next, allOk, ghost, budget>>

\* --no-switch: nothing is touched until activate() is first called.
LaunchLazy(p) ==
  /\ world.lazy
  /\ pc[p] = "dead"
  /\ Goto(p, "idle")
  /\ UNCHANGED <<windows, file, lock, previous, target, work, next, allOk, ghost, budget>>

\* remove_file(), whose error nobody looks at; a file that cannot be deleted costs one event.
RemoveFile ==
  \/ file' = None /\ UNCHANGED budget
  \/ /\ "remove" \in world.faults /\ file # None
     /\ budget > 0 /\ budget' = budget - 1
     /\ UNCHANGED file

FindCapture(p) == IF world.target[p] \in plugged THEN world.target[p] ELSE None
RecoveryTarget(p) == IF file.target # None THEN file.target ELSE FindCapture(p)

\* Mutant of TargetIsDefault: another role is looked at.
TargetIsDefault_OtherRole(t) == t # None /\ default["communications"] = t

TargetIsDefault(t) == t # None /\ default["console"] = t

RecoverNothing(p) ==
  /\ pc[p] = "recover"
  /\ file = None
  /\ Goto(p, "idle")
  /\ UNCHANGED <<windows, file, lock, previous, target, work, next, allOk, ghost, budget>>

\* The target is still the default: take over the memory of the dead run and call restore().
RecoverTakeOver(p) ==
  /\ pc[p] = "recover"
  /\ file # None
  /\ TargetIsDefault(RecoveryTarget(p))
  /\ file.prev # NoRoles
  /\ previous' = [previous EXCEPT ![p] = file.prev]
  /\ target' = [target EXCEPT ![p] = RecoveryTarget(p)]
  /\ Goto(p, "recovered")
  /\ UNCHANGED <<windows, file, lock, work, next, allOk, ghost, budget>>

RecoverDiscard(p) ==
  /\ pc[p] = "recover"
  /\ file # None
  /\ ~(TargetIsDefault(RecoveryTarget(p)) /\ file.prev # NoRoles)
  /\ RemoveFile
  /\ Goto(p, "idle")
  /\ UNCHANGED <<windows, lock, previous, target, work, next, allOk, ghost>>

(***************************************************************************)
(* activate()                                                              *)
(***************************************************************************)

\* Common entry: not switched yet, and the lock is held or can be taken.  When another process
\* holds it, activate() returns without a change.
Activating(p) ==
  /\ pc[p] = "idle"
  /\ previous[p] = None
  /\ TryAcquire(p)

\* Mutant of Differing: the console device is remembered for every role.
Differing_ConsoleForAll(t) ==
  [r \in Roles |-> IF default["console"] = t THEN None ELSE default["console"]]

\* What activate() remembers: the current device of each role that is not on the target yet.
Differing(t) == [r \in Roles |-> IF default[r] = t THEN None ELSE default[r]]

ActivateNoTarget(p) ==
  /\ Activating(p)
  /\ world.target[p] \notin plugged
  /\ UNCHANGED <<windows, file, process, ghost, budget>>

\* The target already is the default of every role: nothing to remember, nothing to save.
ActivateAlready(p) ==
  /\ Activating(p)
  /\ world.target[p] \in plugged
  /\ Differing(world.target[p]) = NoRoles
  /\ Return(p, NoRoles, world.target[p])
  /\ UNCHANGED <<windows, file, ghost, budget>>

\* Mutant of ActivateScan: the pass over the roles starts before the file is written.
ActivateScan_NoSave(p) ==
  /\ Activating(p)
  /\ world.target[p] \in plugged
  /\ Differing(world.target[p]) # NoRoles
  /\ work' = [work EXCEPT ![p] = Differing(world.target[p])]
  /\ target' = [target EXCEPT ![p] = world.target[p]]
  /\ Goto(p, "switch")
  /\ UNCHANGED <<windows, file, previous, next, allOk, ghost, budget>>

ActivateScan(p) ==
  /\ Activating(p)
  /\ world.target[p] \in plugged
  /\ Differing(world.target[p]) # NoRoles
  /\ work' = [work EXCEPT ![p] = Differing(world.target[p])]
  /\ target' = [target EXCEPT ![p] = world.target[p]]
  /\ Goto(p, "save")
  /\ UNCHANGED <<windows, file, previous, next, allOk, ghost, budget>>

\* save_state is fs::write: the file is created or truncated first, then written.
SaveTruncate(p) ==
  /\ pc[p] = "save"
  /\ file' = [target |-> None, prev |-> NoRoles]
  /\ Goto(p, "write")
  /\ UNCHANGED <<windows, lock, previous, target, work, next, allOk, ghost, budget>>

SaveWrite(p) ==
  /\ pc[p] = "write"
  /\ file' = [target |-> target[p], prev |-> work[p]]
  /\ Goto(p, "switch")
  /\ UNCHANGED <<windows, lock, previous, target, work, next, allOk, ghost, budget>>

\* The disk refuses the open or the write: activate() returns without switching.
SaveFails(p) ==
  /\ pc[p] \in {"save", "write"}
  /\ budget > 0
  /\ budget' = budget - 1
  /\ Return(p, None, None)
  /\ UNCHANGED <<windows, file, lock, ghost>>

CanSet(m) == apiOk /\ m \in plugged

\* A call of SetDefaultEndpoint for a device that is there can fail on its own.
CallFault(p) == pc[p] \in world.faults /\ budget > 0

\* Process p sets device m for role r; a fault of a single call costs one event of the budget.
SetDefault(p, m, r, ok) ==
  /\ ok => CanSet(m)
  /\ ~ok => ~CanSet(m) \/ CallFault(p)
  /\ budget' = IF ~ok /\ CanSet(m) THEN budget - 1 ELSE budget
  /\ default' = IF ok THEN [default EXCEPT ![r] = m] ELSE default

\* One role of the pass over ROLES.  An error is only logged.  After the last role the memory
\* becomes the state of the process.
SwitchRole(p) ==
  LET r == RoleAt[next[p]] IN
  /\ pc[p] = "switch"
  /\ \E ok \in BOOLEAN :
       /\ SetDefault(p, target[p], r, ok)
       /\ switched' = IF ok /\ default[r] # target[p] THEN switched \cup {r} ELSE switched
  /\ IF MoreRoles(p)
       THEN /\ next' = [next EXCEPT ![p] = @ + 1]
            /\ UNCHANGED <<pc, previous, target, work, allOk>>
       ELSE Return(p, work[p], target[p])
  /\ UNCHANGED <<plugged, apiOk, file, lock, chosen>>

(***************************************************************************)
(* restore(), called on its own or at the end of recover_previous()        *)
(***************************************************************************)

Restoring(p) == pc[p] \in {"idle", "recovered"} /\ previous[p] # None

\* Mutant of StillDefault: the current default is not looked at.
StillDefault_Unchecked(p) == TRUE

StillDefault(p) == default["console"] \in {target[p], None}

\* Nothing was remembered: forget the target.
RestoreNothing(p) ==
  /\ Restoring(p)
  /\ previous[p] = NoRoles
  /\ Return(p, None, None)
  /\ UNCHANGED <<windows, file, lock, ghost, budget>>

\* The default of the console role is not the target any more: the user's choice stays.
RestoreKeepsUserChoice(p) ==
  /\ Restoring(p)
  /\ previous[p] # NoRoles
  /\ ~StillDefault(p)
  /\ RemoveFile
  /\ Return(p, None, None)
  /\ UNCHANGED <<windows, lock, ghost>>

RestoreBegin(p) ==
  /\ Restoring(p)
  /\ previous[p] # NoRoles
  /\ StillDefault(p)
  /\ work' = [work EXCEPT ![p] = previous[p]]
  /\ previous' = [previous EXCEPT ![p] = None]
  /\ Goto(p, "restore")
  /\ UNCHANGED <<windows, file, lock, target, next, allOk, ghost, budget>>

\* The remembered device, or else any other active one than the target.
GiveBack(p, r, ok) ==
  LET m == work[p][r]
      others == plugged \ {target[p]}
  IN IF m = None
     THEN ok = TRUE /\ UNCHANGED <<default, budget>>
     ELSE \/ ok = TRUE /\ SetDefault(p, m, r, TRUE)
          \/ /\ ~CanSet(m) \/ CallFault(p)
             /\ \/ \E f \in others : SetDefault(p, f, r, ok)
                \/ others = {} /\ ok = FALSE /\ UNCHANGED <<default, budget>>

RestoreRole(p) ==
  LET r == RoleAt[next[p]] IN
  /\ pc[p] = "restore"
  /\ \E ok \in BOOLEAN :
       /\ GiveBack(p, r, ok)
       /\ allOk' = [allOk EXCEPT ![p] = @ /\ ok]
       /\ switched' = IF ok /\ work[p][r] # None THEN switched \ {r} ELSE switched
  /\ IF MoreRoles(p)
       THEN next' = [next EXCEPT ![p] = @ + 1] /\ UNCHANGED pc
       ELSE Goto(p, "cleanup") /\ UNCHANGED next
  /\ UNCHANGED <<plugged, apiOk, file, lock, previous, target, work, chosen>>

\* Mutant of RestoreEnd: the file goes whatever happened.
RestoreEnd_AlwaysRemoves(p) ==
  /\ pc[p] = "cleanup"
  /\ RemoveFile
  /\ Return(p, None, None)
  /\ UNCHANGED <<windows, lock, ghost>>

\* All roles given back: remove the file.  Otherwise keep it for the next start.
RestoreEnd(p) ==
  /\ pc[p] = "cleanup"
  /\ IF allOk[p] THEN RemoveFile ELSE UNCHANGED <<file, budget>>
  /\ Return(p, None, None)
  /\ UNCHANGED <<windows, lock, ghost>>

(***************************************************************************)
(* The environment                                                         *)
(***************************************************************************)

\* The process ends at this point; Windows closes its lock file.
Kill(p) ==
  /\ pc[p] \in world.crash \ {"dead"}
  /\ budget > 0
  /\ budget' = budget - 1
  /\ lock' = IF lock = p THEN None ELSE lock
  /\ Goto(p, "dead")
  /\ previous' = [previous EXCEPT ![p] = None]
  /\ target' = [target EXCEPT ![p] = None]
  /\ work' = [work EXCEPT ![p] = NoRoles]
  /\ next' = [next EXCEPT ![p] = 1]
  /\ allOk' = [allOk EXCEPT ![p] = TRUE]
  /\ UNCHANGED <<windows, file, ghost>>

\* Unless the world is racing, the environment acts only while no call is running.
EnvironmentActs ==
  /\ budget > 0
  /\ budget' = budget - 1
  /\ world.racing \/ \A p \in Procs : pc[p] \in Resting
  /\ UNCHANGED <<file, lock, process>>

\* The user picks another device for some roles in the sound settings.
UserPicks ==
  /\ EnvironmentActs
  /\ \E S \in world.scopes, m \in world.picks \cap plugged :
       /\ \E r \in S : default[r] # m
       /\ default' = [r \in Roles |-> IF r \in S THEN m ELSE default[r]]
       /\ chosen' = [r \in Roles |-> IF r \in S THEN m ELSE chosen[r]]
       /\ switched' = switched \ S
  /\ UNCHANGED <<plugged, apiOk>>

\* Windows elects another default for the roles that used the device; a wish for it is void.
Unplug ==
  /\ EnvironmentActs
  /\ \E m \in world.unpluggable \cap plugged :
       LET left == plugged \ {m}
           gone == {r \in Roles : default[r] = m}
       IN /\ plugged' = left
          /\ \E e \in IF left = {} THEN {None} ELSE left :
               default' = [r \in Roles |-> IF r \in gone THEN e ELSE default[r]]
          /\ chosen' = [r \in Roles |->
                          IF chosen[r] = m \/ r \in gone THEN None ELSE chosen[r]]
          /\ switched' = switched \ gone
  /\ UNCHANGED apiOk

PlugIn ==
  /\ EnvironmentActs
  /\ \E m \in world.unpluggable \ plugged :
       /\ plugged' = plugged \cup {m}
       /\ default' = [r \in Roles |-> IF default[r] = None THEN m ELSE default[r]]
  /\ UNCHANGED <<apiOk, ghost>>

\* IPolicyConfig stops working for every role, or works again.
ApiFlips ==
  /\ world.breaks
  /\ EnvironmentActs
  /\ apiOk' = ~apiOk
  /\ UNCHANGED <<default, plugged, ghost>>

\* The calls of one process and the steps they take.
Launch(p) == LaunchManaging(p) \/ LaunchLazy(p)
Recover(p) == RecoverNothing(p) \/ RecoverTakeOver(p) \/ RecoverDiscard(p)
Activate(p) ==
  \/ ActivateNoTarget(p) \/ ActivateAlready(p) \/ ActivateScan(p)
  \/ SaveTruncate(p) \/ SaveWrite(p) \/ SaveFails(p) \/ SwitchRole(p)
Restore(p) ==
  \/ RestoreNothing(p) \/ RestoreKeepsUserChoice(p) \/ RestoreBegin(p)
  \/ RestoreRole(p) \/ RestoreEnd(p)
Environment == UserPicks \/ Unplug \/ PlugIn \/ ApiFlips

Next ==
  /\ \/ \E p \in Procs : Launch(p) \/ Recover(p) \/ Activate(p) \/ Restore(p) \/ Kill(p)
     \/ Environment
  /\ UNCHANGED world

Spec == Init /\ [][Next]_vars

(***************************************************************************)
(* Properties                                                              *)
(***************************************************************************)

\* A process that is inside a call or that is switched holds the lock, so no second instance
\* reads, overwrites or deletes the record under it (SwitchLock, micswitch.rs:182-186).
LockHeld == \A p \in Procs : pc[p] \notin Resting \/ previous[p] # None => lock = p

\* The types, and that lock: no two instances ever work on the microphone or the state file.
Consistent == TypeOK /\ LockHeld

\* What the process would have to give back if it were killed now.
InFlight(p) ==
  IF pc[p] \in {"switch", "restore", "cleanup"} THEN work[p]
  ELSE IF previous[p] # None THEN previous[p] ELSE NoRoles

\* Whatever a process has to give back is in the state file, at every step, whatever fails:
\* a kill at any time finds the devices and the target on disk (micswitch.rs:175-176, 383).
MemoryOnDisk ==
  \A p \in Procs : InFlight(p) # NoRoles =>
    /\ file # None
    /\ file.prev = InFlight(p)
    /\ file.target \in {None, target[p]}

\* The surroundings in which the program promises to give every device back: starts manage the
\* microphone, Windows refuses a call for all roles or for none, the user does not change a
\* device while a call is running, and a change covers all roles.  The README says what becomes
\* of the properties below without each of these.
Orderly ==
  ~world.lazy /\ world.faults \subseteq {"remove"} /\ ~world.racing /\ world.scopes \subseteq {Roles}

\* No process is switched or working, and there is nothing left to recover.
Quiet ==
  /\ file = None
  /\ \A p \in Procs : pc[p] \in Resting /\ previous[p] \in {None, NoRoles}

\* Once nothing is left to recover, every role is back on the device the user wants.
GivenBack == Orderly /\ Quiet => \A r \in Roles : chosen[r] \in {None, default[r]}

\* A role that is on the target because of the program is in the state file, so that some
\* restore() or the next start gives its device back (micswitch.rs:175-176, 383, 388).
Recorded == Orderly => \A r \in switched : file # None /\ file.prev[r] # None

\* A start that deletes the state file leaves nothing switched (micswitch.rs:175-176, 450).
RecoveryCompletes ==
  [][Orderly => \A p \in Procs : RecoverDiscard(p) => switched = {}]_vars

\* restore() never overwrites the device the user wants for a role, however the restore came
\* about: a choice made while the microphone was switched stays (micswitch.rs:403-404).
UserChoiceKept ==
  [][Orderly => \A p \in Procs : RestoreRole(p) =>
       \A r \in Roles : default[r] = chosen[r] => default'[r] = default[r]]_vars
=============================================================================
