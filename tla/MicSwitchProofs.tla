--------------------------- MODULE MicSwitchProofs ---------------------------
(***************************************************************************)
(* Proofs about MicSwitch for every set of processes and devices and for   *)
(* every environment the constants allow: racing users, faults of single   *)
(* calls and kills at every point included.  The second half is about the  *)
(* sheltered worlds (Sheltered), where also every device comes back.       *)
(***************************************************************************)
EXTENDS MicSwitch, TLAPS

LEMMA WorldType ==
  ASSUME world \in Worlds
  PROVE  /\ world.target \in [Procs -> Mics]
         /\ world.legacy \subseteq Mics /\ world.picks \subseteq Mics
         /\ world.unpluggable \subseteq Mics
         /\ world.events \in Nat
BY ConstantsOK DEF World

LEMMA NoRolesIsMemory == NoRoles \in Memory
BY DEF NoRoles, Memory

LEMMA DifferingIsMemory ==
  ASSUME NEW t, default \in Memory
  PROVE  Differing(t) \in Memory
BY DEF Differing, Memory

\* The outcome of one SetDefaultEndpoint call is well-typed.
LEMMA SetDefaultType ==
  ASSUME TypeOK, NEW p \in Procs, NEW m \in Mics \cup {None}, NEW r \in Roles,
         NEW ok \in BOOLEAN, SetDefault(p, m, r, ok)
  PROVE  default' \in Memory /\ budget' \in 0..world.events
<1>1. default' \in Memory
  BY DEF SetDefault, TypeOK, Memory
<1>2. budget' \in 0..world.events
  BY WorldType DEF SetDefault, CallFault, TypeOK
<1>3. QED BY <1>1, <1>2

\* So is that of a deletion of the state file.
LEMMA RemoveFileType ==
  ASSUME TypeOK, RemoveFile \/ UNCHANGED <<file, budget>>
  PROVE  file' \in Record \cup {None} /\ budget' \in 0..world.events
<1>1. CASE RemoveFile
  <2>1. file' \in {None, file} /\ budget' \in {budget, budget - 1}
        /\ (budget' # budget => budget > 0)
    BY <1>1 DEF RemoveFile
  <2>2. file' \in Record \cup {None}
    BY <2>1 DEF TypeOK
  <2>3. budget \in 0..world.events /\ world.events \in Nat
    BY WorldType DEF TypeOK
  <2>4. budget' \in 0..world.events
    BY <2>1, <2>3
  <2>5. QED BY <2>2, <2>4
<1>2. CASE UNCHANGED <<file, budget>>
  BY <1>2 DEF TypeOK
<1>3. QED BY <1>1, <1>2

LEMMA RoleAtType == \A i \in 1..3 : RoleAt[i] \in Roles
BY DEF RoleAt, Roles

LEMMA GiveBackType ==
  ASSUME TypeOK, NEW p \in Procs, NEW r \in Roles, NEW ok \in BOOLEAN, GiveBack(p, r, ok)
  PROVE  default' \in Memory /\ budget' \in 0..world.events
<1>1. work[p][r] \in Mics \cup {None}
  BY DEF TypeOK, Memory
<1>2. CASE work[p][r] = None
  BY <1>2 DEF GiveBack, TypeOK
<1>3. CASE work[p][r] # None /\ SetDefault(p, work[p][r], r, TRUE)
  BY <1>1, <1>3, SetDefaultType
<1>4. CASE \E f \in plugged \ {target[p]} : SetDefault(p, f, r, ok)
  <2>1. PICK f \in plugged \ {target[p]} : SetDefault(p, f, r, ok)
    BY <1>4
  <2>2. f \in Mics \cup {None}
    BY DEF TypeOK
  <2>3. QED BY <2>1, <2>2, SetDefaultType
<1>5. CASE UNCHANGED <<default, budget>>
  BY <1>5 DEF TypeOK
<1>6. QED BY <1>2, <1>3, <1>4, <1>5 DEF GiveBack

LEMMA ReturnType ==
  ASSUME TypeOK, NEW p \in Procs, NEW m \in Memory \cup {None},
         NEW t \in Mics \cup {None}, Return(p, m, t)
  PROVE  /\ pc' \in [Procs -> ProgramPoints]
         /\ previous' \in [Procs -> Memory \cup {None}]
         /\ target' \in [Procs -> Mics \cup {None}]
         /\ work' \in [Procs -> Memory]
         /\ next' \in [Procs -> 1..3]
         /\ allOk' \in [Procs -> BOOLEAN]
BY NoRolesIsMemory DEF TypeOK, Return, Goto, ProgramPoints

LEMMA InitType == Init => TypeOK
<1>1. ASSUME Init PROVE TypeOK
  <2>1. default \in Memory /\ chosen \in Memory
    BY <1>1, ConstantsOK, WorldType DEF Init, Memory
  <2>2. file \in Record \cup {None} /\ switched \in SUBSET Roles
    <3>1. CASE file = None /\ switched = {}
      BY <3>1
    <3>2. CASE \E t \in world.legacy :
                 LET prev == [r \in Roles |-> IF chosen[r] = t THEN None ELSE chosen[r]] IN
                 /\ file = [target |-> None, prev |-> prev]
                 /\ switched = Remembered(prev)
      BY <3>2, <2>1 DEF Record, Memory, Remembered
    <3>3. QED BY <1>1, <3>1, <3>2 DEF Init
  <2>3. QED
    BY <1>1, <2>1, <2>2, NoRolesIsMemory, WorldType DEF Init, TypeOK, ProgramPoints
<1>2. QED BY <1>1

LEMMA FileTypes ==
  /\ [target |-> None, prev |-> NoRoles] \in Record
  /\ \A t \in Mics \cup {None}, m \in Memory : [target |-> t, prev |-> m] \in Record
BY NoRolesIsMemory DEF Record

\* One step per action of a process.
LEMMA LaunchType == ASSUME TypeOK, NEW p \in Procs, Launch(p), UNCHANGED world PROVE TypeOK'
<1>1. CASE LaunchManaging(p)
  BY <1>1 DEF TypeOK, LaunchManaging, TryAcquire, Goto, ProgramPoints, windows, ghost
<1>2. CASE LaunchLazy(p)
  BY <1>2 DEF TypeOK, LaunchLazy, Goto, ProgramPoints, windows, ghost
<1>3. QED BY <1>1, <1>2 DEF Launch

LEMMA RecoverType == ASSUME TypeOK, NEW p \in Procs, Recover(p), UNCHANGED world PROVE TypeOK'
<1>1. CASE RecoverNothing(p)
  BY <1>1 DEF TypeOK, RecoverNothing, Goto, ProgramPoints, windows, ghost
<1>2. CASE RecoverTakeOver(p)
  <2>1. RecoveryTarget(p) \in Mics \cup {None}
    BY <1>2, WorldType DEF RecoverTakeOver, RecoveryTarget, FindCapture, TypeOK, Record
  <2>2. file.prev \in Memory
    BY <1>2 DEF RecoverTakeOver, TypeOK, Record
  <2>3. QED
    BY <1>2, <2>1, <2>2 DEF TypeOK, RecoverTakeOver, Goto, ProgramPoints, windows, ghost
<1>3. CASE RecoverDiscard(p)
  <2>1. file' \in Record \cup {None} /\ budget' \in 0..world.events
    BY <1>3, RemoveFileType DEF RecoverDiscard
  <2>2. QED BY <1>3, <2>1 DEF TypeOK, RecoverDiscard, Goto, ProgramPoints, windows, ghost
<1>4. QED BY <1>1, <1>2, <1>3 DEF Recover

LEMMA ActivateType == ASSUME TypeOK, NEW p \in Procs, Activate(p), UNCHANGED world PROVE TypeOK'
<1>t. world.target[p] \in Mics \cup {None}
  BY WorldType DEF TypeOK
<1>n. NoRoles \in Memory \cup {None} /\ None \in Memory \cup {None} /\ None \in Mics \cup {None}
  BY NoRolesIsMemory
<1>1. CASE ActivateNoTarget(p)
  BY <1>1 DEF TypeOK, ActivateNoTarget, Activating, TryAcquire, windows, process, ghost
<1>2. CASE ActivateAlready(p)
  <2>1. Return(p, NoRoles, world.target[p])
    BY <1>2 DEF ActivateAlready
  <2>2. QED
    BY <1>2, <1>t, <1>n, <2>1, ReturnType
    DEF TypeOK, ActivateAlready, Activating, TryAcquire, windows, ghost
<1>3. CASE ActivateScan(p)
  <2>1. Differing(world.target[p]) \in Memory
    BY DifferingIsMemory DEF TypeOK
  <2>2. QED
    BY <1>3, <1>t, <2>1
    DEF TypeOK, ActivateScan, Activating, TryAcquire, Goto, ProgramPoints, windows, ghost
<1>4. CASE SaveTruncate(p)
  BY <1>4, FileTypes DEF TypeOK, SaveTruncate, Goto, ProgramPoints, windows, ghost
<1>5. CASE SaveWrite(p)
  <2>1. [target |-> target[p], prev |-> work[p]] \in Record
    BY FileTypes DEF TypeOK
  <2>2. QED
    BY <1>5, <2>1 DEF TypeOK, SaveWrite, Goto, ProgramPoints, windows, ghost
<1>6. CASE SaveFails(p)
  <2>1. Return(p, None, None) /\ budget' \in 0..world.events
    BY <1>6, WorldType DEF SaveFails, TypeOK
  <2>2. QED
    BY <1>6, <1>n, <2>1, ReturnType DEF TypeOK, SaveFails, windows, ghost
<1>7. CASE SwitchRole(p)
  <2>1. PICK ok \in BOOLEAN :
          /\ SetDefault(p, target[p], RoleAt[next[p]], ok)
          /\ switched' = IF ok /\ default[RoleAt[next[p]]] # target[p]
                           THEN switched \cup {RoleAt[next[p]]} ELSE switched
    BY <1>7 DEF SwitchRole
  <2>2. RoleAt[next[p]] \in Roles /\ target[p] \in Mics \cup {None} /\ work[p] \in Memory
    BY RoleAtType DEF TypeOK
  <2>3. default' \in Memory /\ budget' \in 0..world.events /\ switched' \in SUBSET Roles
    <3>1. default' \in Memory /\ budget' \in 0..world.events
      BY <2>1, <2>2, SetDefaultType
    <3>2. switched' \in SUBSET Roles
      BY <2>1, <2>2 DEF TypeOK
    <3>3. QED BY <3>1, <3>2
  <2>4. CASE MoreRoles(p)
    BY <1>7, <2>3, <2>4 DEF TypeOK, SwitchRole, MoreRoles
  <2>5. CASE ~MoreRoles(p)
    <3>1. Return(p, work[p], target[p])
      BY <1>7, <2>5 DEF SwitchRole
    <3>2. QED BY <1>7, <2>2, <2>3, <3>1, ReturnType DEF TypeOK, SwitchRole
  <2>6. QED BY <2>4, <2>5
<1>8. QED BY <1>1, <1>2, <1>3, <1>4, <1>5, <1>6, <1>7 DEF Activate

LEMMA RestoreType == ASSUME TypeOK, NEW p \in Procs, Restore(p), UNCHANGED world PROVE TypeOK'
<1>n. None \in Memory \cup {None} /\ None \in Mics \cup {None}
  OBVIOUS
<1>1. CASE RestoreNothing(p)
  BY <1>1, <1>n, ReturnType DEF TypeOK, RestoreNothing, windows, ghost
<1>2. CASE RestoreKeepsUserChoice(p)
  <2>1. file' \in Record \cup {None} /\ budget' \in 0..world.events
    BY <1>2, RemoveFileType DEF RestoreKeepsUserChoice
  <2>2. QED BY <1>2, <1>n, <2>1, ReturnType DEF TypeOK, RestoreKeepsUserChoice, windows, ghost
<1>3. CASE RestoreBegin(p)
  <2>1. previous[p] \in Memory
    BY <1>3 DEF RestoreBegin, Restoring, TypeOK
  <2>2. QED
    BY <1>3, <2>1 DEF TypeOK, RestoreBegin, Goto, ProgramPoints, windows, ghost
<1>4. CASE RestoreRole(p)
  <2>1. PICK ok \in BOOLEAN :
          /\ GiveBack(p, RoleAt[next[p]], ok)
          /\ allOk' = [allOk EXCEPT ![p] = @ /\ ok]
          /\ switched' = IF ok /\ work[p][RoleAt[next[p]]] # None
                           THEN switched \ {RoleAt[next[p]]} ELSE switched
    BY <1>4 DEF RestoreRole
  <2>2. default' \in Memory /\ budget' \in 0..world.events
    BY <2>1, RoleAtType, GiveBackType DEF TypeOK
  <2>3. allOk' \in [Procs -> BOOLEAN] /\ switched' \in SUBSET Roles
    BY <2>1 DEF TypeOK
  <2>4. pc' \in [Procs -> ProgramPoints] /\ next' \in [Procs -> 1..3]
    BY <1>4 DEF TypeOK, RestoreRole, MoreRoles, Goto, ProgramPoints
  <2>5. QED BY <1>4, <2>2, <2>3, <2>4 DEF TypeOK, RestoreRole
<1>5. CASE RestoreEnd(p)
  <2>1. file' \in Record \cup {None} /\ budget' \in 0..world.events
    BY <1>5, RemoveFileType DEF RestoreEnd
  <2>2. QED BY <1>5, <1>n, <2>1, ReturnType DEF TypeOK, RestoreEnd, windows, ghost
<1>6. QED BY <1>1, <1>2, <1>3, <1>4, <1>5 DEF Restore

LEMMA KillType == ASSUME TypeOK, NEW p \in Procs, Kill(p), UNCHANGED world PROVE TypeOK'
BY NoRolesIsMemory, WorldType DEF TypeOK, Kill, Goto, ProgramPoints, windows, ghost

LEMMA EnvironmentType == ASSUME TypeOK, Environment, UNCHANGED world PROVE TypeOK'
<1>b. ASSUME EnvironmentActs
      PROVE  /\ budget' \in 0..world.events
             /\ UNCHANGED <<file, lock, process>>
  BY <1>b, WorldType DEF EnvironmentActs, TypeOK
<1>1. CASE UserPicks
  <2>1. PICK S \in world.scopes, m \in world.picks \cap plugged :
          /\ default' = [r \in Roles |-> IF r \in S THEN m ELSE default[r]]
          /\ chosen' = [r \in Roles |-> IF r \in S THEN m ELSE chosen[r]]
          /\ switched' = switched \ S
    BY <1>1 DEF UserPicks
  <2>2. default' \in Memory /\ chosen' \in Memory /\ switched' \in SUBSET Roles
    BY <2>1, WorldType DEF TypeOK, Memory
  <2>3. QED BY <1>1, <1>b, <2>2 DEF UserPicks, TypeOK, process
<1>2. CASE Unplug
  <2>1. PICK m \in world.unpluggable \cap plugged :
          /\ plugged' = plugged \ {m}
          /\ \E e \in (IF plugged \ {m} = {} THEN {None} ELSE plugged \ {m}) :
               default' = [r \in Roles |->
                             IF r \in {q \in Roles : default[q] = m} THEN e ELSE default[r]]
          /\ chosen' = [r \in Roles |->
                          IF chosen[r] = m \/ r \in {q \in Roles : default[q] = m}
                          THEN None ELSE chosen[r]]
          /\ switched' = switched \ {q \in Roles : default[q] = m}
    BY <1>2 DEF Unplug
  <2>2. plugged' \in SUBSET Mics /\ switched' \in SUBSET Roles /\ chosen' \in Memory
    BY <2>1 DEF TypeOK, Memory
  <2>3. default' \in Memory
    <3>1. PICK e \in (IF plugged \ {m} = {} THEN {None} ELSE plugged \ {m}) :
            default' = [r \in Roles |->
                          IF r \in {q \in Roles : default[q] = m} THEN e ELSE default[r]]
      BY <2>1
    <3>2. e \in Mics \cup {None}
      BY DEF TypeOK
    <3>3. QED BY <3>1, <3>2 DEF TypeOK, Memory
  <2>4. QED BY <1>2, <1>b, <2>2, <2>3 DEF Unplug, TypeOK, process
<1>3. CASE PlugIn
  <2>1. PICK m \in world.unpluggable \ plugged :
          /\ plugged' = plugged \cup {m}
          /\ default' = [r \in Roles |-> IF default[r] = None THEN m ELSE default[r]]
    BY <1>3 DEF PlugIn
  <2>2. plugged' \in SUBSET Mics /\ default' \in Memory
    BY <2>1, WorldType DEF TypeOK, Memory
  <2>3. QED BY <1>3, <1>b, <2>2 DEF PlugIn, TypeOK, process, ghost
<1>4. CASE ApiFlips
  BY <1>4, <1>b DEF ApiFlips, TypeOK, process, ghost
<1>5. QED BY <1>1, <1>2, <1>3, <1>4 DEF Environment

\* Every variable keeps its type, whatever the processes and the environment do.
THEOREM TypeCorrect == Spec => []TypeOK
<1>1. Init => TypeOK
  BY InitType
<1>2. TypeOK /\ [Next]_vars => TypeOK'
  <2>1. ASSUME TypeOK, Next PROVE TypeOK'
    BY <2>1, LaunchType, RecoverType, ActivateType, RestoreType, KillType, EnvironmentType
    DEF Next
  <2>2. ASSUME TypeOK, UNCHANGED vars PROVE TypeOK'
    BY <2>2 DEF TypeOK, vars, windows, process, ghost
  <2>3. QED BY <2>1, <2>2
<1>3. QED BY <1>1, <1>2, PTL DEF Spec

(***************************************************************************)
(* The lock and the record on disk.  LockHeld and MemoryOnDisk are not     *)
(* inductive alone: a start that discards the file, and a call that        *)
(* overwrites it, must know that their process remembers nothing.          *)
(***************************************************************************)
MemoryAtRest == \A p \in Procs : previous[p] # None => pc[p] \in {"idle", "recovered"}

IInv == TypeOK /\ LockHeld /\ MemoryAtRest /\ MemoryOnDisk

OthersSame(p) ==
  \A q \in Procs \ {p} :
    /\ pc'[q] = pc[q] /\ previous'[q] = previous[q]
    /\ work'[q] = work[q] /\ target'[q] = target[q]

LEMMA NoRolesIsSome == NoRoles # None
BY NoRolesIsMemory, ConstantsOK

LEMMA InitInv == Init => IInv
<1>1. Init => LockHeld
  BY DEF Init, LockHeld, Resting
<1>2. Init => MemoryAtRest /\ MemoryOnDisk
  BY DEF Init, MemoryAtRest, MemoryOnDisk, InFlight
<1>3. QED BY <1>1, <1>2, InitType DEF IInv

\* A step inside a call is a step of the process that holds, or takes, the lock.
LEMMA ActorHoldsLock ==
  ASSUME IInv, NEW p \in Procs, Recover(p) \/ Activate(p) \/ Restore(p)
  PROVE  lock \in {None, p} /\ lock' = p /\ OthersSame(p)
<1>1. OthersSame(p)
  <2>1. CASE Recover(p)
    BY <2>1 DEF Recover, RecoverNothing, RecoverTakeOver, RecoverDiscard, OthersSame, Goto, IInv,
                TypeOK
  <2>2. CASE Activate(p)
    <3>1. CASE ActivateNoTarget(p) \/ ActivateAlready(p) \/ ActivateScan(p)
      BY <3>1 DEF ActivateNoTarget, ActivateAlready, ActivateScan, OthersSame, Goto, Return,
                  process, IInv, TypeOK
    <3>2. CASE SaveTruncate(p) \/ SaveWrite(p) \/ SaveFails(p)
      BY <3>2 DEF SaveTruncate, SaveWrite, SaveFails, OthersSame, Goto, Return, IInv, TypeOK
    <3>3. CASE SwitchRole(p)
      BY <3>3 DEF SwitchRole, OthersSame, Return, Goto, IInv, TypeOK
    <3>4. QED BY <2>2, <3>1, <3>2, <3>3 DEF Activate
  <2>3. CASE Restore(p)
    <3>1. CASE RestoreNothing(p) \/ RestoreKeepsUserChoice(p) \/ RestoreBegin(p)
      BY <3>1 DEF RestoreNothing, RestoreKeepsUserChoice, RestoreBegin, OthersSame, Goto, Return,
                  IInv, TypeOK
    <3>2. CASE RestoreRole(p) \/ RestoreEnd(p)
      BY <3>2 DEF RestoreRole, RestoreEnd, OthersSame, Return, Goto, IInv, TypeOK
    <3>3. QED BY <2>3, <3>1, <3>2 DEF Restore
  <2>4. QED BY <2>1, <2>2, <2>3
<1>2. lock \in {None, p} /\ lock' = p
  <2>1. CASE Recover(p)
    BY <2>1 DEF Recover, RecoverNothing, RecoverTakeOver, RecoverDiscard, IInv, LockHeld, Resting
  <2>2. CASE Activate(p)
    BY <2>2 DEF Activate, ActivateNoTarget, ActivateAlready, ActivateScan, Activating, TryAcquire,
                SaveTruncate, SaveWrite, SaveFails, SwitchRole, IInv, LockHeld, Resting
  <2>3. CASE Restore(p)
    BY <2>3 DEF Restore, RestoreNothing, RestoreKeepsUserChoice, RestoreBegin, Restoring,
                RestoreRole, RestoreEnd, IInv, LockHeld, Resting
  <2>4. QED BY <2>1, <2>2, <2>3
<1>3. QED BY <1>1, <1>2

\* ... so no other process has anything to give back at that moment.
LEMMA OthersHoldNothing ==
  ASSUME IInv, NEW p \in Procs, Recover(p) \/ Activate(p) \/ Restore(p),
         NEW q \in Procs \ {p}
  PROVE  /\ pc[q] \in Resting /\ previous[q] = None
         /\ InFlight(q)' = NoRoles
<1>1. lock # q
  BY ActorHoldsLock, ConstantsOK
<1>2. pc[q] \in Resting /\ previous[q] = None
  BY <1>1 DEF IInv, LockHeld
<1>3. pc'[q] = pc[q] /\ previous'[q] = previous[q]
  BY ActorHoldsLock DEF OthersSame
<1>4. QED BY <1>2, <1>3 DEF InFlight, Resting

LEMMA LockStep ==
  ASSUME IInv, NEW p \in Procs,
         Launch(p) \/ Recover(p) \/ Activate(p) \/ Restore(p) \/ Kill(p)
  PROVE  LockHeld'
<1>1. CASE Launch(p)
  BY <1>1, ConstantsOK
  DEF Launch, LaunchManaging, LaunchLazy, TryAcquire, IInv, LockHeld, Resting, Goto, TypeOK
<1>2. CASE Recover(p) \/ Activate(p) \/ Restore(p)
  <2>1. ASSUME NEW q \in Procs \ {p} PROVE pc'[q] \in Resting /\ previous'[q] = None
    BY <1>2, <2>1, ActorHoldsLock, OthersHoldNothing DEF OthersSame
  <2>2. lock' = p
    BY <1>2, ActorHoldsLock
  <2>3. QED BY <2>1, <2>2 DEF LockHeld
<1>3. CASE Kill(p)
  BY <1>3 DEF Kill, Goto, IInv, LockHeld, Resting, TypeOK
<1>4. QED BY <1>1, <1>2, <1>3

LEMMA AtRestStep ==
  ASSUME IInv, NEW p \in Procs,
         Launch(p) \/ Recover(p) \/ Activate(p) \/ Restore(p) \/ Kill(p)
  PROVE  MemoryAtRest'
<1>1. CASE Launch(p)
  BY <1>1 DEF Launch, LaunchManaging, LaunchLazy, IInv, MemoryAtRest, Goto, TypeOK
<1>2. CASE Recover(p) \/ Activate(p) \/ Restore(p)
  <2>1. ASSUME NEW q \in Procs \ {p} PROVE previous'[q] = None
    BY <1>2, <2>1, ActorHoldsLock, OthersHoldNothing DEF OthersSame
  <2>2. previous'[p] # None => pc'[p] \in {"idle", "recovered"}
    <3>1. CASE Recover(p)
      BY <3>1 DEF Recover, RecoverNothing, RecoverTakeOver, RecoverDiscard, Goto, IInv,
                  MemoryAtRest, TypeOK
    <3>2. CASE Activate(p)
      BY <3>2 DEF Activate, ActivateNoTarget, ActivateAlready, ActivateScan, Activating,
                  SaveTruncate, SaveWrite, SaveFails, SwitchRole, Return, Goto, process, IInv,
                  MemoryAtRest, TypeOK
    <3>3. CASE Restore(p)
      BY <3>3 DEF Restore, RestoreNothing, RestoreKeepsUserChoice, RestoreBegin, RestoreRole,
                  RestoreEnd, Return, Goto, IInv, MemoryAtRest, TypeOK
    <3>4. QED BY <1>2, <3>1, <3>2, <3>3
  <2>3. QED BY <2>1, <2>2 DEF MemoryAtRest
<1>3. CASE Kill(p)
  BY <1>3 DEF Kill, Goto, IInv, MemoryAtRest, TypeOK
<1>4. QED BY <1>1, <1>2, <1>3

\* What MemoryOnDisk says of one process.
OnDisk(p) ==
  InFlight(p) # NoRoles =>
    /\ file # None
    /\ file.prev = InFlight(p)
    /\ file.target \in {None, target[p]}

LEMMA RecoverOnDisk ==
  ASSUME IInv, NEW p \in Procs, Recover(p)
  PROVE  OnDisk(p)'
<1>1. previous[p] = None /\ pc[p] = "recover"
  BY DEF Recover, RecoverNothing, RecoverTakeOver, RecoverDiscard, IInv, MemoryAtRest
<1>2. CASE RecoverNothing(p) \/ RecoverDiscard(p)
  <2>1. pc'[p] = "idle" /\ previous'[p] = None
    BY <1>1, <1>2 DEF RecoverNothing, RecoverDiscard, Goto, IInv, TypeOK
  <2>2. QED BY <2>1 DEF OnDisk, InFlight
<1>3. CASE RecoverTakeOver(p)
  <2>1. /\ pc'[p] = "recovered" /\ previous'[p] = file.prev /\ file' = file
        /\ target'[p] = RecoveryTarget(p) /\ file # None
    BY <1>3 DEF RecoverTakeOver, Goto, IInv, TypeOK
  <2>2. file.target \in {None, target'[p]}
    BY <2>1 DEF RecoveryTarget
  <2>3. file.prev # None
    BY <2>1, ConstantsOK DEF IInv, TypeOK, Record
  <2>4. QED BY <2>1, <2>2, <2>3 DEF OnDisk, InFlight
<1>4. QED BY <1>2, <1>3 DEF Recover

LEMMA ActivateOnDisk ==
  ASSUME IInv, NEW p \in Procs, Activate(p)
  PROVE  OnDisk(p)'
<1>0. OnDisk(p)
  BY DEF IInv, MemoryOnDisk, OnDisk
<1>1. CASE ActivateNoTarget(p)
  BY <1>0, <1>1 DEF ActivateNoTarget, process, OnDisk, InFlight
<1>2. CASE ActivateAlready(p)
  <2>1. pc'[p] = "idle" /\ previous'[p] = NoRoles
    BY <1>2 DEF ActivateAlready, Return, Goto, IInv, TypeOK
  <2>2. QED BY <2>1, NoRolesIsSome DEF OnDisk, InFlight
<1>3. CASE ActivateScan(p) \/ SaveTruncate(p)
  <2>1. pc'[p] \in {"save", "write"} /\ previous'[p] = None
    BY <1>3 DEF ActivateScan, Activating, SaveTruncate, Goto, IInv, TypeOK, MemoryAtRest
  <2>2. QED BY <2>1 DEF OnDisk, InFlight
<1>4. CASE SaveWrite(p)
  <2>1. /\ pc'[p] = "switch" /\ work'[p] = work[p] /\ target'[p] = target[p]
        /\ file' = [target |-> target[p], prev |-> work[p]]
    BY <1>4 DEF SaveWrite, Goto, IInv, TypeOK
  <2>2. file' # None
    BY <2>1, FileTypes, ConstantsOK DEF IInv, TypeOK
  <2>3. QED BY <2>1, <2>2 DEF OnDisk, InFlight
<1>5. CASE SaveFails(p)
  <2>1. pc'[p] = "idle" /\ previous'[p] = None
    BY <1>5 DEF SaveFails, Return, Goto, IInv, TypeOK
  <2>2. QED BY <2>1 DEF OnDisk, InFlight
<1>6. CASE SwitchRole(p)
  <2>1. InFlight(p) = work[p] /\ file' = file
    BY <1>6 DEF SwitchRole, InFlight
  <2>2. InFlight(p)' = work[p] /\ target'[p] = target[p]
    <3>1. CASE MoreRoles(p)
      BY <1>6, <3>1 DEF SwitchRole, InFlight
    <3>2. CASE ~MoreRoles(p)
      <4>1. Return(p, work[p], target[p])
        BY <1>6, <3>2 DEF SwitchRole
      <4>2. pc'[p] = "idle" /\ previous'[p] = work[p] /\ target'[p] = target[p]
        BY <4>1 DEF Return, Goto, IInv, TypeOK
      <4>3. work[p] # None
        BY ConstantsOK DEF IInv, TypeOK
      <4>4. QED BY <4>2, <4>3 DEF InFlight
    <3>3. QED BY <3>1, <3>2
  <2>3. QED BY <1>0, <2>1, <2>2 DEF OnDisk
<1>7. QED BY <1>1, <1>2, <1>3, <1>4, <1>5, <1>6 DEF Activate

LEMMA RestoreOnDisk ==
  ASSUME IInv, NEW p \in Procs, Restore(p)
  PROVE  OnDisk(p)'
<1>0. OnDisk(p)
  BY DEF IInv, MemoryOnDisk, OnDisk
<1>1. CASE RestoreNothing(p) \/ RestoreKeepsUserChoice(p) \/ RestoreEnd(p)
  <2>1. pc'[p] = "idle" /\ previous'[p] = None
    BY <1>1 DEF RestoreNothing, RestoreKeepsUserChoice, RestoreEnd, Return, Goto, IInv, TypeOK
  <2>2. QED BY <2>1 DEF OnDisk, InFlight
<1>2. CASE RestoreBegin(p)
  <2>1. InFlight(p) = previous[p]
    BY <1>2 DEF RestoreBegin, Restoring, InFlight
  <2>2. /\ pc'[p] = "restore" /\ work'[p] = previous[p] /\ file' = file
        /\ target'[p] = target[p]
    BY <1>2 DEF RestoreBegin, Goto, IInv, TypeOK
  <2>3. QED BY <1>0, <2>1, <2>2 DEF OnDisk, InFlight
<1>3. CASE RestoreRole(p)
  <2>1. pc'[p] \in {"restore", "cleanup"} /\ pc[p] = "restore"
    BY <1>3 DEF RestoreRole, Goto, IInv, TypeOK
  <2>2. work' = work /\ file' = file /\ target' = target
    BY <1>3 DEF RestoreRole
  <2>3. QED BY <1>0, <2>1, <2>2 DEF OnDisk, InFlight
<1>4. QED BY <1>1, <1>2, <1>3 DEF Restore

LEMMA OnDiskStep ==
  ASSUME IInv, NEW p \in Procs,
         Launch(p) \/ Recover(p) \/ Activate(p) \/ Restore(p) \/ Kill(p)
  PROVE  MemoryOnDisk'
<1>1. CASE Launch(p)
  <2>1. ASSUME NEW q \in Procs PROVE OnDisk(q)'
    <3>1. OnDisk(q)
      BY DEF IInv, MemoryOnDisk, OnDisk
    <3>2. InFlight(q)' = InFlight(q)
      BY <1>1, <2>1
      DEF Launch, LaunchManaging, LaunchLazy, InFlight, Goto, IInv, TypeOK, MemoryAtRest
    <3>3. file' = file /\ target' = target
      BY <1>1 DEF Launch, LaunchManaging, LaunchLazy
    <3>4. QED BY <3>1, <3>2, <3>3 DEF OnDisk
  <2>2. QED BY <2>1 DEF MemoryOnDisk, OnDisk
<1>2. CASE Recover(p) \/ Activate(p) \/ Restore(p)
  <2>1. OnDisk(p)'
    BY <1>2, RecoverOnDisk, ActivateOnDisk, RestoreOnDisk
  <2>2. ASSUME NEW q \in Procs \ {p} PROVE OnDisk(q)'
    BY <1>2, <2>2, OthersHoldNothing DEF OnDisk
  <2>3. QED BY <2>1, <2>2 DEF MemoryOnDisk, OnDisk
<1>3. CASE Kill(p)
  <2>1. InFlight(p)' = NoRoles
    BY <1>3 DEF Kill, Goto, InFlight, IInv, TypeOK
  <2>2. ASSUME NEW q \in Procs \ {p}
        PROVE  InFlight(q)' = InFlight(q) /\ target'[q] = target[q]
    BY <1>3, <2>2 DEF Kill, Goto, InFlight, IInv, TypeOK
  <2>3. file' = file
    BY <1>3 DEF Kill
  <2>4. QED BY <2>1, <2>2, <2>3 DEF MemoryOnDisk, IInv
<1>4. QED BY <1>1, <1>2, <1>3

LEMMA StepInv == IInv /\ [Next]_vars => IInv'
<1>1. ASSUME IInv, NEW p \in Procs, UNCHANGED world,
             Launch(p) \/ Recover(p) \/ Activate(p) \/ Restore(p) \/ Kill(p)
      PROVE  IInv'
  <2>1. TypeOK'
    BY <1>1, LaunchType, RecoverType, ActivateType, RestoreType, KillType DEF IInv
  <2>2. QED BY <1>1, <2>1, LockStep, AtRestStep, OnDiskStep DEF IInv
<1>2. ASSUME IInv, Environment, UNCHANGED world PROVE IInv'
  <2>1. UNCHANGED <<file, lock, process>>
    BY <1>2 DEF Environment, UserPicks, Unplug, PlugIn, ApiFlips, EnvironmentActs
  <2>2. LockHeld' /\ MemoryAtRest' /\ MemoryOnDisk'
    BY <1>2, <2>1 DEF IInv, process, LockHeld, MemoryAtRest, MemoryOnDisk, InFlight
  <2>3. QED BY <1>2, <2>2, EnvironmentType DEF IInv
<1>3. ASSUME IInv, UNCHANGED vars PROVE IInv'
  BY <1>3 DEF IInv, vars, windows, process, ghost, TypeOK, LockHeld, MemoryAtRest,
              MemoryOnDisk, InFlight
<1>4. QED BY <1>1, <1>2, <1>3 DEF Next

\* A process that works on the default microphone, or has switched it, holds the lock.
THEOREM LockIsHeld == Spec => []LockHeld
<1>1. IInv => LockHeld
  BY DEF IInv
<1>2. QED BY <1>1, InitInv, StepInv, PTL DEF Spec

\* Both, for the run that checks them together.
THEOREM AlwaysConsistent == Spec => []Consistent
BY TypeCorrect, LockIsHeld, PTL DEF Consistent

\* At every step, under every environment, the state file holds what a process would have to
\* give back if it were killed now.
THEOREM AlwaysRecoverable == Spec => []MemoryOnDisk
<1>1. IInv => MemoryOnDisk
  BY DEF IInv
<1>2. QED BY <1>1, InitInv, StepInv, PTL DEF Spec

(***************************************************************************)
(* Giving every device back.  Recorded, GivenBack, RecoveryCompletes and   *)
(* UserChoiceKept hold in the worlds that are sheltered from the cases the *)
(* README describes.                                                       *)
(***************************************************************************)

\* Nobody kills a process inside a restore pass (and none inside a pass of activate() where
\* IPolicyConfig can break), all processes look for the same cable c, which an old version used,
\* too, and the user does not pick it by hand.  Every conjunct is needed: the README says which
\* property fails without it.
Sheltered(c) ==
  /\ Orderly
  /\ "restore" \notin world.crash
  /\ world.breaks => "switch" \notin world.crash
  /\ \A p \in Procs : world.target[p] = c
  /\ world.legacy \subseteq {c} /\ c \notin world.picks

OnAll(c) == \A r \in Roles : default[r] = c

\* A restore pass gives back every role, or none.
CanGive(c) == apiOk /\ plugged \ {c} # {}

Devices ==
  /\ \A r \in Roles : IF plugged = {} THEN default[r] = None ELSE default[r] \in plugged
  /\ \A r \in Roles : chosen[r] \in plugged \cup {None}
  /\ ~world.breaks => apiOk

FileOf(c) == file # None => /\ file.target \in {None, c}
                            /\ \A r \in Roles : file.prev[r] # c

\* What is switched is on the cable and on record, what is not is where the user wants it.
OnRecord(c) == \A r \in switched : default[r] = c /\ file # None /\ file.prev[r] # None
Wishes == \A r \in Roles \ switched : chosen[r] \in {None, default[r]}

\* The record says what the user wants, unless the user has picked one device for all roles since.
Remembers == file # None =>
  \A r \in Roles : file.prev[r] # None => chosen[r] \in {None, file.prev[r]}
Uniform(c) ==
  /\ \A r \in Roles : default[r] = default["console"] /\ chosen[r] \in {None, default[r]}
  /\ default["console"] = c => \A r \in Roles : chosen[r] = None

\* Outside the passes: the role recovery looks at tells whether there is something to recover.
Settled(c) == switched # {} => /\ default["console"] = c
                               /\ "switch" \notin world.crash => OnAll(c)

Saving(p, c) ==
  switched = {} /\ c \in plugged /\ work[p] = Differing(c)

Switching(p, c) ==
  /\ c \in plugged /\ Remembers
  /\ ~apiOk => switched = {}
  /\ \A i \in 1..3 : i < next[p] => (apiOk => default[RoleAt[i]] = c)
  /\ \A i \in 1..3 : i >= next[p] =>
       /\ RoleAt[i] \notin switched
       /\ default[RoleAt[i]] # c => work[p][RoleAt[i]] # None

Giving(p, c) ==
  /\ work[p] # NoRoles /\ Remembers
  /\ CanGive(c) => allOk[p]
  /\ ~CanGive(c) => Settled(c)
  /\ allOk[p] => \A i \in 1..3 : i < next[p] \/ pc[p] = "cleanup" => RoleAt[i] \notin switched

\* The process that runs, where it is.
Doing(p, c) ==
  /\ pc[p] # "dead"
  /\ \A r \in Roles : work[p][r] # c
  /\ previous[p] # None \/ pc[p] \in {"save", "write", "switch", "restore", "cleanup"}
       => target[p] = c
  /\ pc[p] \notin {"switch", "restore", "cleanup"} => next[p] = 1 /\ allOk[p] = TRUE
  /\ pc[p] \in {"recover", "recovered", "idle"} => Settled(c)
  /\ pc[p] = "recovered" => previous[p] # NoRoles
  /\ pc[p] = "idle" /\ previous[p] \in {None, NoRoles} => (switched # {} => OnAll(c))
  /\ pc[p] \in {"save", "write"} => Saving(p, c)
  /\ pc[p] = "switch" => Switching(p, c)
  /\ pc[p] \in {"restore", "cleanup"} => Giving(p, c)

Reset(p) == /\ pc[p] = "dead" /\ previous[p] = None /\ work[p] = NoRoles
            /\ next[p] = 1 /\ allOk[p] = TRUE

Surroundings(c) ==
  /\ Devices /\ FileOf(c) /\ OnRecord(c) /\ Wishes
  /\ Remembers \/ Uniform(c)

\* In such a world only the process that holds the lock runs.
Running(c) ==
  /\ \A p \in Procs : IF lock = p THEN Doing(p, c) ELSE Reset(p)
  /\ lock = None => Settled(c)

SInv(c) == Surroundings(c) /\ Running(c)

LEMMA InitSInv == ASSUME NEW c \in Mics, Sheltered(c), Init PROVE SInv(c)
<1>0. c # None /\ world \in Worlds
  BY ConstantsOK DEF Init
<1>1. chosen \in [Roles -> Mics] /\ plugged = Mics /\ apiOk = TRUE /\ lock = None
  BY DEF Init
<1>2. \A p \in Procs : Reset(p) /\ lock # p
  BY ConstantsOK, <1>1 DEF Init, Reset
<1>3. CASE default = chosen /\ file = None /\ switched = {}
  <2>1. Devices
    BY <1>0, <1>1, <1>3 DEF Devices
  <2>2. FileOf(c) /\ OnRecord(c) /\ Wishes /\ Remembers /\ Settled(c)
    BY <1>3 DEF FileOf, OnRecord, Wishes, Remembers, Settled
  <2>3. QED BY <1>1, <1>2, <2>1, <2>2 DEF SInv, Surroundings, Running
<1>4. CASE \E t \in world.legacy :
             LET prev == [r \in Roles |-> IF chosen[r] = t THEN None ELSE chosen[r]] IN
             /\ prev # NoRoles
             /\ default = [r \in Roles |-> t]
             /\ file = [target |-> None, prev |-> prev]
             /\ switched = Remembered(prev)
  <2>. DEFINE prev == [r \in Roles |-> IF chosen[r] = c THEN None ELSE chosen[r]]
  <2>1. /\ default = [r \in Roles |-> c] /\ file = [target |-> None, prev |-> prev]
        /\ switched = Remembered(prev)
    BY <1>4 DEF Sheltered
  <2>2. file # None /\ file.target = None /\ file.prev = prev
    <3>1. prev \in Memory
      BY <1>1 DEF Memory
    <3>2. QED BY <2>1, <3>1, ConstantsOK DEF Record
  <2>3. \A r \in Roles : prev[r] # c /\ (prev[r] # None => prev[r] = chosen[r])
                         /\ (prev[r] = None => chosen[r] = c) /\ default[r] = c
    <3>1. ASSUME NEW r \in Roles
          PROVE  /\ prev[r] = IF chosen[r] = c THEN None ELSE chosen[r]
                 /\ chosen[r] \in Mics /\ default[r] = c
      BY <1>1, <2>1
    <3>2. QED BY <1>0, <3>1, ConstantsOK
  <2>4. Devices
    <3>1. \A r \in Roles : default[r] \in plugged BY <1>1, <2>1
    <3>2. \A r \in Roles : chosen[r] \in plugged BY <1>1
    <3>3. plugged # {} BY <1>1
    <3>4. QED BY <1>1, <3>1, <3>2, <3>3 DEF Devices
  <2>5. FileOf(c) /\ OnRecord(c) /\ Wishes /\ Remembers
    <3>1. FileOf(c) BY <1>0, <2>2, <2>3 DEF FileOf
    <3>2. OnRecord(c) BY <2>1, <2>2, <2>3 DEF OnRecord, Remembered
    <3>3. Wishes BY <2>1, <2>3 DEF Wishes, Remembered
    <3>4. Remembers BY <2>2, <2>3 DEF Remembers
    <3>5. QED BY <3>1, <3>2, <3>3, <3>4
  <2>6. Settled(c)
    BY <2>3 DEF Settled, OnAll, Roles
  <2>7. QED BY <1>1, <1>2, <2>4, <2>5, <2>6 DEF SInv, Surroundings, Running
<1>5. QED BY <1>3, <1>4 DEF Init

\* A step of a call is a step of the one process that runs; the others stay as they are.
LEMMA OnlyOneRuns ==
  ASSUME IInv, NEW c \in Mics, Running(c), NEW p \in Procs,
         Recover(p) \/ Activate(p) \/ Restore(p)
  PROVE  /\ lock = p /\ lock' = p /\ Doing(p, c)
         /\ \A q \in Procs \ {p} : Reset(q) /\ Reset(q)'
<1>1. lock = p
  <2>1. pc[p] # "dead"
    BY DEF Recover, RecoverNothing, RecoverTakeOver, RecoverDiscard, Activate, ActivateNoTarget,
           ActivateAlready, ActivateScan, Activating, SaveTruncate, SaveWrite, SaveFails,
           SwitchRole, Restore, RestoreNothing, RestoreKeepsUserChoice, RestoreBegin, Restoring,
           RestoreRole, RestoreEnd
  <2>2. QED BY <2>1 DEF Running, Reset
<1>2. lock' = p /\ OthersSame(p)
  BY ActorHoldsLock
<1>3. \A q \in Procs \ {p} : next'[q] = next[q] /\ allOk'[q] = allOk[q]
  <2>1. CASE Recover(p)
    BY <2>1 DEF Recover, RecoverNothing, RecoverTakeOver, RecoverDiscard
  <2>2. CASE Activate(p)
    <3>1. CASE ActivateNoTarget(p) \/ ActivateAlready(p) \/ ActivateScan(p)
      BY <3>1 DEF ActivateNoTarget, ActivateAlready, ActivateScan, Return, process, IInv, TypeOK
    <3>2. CASE SaveTruncate(p) \/ SaveWrite(p) \/ SaveFails(p)
      BY <3>2 DEF SaveTruncate, SaveWrite, SaveFails, Return, IInv, TypeOK
    <3>3. CASE SwitchRole(p)
      BY <3>3 DEF SwitchRole, Return, IInv, TypeOK
    <3>4. QED BY <2>2, <3>1, <3>2, <3>3 DEF Activate
  <2>3. CASE Restore(p)
    <3>1. CASE RestoreNothing(p) \/ RestoreKeepsUserChoice(p) \/ RestoreBegin(p)
      BY <3>1 DEF RestoreNothing, RestoreKeepsUserChoice, RestoreBegin, Return, IInv, TypeOK
    <3>2. CASE RestoreRole(p) \/ RestoreEnd(p)
      BY <3>2 DEF RestoreRole, RestoreEnd, Return, IInv, TypeOK
    <3>3. QED BY <2>3, <3>1, <3>2 DEF Restore
  <2>4. QED BY <2>1, <2>2, <2>3
<1>4. \A q \in Procs \ {p} : Reset(q)
  BY <1>1 DEF Running
<1>5. \A q \in Procs \ {p} : Reset(q)'
  BY <1>2, <1>3, <1>4 DEF OthersSame, Reset
<1>6. QED BY <1>1, <1>2, <1>4, <1>5 DEF Running

\* ... so a proof looks at that process and at what surrounds it.
LEMMA StepOfOne ==
  ASSUME IInv, NEW c \in Mics, Running(c), NEW p \in Procs,
         Recover(p) \/ Activate(p) \/ Restore(p), Surroundings(c)', Doing(p, c)'
  PROVE  SInv(c)'
<1>1. lock' = p /\ \A q \in Procs \ {p} : Reset(q)'
  BY OnlyOneRuns
<1>2. p # None
  BY ConstantsOK
<1>3. QED BY <1>1, <1>2 DEF SInv, Running

\* The end of a call.
LEMMA BackAtRest ==
  ASSUME TypeOK, NEW c \in Mics, NEW p \in Procs, NEW m \in Memory \cup {None},
         NEW t \in Mics \cup {None}, Return(p, m, t), m = None \/ t = c, Settled(c)',
         m \in {None, NoRoles} => (switched' # {} => OnAll(c)')
  PROVE  Doing(p, c)'
<1>1. /\ pc'[p] = "idle" /\ previous'[p] = m /\ target'[p] = t /\ work'[p] = NoRoles
      /\ next'[p] = 1 /\ allOk'[p] = TRUE
  BY DEF Return, Goto, TypeOK
<1>2. \A r \in Roles : NoRoles[r] # c
  BY ConstantsOK DEF NoRoles
<1>3. QED BY <1>1, <1>2 DEF Doing

\* What the surroundings say while neither files nor devices nor wishes change.
LEMMA NothingAround ==
  ASSUME NEW c \in Mics, Surroundings(c),
         UNCHANGED <<world, default, plugged, apiOk, file, chosen, switched>>
  PROVE  Surroundings(c)'
BY DEF Surroundings, Devices, FileOf, OnRecord, Wishes, Remembers, Uniform

\* With nothing switched the file may go, or stay where it cannot be deleted.
LEMMA FileMayGo ==
  ASSUME NEW c \in Mics, Surroundings(c), switched = {}, RemoveFile,
         UNCHANGED <<world, default, plugged, apiOk, chosen, switched>>
  PROVE  Surroundings(c)'
<1>1. CASE file' = None
  BY <1>1 DEF Surroundings, Devices, FileOf, OnRecord, Wishes, Remembers
<1>2. CASE file' = file
  BY <1>2, NothingAround
<1>3. QED BY <1>1, <1>2 DEF RemoveFile

\* A role that is switched is on the cable, which is then plugged in.
LEMMA CablePlugged ==
  ASSUME NEW c \in Mics, TypeOK, Devices, OnRecord(c), switched # {}
  PROVE  c \in plugged
<1>1. PICK r \in switched : default[r] = c /\ r \in Roles
  BY DEF OnRecord, TypeOK
<1>2. QED BY <1>1, ConstantsOK DEF Devices

(***************************************************************************)
(* Recovery                                                                *)
(***************************************************************************)

\* A start that discards the file has nothing to recover.
LEMMA DiscardIsSafe ==
  ASSUME IInv, NEW c \in Mics, Sheltered(c), SInv(c), NEW p \in Procs, RecoverDiscard(p)
  PROVE  switched = {}
<1> SUFFICES ASSUME switched # {} PROVE FALSE
  OBVIOUS
<1>1. Settled(c) /\ default["console"] = c
  <2>1. Doing(p, c)
    BY OnlyOneRuns DEF SInv, Recover
  <2>2. QED BY <2>1 DEF Doing, RecoverDiscard, Settled
<1>2. c \in plugged /\ c # None
  BY CablePlugged, ConstantsOK DEF SInv, Surroundings, IInv
<1>3. RecoveryTarget(p) = c
  BY <1>2 DEF SInv, Surroundings, FileOf, RecoverDiscard, RecoveryTarget, FindCapture, Sheltered
<1>4. file.prev # NoRoles
  <2>1. PICK r \in switched : file.prev[r] # None
    BY DEF SInv, Surroundings, OnRecord
  <2>2. r \in Roles
    BY <2>1 DEF IInv, TypeOK
  <2>3. QED BY <2>1, <2>2 DEF NoRoles
<1>5. QED BY <1>1, <1>2, <1>3, <1>4 DEF RecoverDiscard, TargetIsDefault

LEMMA RecoverStep ==
  ASSUME IInv, NEW c \in Mics, Sheltered(c), SInv(c), NEW p \in Procs, Recover(p),
         UNCHANGED world
  PROVE  SInv(c)'
<1>1. Doing(p, c) /\ previous[p] = None /\ pc[p] = "recover"
  BY OnlyOneRuns
  DEF SInv, Recover, RecoverNothing, RecoverTakeOver, RecoverDiscard, IInv, MemoryAtRest
<1>2. next[p] = 1 /\ allOk[p] = TRUE /\ Settled(c) /\ \A r \in Roles : work[p][r] # c
  BY <1>1 DEF Doing
<1>3. UNCHANGED <<default, plugged, apiOk, chosen, switched, next, allOk, work>>
  BY DEF Recover, RecoverNothing, RecoverTakeOver, RecoverDiscard, windows, ghost
<1>4. Settled(c)'
  BY <1>2, <1>3 DEF Settled, OnAll
<1>5. CASE RecoverTakeOver(p)
  <2>1. /\ pc'[p] = "recovered" /\ previous'[p] = file.prev /\ file.prev # NoRoles
        /\ target'[p] = RecoveryTarget(p) /\ RecoveryTarget(p) # None
        /\ file # None /\ UNCHANGED file
    BY <1>5 DEF RecoverTakeOver, TargetIsDefault, Goto, IInv, TypeOK
  <2>2. RecoveryTarget(p) = c
    BY <2>1 DEF SInv, Surroundings, FileOf, RecoveryTarget, FindCapture, Sheltered
  <2>3. Doing(p, c)'
    BY <1>2, <1>3, <1>4, <2>1, <2>2 DEF Doing
  <2>4. Surroundings(c)'
    BY <1>3, <2>1, NothingAround DEF SInv
  <2>5. QED BY <2>3, <2>4, StepOfOne DEF SInv
<1>6. CASE RecoverNothing(p) \/ RecoverDiscard(p)
  <2>1. switched = {}
    BY <1>6, DiscardIsSafe DEF RecoverNothing, SInv, Surroundings, OnRecord
  <2>2. /\ pc'[p] = "idle" /\ previous'[p] = None
        /\ RemoveFile \/ UNCHANGED file
    BY <1>1, <1>6 DEF RecoverNothing, RecoverDiscard, Goto, IInv, TypeOK
  <2>3. Doing(p, c)'
    BY <1>2, <1>3, <1>4, <2>1, <2>2 DEF Doing
  <2>4. Surroundings(c)'
    BY <1>3, <2>1, <2>2, FileMayGo, NothingAround DEF SInv
  <2>5. QED BY <2>3, <2>4, StepOfOne DEF SInv
<1>7. QED BY <1>5, <1>6 DEF Recover

(***************************************************************************)
(* Activation                                                              *)
(***************************************************************************)

\* With the cable plugged in, whatever is not remembered is on the cable.
LEMMA DifferingSays ==
  ASSUME NEW c \in Mics, TypeOK, Devices, c \in plugged, NEW r \in Roles
  PROVE  /\ Differing(c)[r] # c /\ (Differing(c)[r] # None <=> default[r] # c)
         /\ Differing(c)[r] # None => Differing(c)[r] = default[r]
<1>1. c # None /\ default[r] # None
  BY ConstantsOK DEF Devices, TypeOK
<1>2. Differing(c)[r] = IF default[r] = c THEN None ELSE default[r]
  BY DEF Differing
<1>3. QED BY <1>1, <1>2

LEMMA ActivateStarts ==
  ASSUME IInv, NEW c \in Mics, Sheltered(c), SInv(c), NEW p \in Procs, UNCHANGED world,
         ActivateNoTarget(p) \/ ActivateAlready(p) \/ ActivateScan(p)
  PROVE  SInv(c)'
<1>0. Activate(p)
  BY DEF Activate
<1>1. Doing(p, c) /\ lock = p /\ lock' = p
  BY <1>0, OnlyOneRuns DEF SInv
<1>2. pc[p] = "idle" /\ previous[p] = None /\ world.target[p] = c
  BY DEF ActivateNoTarget, ActivateAlready, ActivateScan, Activating, Sheltered
<1>3. /\ next[p] = 1 /\ allOk[p] = TRUE /\ Settled(c) /\ (switched # {} => OnAll(c))
  BY <1>1, <1>2 DEF Doing
<1>4. UNCHANGED <<default, plugged, apiOk, file, chosen, switched>>
  BY DEF ActivateNoTarget, ActivateAlready, ActivateScan, windows, ghost
<1>5. Surroundings(c)'
  BY <1>4, NothingAround DEF SInv
<1>6. TypeOK /\ Devices
  BY DEF SInv, Surroundings, IInv
<1>7. CASE ActivateNoTarget(p)
  <2>1. UNCHANGED <<pc, previous, target, work, next, allOk, lock>>
    BY <1>1, <1>7 DEF ActivateNoTarget, process
  <2>2. Doing(p, c)'
    BY <1>1, <1>2, <1>3, <1>4, <2>1 DEF Doing, Settled, OnAll
  <2>3. QED BY <1>0, <1>5, <2>2, StepOfOne DEF SInv
<1>8. CASE ActivateAlready(p)
  <2>1. c \in plugged /\ Differing(c) = NoRoles /\ Return(p, NoRoles, c)
    BY <1>2, <1>8 DEF ActivateAlready
  <2>2. OnAll(c)
    BY <1>6, <2>1, DifferingSays DEF OnAll, NoRoles
  <2>3. OnAll(c)' /\ Settled(c)'
    BY <1>3, <1>4, <2>2 DEF OnAll, Settled
  <2>4. Doing(p, c)'
    BY <2>1, <2>3, NoRolesIsMemory, BackAtRest DEF IInv
  <2>5. QED BY <1>0, <1>5, <2>4, StepOfOne DEF SInv
<1>9. CASE ActivateScan(p)
  <2>1. /\ c \in plugged /\ Differing(c) # NoRoles
        /\ pc'[p] = "save" /\ work'[p] = Differing(c) /\ target'[p] = c
        /\ previous'[p] = None /\ next'[p] = 1 /\ allOk'[p] = TRUE
    BY <1>2, <1>3, <1>9 DEF ActivateScan, Goto, IInv, TypeOK
  <2>2. switched = {}
    <3>1. OnAll(c) => Differing(c) = NoRoles
      BY DEF OnAll, Differing, NoRoles
    <3>2. QED BY <1>3, <2>1, <3>1
  <2>3. Saving(p, c)'
    BY <1>4, <2>1, <2>2 DEF Saving, Differing
  <2>4. \A r \in Roles : work'[p][r] # c
    BY <1>6, <2>1, DifferingSays
  <2>5. Doing(p, c)'
    BY <2>1, <2>3, <2>4 DEF Doing
  <2>6. QED BY <1>0, <1>5, <2>5, StepOfOne DEF SInv
<1>10. QED BY <1>7, <1>8, <1>9

LEMMA SaveStep ==
  ASSUME IInv, NEW c \in Mics, Sheltered(c), SInv(c), NEW p \in Procs, UNCHANGED world,
         SaveTruncate(p) \/ SaveWrite(p) \/ SaveFails(p)
  PROVE  SInv(c)'
<1>0. Activate(p)
  BY DEF Activate
<1>1. Doing(p, c) /\ pc[p] \in {"save", "write"}
  BY <1>0, OnlyOneRuns DEF SInv, SaveTruncate, SaveWrite, SaveFails
<1>2. /\ next[p] = 1 /\ allOk[p] = TRUE /\ target[p] = c /\ switched = {} /\ c \in plugged
      /\ work[p] = Differing(c) /\ \A r \in Roles : work[p][r] # c
  BY <1>1 DEF Doing, Saving
<1>3. previous[p] = None
  BY <1>1 DEF IInv, MemoryAtRest
<1>4. UNCHANGED <<default, plugged, apiOk, chosen, switched>>
  BY DEF SaveTruncate, SaveWrite, SaveFails, windows, ghost
<1>5. Devices' /\ Wishes' /\ OnRecord(c)' /\ Settled(c)'
  BY <1>2, <1>4 DEF SInv, Surroundings, Devices, Wishes, OnRecord, Settled
<1>6. c # None /\ TypeOK /\ Devices /\ Wishes
  BY ConstantsOK DEF SInv, Surroundings, IInv
<1>7. CASE SaveTruncate(p)
  <2>1. /\ pc'[p] = "write" /\ file' = [target |-> None, prev |-> NoRoles]
        /\ UNCHANGED <<previous, target, work, next, allOk>>
    BY <1>7 DEF SaveTruncate, Goto, IInv, TypeOK
  <2>2. file'.target = None /\ \A r \in Roles : file'.prev[r] = None
    BY <2>1 DEF NoRoles
  <2>3. FileOf(c)' /\ Remembers'
    BY <1>6, <2>2 DEF FileOf, Remembers
  <2>4. Doing(p, c)'
    BY <1>2, <1>3, <1>4, <2>1 DEF Doing, Saving, Differing
  <2>5. QED BY <1>0, <1>5, <2>3, <2>4, StepOfOne DEF SInv, Surroundings
<1>8. CASE SaveWrite(p)
  <2>1. /\ pc'[p] = "switch" /\ file' = [target |-> c, prev |-> work[p]]
        /\ UNCHANGED <<previous, target, work, next, allOk>>
    BY <1>2, <1>8 DEF SaveWrite, Goto, IInv, TypeOK
  <2>2. \A r \in Roles : /\ work[p][r] # None <=> default[r] # c
                         /\ work[p][r] # None => work[p][r] = default[r]
    BY <1>2, <1>6, DifferingSays
  <2>3. FileOf(c)'
    BY <1>2, <2>1 DEF FileOf
  <2>4. Remembers'
    BY <1>2, <1>4, <1>6, <2>1, <2>2 DEF Remembers, Wishes
  <2>5. Switching(p, c)'
    <3>1. next'[p] = 1 /\ switched' = {} /\ c \in plugged'
      BY <1>2, <1>4, <2>1
    <3>2. \A i \in 1..3 : default'[RoleAt[i]] # c => work'[p][RoleAt[i]] # None
      BY <1>4, <2>1, <2>2, RoleAtType
    <3>3. \A i \in 1..3 : ~(i < next'[p])
      BY <3>1
    <3>4. QED BY <2>4, <3>1, <3>2, <3>3 DEF Switching
  <2>6. Doing(p, c)'
    BY <1>2, <1>3, <2>1, <2>5 DEF Doing
  <2>7. QED BY <1>0, <1>5, <2>3, <2>4, <2>6, StepOfOne DEF SInv, Surroundings
<1>9. CASE SaveFails(p)
  <2>1. Return(p, None, None) /\ UNCHANGED file
    BY <1>9 DEF SaveFails
  <2>2. Doing(p, c)'
    BY <1>2, <1>4, <1>5, <2>1, BackAtRest DEF IInv
  <2>3. Surroundings(c)'
    BY <1>4, <2>1, NothingAround DEF SInv
  <2>4. QED BY <1>0, <2>2, <2>3, StepOfOne DEF SInv
<1>10. QED BY <1>7, <1>8, <1>9

\* The pass over the roles: a role is switched, or nothing works and nothing was switched.
LEMMA SwitchesRole ==
  ASSUME IInv, NEW c \in Mics, Sheltered(c), SInv(c), NEW p \in Procs, SwitchRole(p),
         NEW r, r = RoleAt[next[p]]
  PROVE  /\ r \in Roles /\ pc[p] = "switch" /\ Switching(p, c) /\ target[p] = c
         /\ apiOk => /\ default' = [default EXCEPT ![r] = c]
                     /\ switched' = IF default[r] # c THEN switched \cup {r} ELSE switched
         /\ ~apiOk => default' = default /\ switched' = {} /\ switched = {}
         /\ UNCHANGED <<plugged, apiOk, file, chosen>>
<1>1. pc[p] = "switch" /\ Doing(p, c)
  BY OnlyOneRuns DEF SInv, Activate, SwitchRole
<1>2. Switching(p, c) /\ target[p] = c
  BY <1>1 DEF Doing
<1>3. r \in Roles
  BY RoleAtType DEF IInv, TypeOK
<1>4. PICK ok \in BOOLEAN :
        /\ SetDefault(p, target[p], r, ok)
        /\ switched' = IF ok /\ default[r] # target[p] THEN switched \cup {r} ELSE switched
  BY DEF SwitchRole
<1>5. ok <=> apiOk
  <2>1. ~CallFault(p)
    BY <1>1 DEF CallFault, Sheltered, Orderly
  <2>2. QED BY <1>2, <1>4, <2>1 DEF SetDefault, CanSet, Switching
<1>6. /\ ok => default' = [default EXCEPT ![r] = c]
      /\ ~ok => default' = default
  BY <1>2, <1>4 DEF SetDefault
<1>7. UNCHANGED <<plugged, apiOk, file, chosen>>
  BY DEF SwitchRole
<1>8. ~apiOk => switched = {}
  BY <1>2 DEF Switching
<1>9. QED BY <1>1, <1>2, <1>3, <1>4, <1>5, <1>6, <1>7, <1>8

LEMMA RolesApart ==
  /\ \A i, j \in 1..3 : i # j => RoleAt[i] # RoleAt[j]
  /\ \A r \in Roles : \E i \in 1..3 : r = RoleAt[i]
  /\ RoleAt[1] = "console"
BY DEF RoleAt, Roles

LEMMA SwitchSurrounds ==
  ASSUME IInv, NEW c \in Mics, Sheltered(c), SInv(c), NEW p \in Procs, SwitchRole(p),
         UNCHANGED world
  PROVE  Surroundings(c)' /\ Remembers'
<1>. DEFINE r == RoleAt[next[p]]
<1>1. /\ r \in Roles /\ pc[p] = "switch" /\ Switching(p, c)
      /\ apiOk => /\ default' = [default EXCEPT ![r] = c]
                  /\ switched' = IF default[r] # c THEN switched \cup {r} ELSE switched
      /\ ~apiOk => default' = default /\ switched' = {} /\ switched = {}
      /\ UNCHANGED <<plugged, apiOk, file, chosen>>
  BY SwitchesRole
<1>2. /\ c \in plugged /\ Remembers /\ next[p] \in 1..3
      /\ default[r] # c => work[p][r] # None
  <2>1. next[p] \in 1..3 /\ next[p] >= next[p]
    BY DEF IInv, TypeOK
  <2>2. \A i \in 1..3 : i >= next[p] => (default[RoleAt[i]] # c => work[p][RoleAt[i]] # None)
    BY <1>1 DEF Switching
  <2>3. default[r] # c => work[p][r] # None
    BY <2>1, <2>2
  <2>4. QED BY <1>1, <2>1, <2>3 DEF Switching
<1>3. Surroundings(c) /\ default \in Memory /\ switched \subseteq Roles
  BY DEF SInv, IInv, TypeOK
<1>4. Remembers'
  BY <1>1, <1>2 DEF Remembers
<1>5. CASE ~apiOk
  <2>1. UNCHANGED switched
    BY <1>1, <1>5
  <2>2. QED BY <1>1, <1>3, <1>4, <1>5, <2>1, NothingAround
<1>6. CASE apiOk
  <2>1. /\ default' = [default EXCEPT ![r] = c]
        /\ switched' = IF default[r] # c THEN switched \cup {r} ELSE switched
    BY <1>1, <1>6
  <2>2. default'[r] = c /\ \A q \in Roles \ {r} : default'[q] = default[q]
    BY <1>1, <1>3, <2>1 DEF Memory
  <2>3. Devices'
    BY <1>1, <1>2, <1>3, <2>2 DEF Surroundings, Devices
  <2>4. FileOf(c)'
    BY <1>1, <1>3 DEF Surroundings, FileOf
  <2>5. default[r] # c => file # None /\ file.prev[r] # None
    <3>1. SUFFICES ASSUME default[r] # c PROVE file # None /\ file.prev[r] # None
      OBVIOUS
    <3>2. work[p][r] # None /\ work[p] # NoRoles /\ InFlight(p) = work[p]
      BY <1>1, <1>2, <3>1 DEF NoRoles, InFlight
    <3>3. QED BY <3>2 DEF IInv, MemoryOnDisk
  <2>6. OnRecord(c)'
    <3>1. ASSUME NEW q \in switched' PROVE default'[q] = c /\ file # None /\ file.prev[q] # None
      <4>1. CASE q = r /\ default[r] # c
        BY <2>2, <2>5, <4>1
      <4>2. CASE q \in switched
        BY <1>3, <2>2, <4>2 DEF Surroundings, OnRecord
      <4>3. QED BY <2>1, <3>1, <4>1, <4>2
    <3>2. QED BY <1>1, <3>1 DEF OnRecord
  <2>7. Wishes'
    <3>1. ASSUME NEW q \in Roles \ switched' PROVE chosen[q] \in {None, default'[q]}
      <4>1. q \notin switched /\ default'[q] = default[q]
        BY <1>1, <2>1, <2>2, <3>1
      <4>2. QED BY <1>3, <4>1, <3>1 DEF Surroundings, Wishes
    <3>2. QED BY <1>1, <3>1 DEF Wishes
  <2>8. QED BY <1>4, <2>3, <2>4, <2>6, <2>7 DEF Surroundings
<1>7. QED BY <1>5, <1>6

LEMMA SwitchStep ==
  ASSUME IInv, NEW c \in Mics, Sheltered(c), SInv(c), NEW p \in Procs, SwitchRole(p),
         UNCHANGED world
  PROVE  SInv(c)'
<1>. DEFINE n == next[p]
            r == RoleAt[next[p]]
<1>0. Activate(p)
  BY DEF Activate
<1>1. /\ r \in Roles /\ pc[p] = "switch" /\ Switching(p, c) /\ target[p] = c
      /\ apiOk => /\ default' = [default EXCEPT ![r] = c]
                  /\ switched' = IF default[r] # c THEN switched \cup {r} ELSE switched
      /\ ~apiOk => default' = default /\ switched' = {} /\ switched = {}
      /\ UNCHANGED <<plugged, apiOk, file, chosen>>
  BY SwitchesRole
<1>2. Surroundings(c)' /\ Remembers'
  BY SwitchSurrounds
<1>3. Doing(p, c) /\ previous[p] = None /\ \A q \in Roles : work[p][q] # c
  <2>1. Doing(p, c)
    BY <1>0, OnlyOneRuns DEF SInv
  <2>2. QED BY <1>1, <2>1 DEF Doing, IInv, MemoryAtRest
<1>4. n \in 1..3 /\ default \in Memory /\ work[p] \in Memory /\ c # None
  BY ConstantsOK DEF IInv, TypeOK
<1>5. ASSUME apiOk PROVE \A i \in 1..3 : i <= n => default'[RoleAt[i]] = c
  <2> SUFFICES ASSUME NEW i \in 1..3, i <= n PROVE default'[RoleAt[i]] = c
    OBVIOUS
  <2>1. CASE i = n
    BY <1>1, <1>4, <1>5, <2>1 DEF Memory
  <2>2. CASE i < n
    <3>1. default[RoleAt[i]] = c /\ RoleAt[i] # r /\ RoleAt[i] \in Roles
      BY <1>1, <1>4, <1>5, <2>2, RolesApart, RoleAtType DEF Switching
    <3>2. QED BY <1>1, <1>4, <1>5, <3>1 DEF Memory
  <2>3. QED BY <1>4, <2>1, <2>2
<1>6. CASE MoreRoles(p)
  <2>1. /\ next'[p] = n + 1 /\ UNCHANGED <<pc, previous, target, work, allOk>> /\ n < 3
    BY <1>6, <1>4 DEF SwitchRole, MoreRoles, IInv, TypeOK
  <2>2. \A i \in 1..3 : i < next'[p] => (apiOk' => default'[RoleAt[i]] = c)
    BY <1>1, <1>4, <1>5, <2>1
  <2>3. ASSUME NEW i \in 1..3, i >= next'[p]
        PROVE  /\ RoleAt[i] \notin switched'
               /\ default'[RoleAt[i]] # c => work[p][RoleAt[i]] # None
    <3>1. /\ i >= n /\ RoleAt[i] # r /\ RoleAt[i] \in Roles
      BY <1>4, <2>1, <2>3, RolesApart, RoleAtType
    <3>2. /\ RoleAt[i] \notin switched
          /\ default[RoleAt[i]] # c => work[p][RoleAt[i]] # None
      BY <1>1, <3>1 DEF Switching
    <3>3. default'[RoleAt[i]] = default[RoleAt[i]] /\ RoleAt[i] \notin switched'
      BY <1>1, <1>4, <3>1, <3>2 DEF Memory
    <3>4. QED BY <3>2, <3>3
  <2>4. c \in plugged' /\ (~apiOk' => switched' = {})
    BY <1>1 DEF Switching
  <2>5. Switching(p, c)'
    BY <1>2, <2>1, <2>2, <2>3, <2>4 DEF Switching
  <2>6. Doing(p, c)'
    BY <1>1, <1>3, <2>1, <2>5 DEF Doing
  <2>7. QED BY <1>0, <1>2, <2>6, StepOfOne DEF SInv
<1>7. CASE ~MoreRoles(p)
  <2>1. Return(p, work[p], c) /\ n = 3
    BY <1>1, <1>4, <1>7 DEF SwitchRole, MoreRoles
  <2>2. switched' # {} => OnAll(c)'
    <3>1. ASSUME apiOk PROVE OnAll(c)'
      BY <1>5, <2>1, <3>1, RolesApart DEF OnAll
    <3>2. QED BY <1>1, <3>1
  <2>3. Settled(c)'
    BY <2>2 DEF Settled, OnAll, Roles
  <2>4. Doing(p, c)'
    BY <1>4, <2>1, <2>2, <2>3, BackAtRest DEF IInv
  <2>5. QED BY <1>0, <1>2, <2>4, StepOfOne DEF SInv
<1>8. QED BY <1>6, <1>7

(***************************************************************************)
(* Restoring                                                               *)
(***************************************************************************)

\* What a restore remembers is what is on record.
LEMMA WorkIsOnRecord ==
  ASSUME IInv, NEW c \in Mics, SInv(c), NEW p \in Procs,
         pc[p] \in {"restore", "cleanup"}, Doing(p, c)
  PROVE  /\ Giving(p, c) /\ file # None /\ file.prev = work[p] /\ target[p] = c
         /\ \A r \in Roles : work[p][r] # c
<1>1. Giving(p, c) /\ target[p] = c /\ \A r \in Roles : work[p][r] # c
  BY DEF Doing
<1>2. InFlight(p) = work[p] /\ work[p] # NoRoles
  BY <1>1 DEF InFlight, Giving
<1>3. QED BY <1>1, <1>2 DEF IInv, MemoryOnDisk

LEMMA RestoreStarts ==
  ASSUME IInv, NEW c \in Mics, Sheltered(c), SInv(c), NEW p \in Procs, UNCHANGED world,
         RestoreNothing(p) \/ RestoreKeepsUserChoice(p) \/ RestoreBegin(p)
  PROVE  SInv(c)'
<1>0. Restore(p)
  BY DEF Restore
<1>1. Doing(p, c) /\ pc[p] \in {"idle", "recovered"} /\ previous[p] # None
  BY <1>0, OnlyOneRuns
  DEF SInv, RestoreNothing, RestoreKeepsUserChoice, RestoreBegin, Restoring
<1>2. Settled(c) /\ target[p] = c /\ next[p] = 1 /\ allOk[p] = TRUE
  BY <1>1 DEF Doing
<1>3. UNCHANGED <<default, plugged, apiOk, chosen, switched>>
  BY DEF RestoreNothing, RestoreKeepsUserChoice, RestoreBegin, windows, ghost
<1>4. Settled(c)' /\ TypeOK /\ c # None
  BY <1>2, <1>3, ConstantsOK DEF Settled, OnAll, IInv
<1>5. CASE RestoreNothing(p)
  <2>1. Return(p, None, None) /\ previous[p] = NoRoles /\ UNCHANGED file
    BY <1>5 DEF RestoreNothing
  <2>2. switched # {} => OnAll(c)
    BY <1>1, <2>1 DEF Doing
  <2>3. switched' # {} => OnAll(c)'
    BY <1>3, <2>2 DEF OnAll
  <2>4. Doing(p, c)'
    BY <1>4, <2>1, <2>3, BackAtRest
  <2>5. Surroundings(c)'
    BY <1>3, <2>1, NothingAround DEF SInv
  <2>6. QED BY <1>0, <2>4, <2>5, StepOfOne DEF SInv
<1>6. CASE RestoreKeepsUserChoice(p)
  <2>1. Return(p, None, None) /\ ~StillDefault(p) /\ RemoveFile
    BY <1>6 DEF RestoreKeepsUserChoice
  <2>2. switched = {}
    BY <1>2, <2>1 DEF Settled, StillDefault
  <2>3. Doing(p, c)'
    BY <1>3, <1>4, <2>1, <2>2, BackAtRest
  <2>4. Surroundings(c)'
    BY <1>3, <2>1, <2>2, FileMayGo DEF SInv
  <2>5. QED BY <1>0, <2>3, <2>4, StepOfOne DEF SInv
<1>7. CASE RestoreBegin(p)
  <2>1. /\ previous[p] # NoRoles /\ StillDefault(p) /\ UNCHANGED file
        /\ pc'[p] = "restore" /\ work'[p] = previous[p] /\ previous'[p] = None
        /\ UNCHANGED <<target, next, allOk>>
    BY <1>4, <1>7 DEF RestoreBegin, Goto, TypeOK
  <2>2. InFlight(p) = previous[p]
    BY <1>1 DEF InFlight
  <2>3. file # None /\ file.prev = previous[p]
    BY <2>1, <2>2 DEF IInv, MemoryOnDisk
  <2>4. \A r \in Roles : previous[p][r] # c
    BY <2>3 DEF SInv, Surroundings, FileOf
  <2>5. Surroundings(c)'
    BY <1>3, <2>1, NothingAround DEF SInv
  <2>6. Remembers
    <3>1. ASSUME Uniform(c) PROVE \A r \in Roles : chosen[r] = None
      <4>1. default["console"] \in {c, None}
        BY <1>2, <2>1 DEF StillDefault
      <4>2. QED BY <3>1, <4>1 DEF Uniform
    <3>2. QED BY <3>1 DEF SInv, Surroundings, Remembers
  <2>7. Giving(p, c)'
    <3>1. Remembers' /\ \A i \in 1..3 : ~(i < next'[p])
      BY <1>2, <1>3, <2>1, <2>6 DEF Remembers
    <3>2. QED BY <1>2, <1>4, <2>1, <3>1 DEF Giving
  <2>8. Doing(p, c)'
    BY <1>2, <2>1, <2>4, <2>7 DEF Doing
  <2>9. QED BY <1>0, <2>5, <2>8, StepOfOne DEF SInv
<1>8. QED BY <1>5, <1>6, <1>7

\* A role is given back, to the remembered device if that is there, or nothing can be given.
LEMMA GivesRole ==
  ASSUME IInv, NEW c \in Mics, Sheltered(c), SInv(c), NEW p \in Procs, RestoreRole(p),
         NEW r, r = RoleAt[next[p]]
  PROVE  /\ r \in Roles /\ pc[p] = "restore" /\ Doing(p, c)
         /\ work[p][r] = None \/ ~CanGive(c) => UNCHANGED <<default, switched>>
         /\ work[p][r] # None /\ CanGive(c) =>
              /\ switched' = switched \ {r}
              /\ \E d \in plugged : /\ d = work[p][r] \/ work[p][r] \notin plugged
                                    /\ default' = [default EXCEPT ![r] = d]
         /\ allOk' = [allOk EXCEPT ![p] = @ /\ (work[p][r] = None \/ CanGive(c))]
<1>1. pc[p] = "restore" /\ Doing(p, c)
  BY OnlyOneRuns DEF SInv, Restore, RestoreRole
<1>2. /\ target[p] = c /\ r \in Roles /\ work[p][r] # c
  BY <1>1, WorkIsOnRecord, RoleAtType DEF IInv, TypeOK
<1>3. PICK ok \in BOOLEAN :
        /\ GiveBack(p, r, ok)
        /\ allOk' = [allOk EXCEPT ![p] = @ /\ ok]
        /\ switched' = IF ok /\ work[p][r] # None THEN switched \ {r} ELSE switched
  BY DEF RestoreRole
<1>4. ~CallFault(p)
  BY <1>1 DEF Sheltered, Orderly, CallFault
<1>5. ASSUME NEW m, NEW b \in BOOLEAN, SetDefault(p, m, r, b)
      PROVE  /\ b <=> CanSet(m)
             /\ b => default' = [default EXCEPT ![r] = m]
             /\ ~b => UNCHANGED default
  BY <1>4, <1>5 DEF SetDefault
<1>6. CASE work[p][r] = None
  <2>1. ok = TRUE /\ UNCHANGED default
    BY <1>3, <1>6 DEF GiveBack
  <2>2. QED BY <1>1, <1>2, <1>3, <1>6, <2>1
<1>7. CASE work[p][r] # None /\ ok = TRUE /\ SetDefault(p, work[p][r], r, TRUE)
  <2>1. CanSet(work[p][r]) /\ default' = [default EXCEPT ![r] = work[p][r]]
    BY <1>5, <1>7
  <2>2. work[p][r] \in plugged /\ CanGive(c)
    BY <1>2, <2>1 DEF CanSet, CanGive
  <2>3. QED BY <1>1, <1>2, <1>3, <1>7, <2>1, <2>2
<1>8. CASE /\ work[p][r] # None /\ ~CanSet(work[p][r])
           /\ \E f \in plugged \ {c} : SetDefault(p, f, r, ok)
  <2>1. PICK f \in plugged \ {c} : SetDefault(p, f, r, ok)
    BY <1>8
  <2>2. ok <=> CanGive(c)
    <3>1. ok <=> CanSet(f)
      BY <1>5, <2>1
    <3>2. QED BY <2>1, <3>1 DEF CanSet, CanGive
  <2>3. ok => default' = [default EXCEPT ![r] = f] /\ work[p][r] \notin plugged
    <3>1. ok => default' = [default EXCEPT ![r] = f]
      BY <1>5, <2>1
    <3>2. ok => apiOk
      BY <2>2 DEF CanGive
    <3>3. QED BY <1>8, <3>1, <3>2 DEF CanSet
  <2>4. ~ok => UNCHANGED default
    BY <1>5, <2>1
  <2>5. QED BY <1>1, <1>2, <1>3, <1>8, <2>1, <2>2, <2>3, <2>4
<1>9. CASE work[p][r] # None /\ plugged \ {c} = {} /\ ok = FALSE /\ UNCHANGED default
  BY <1>1, <1>2, <1>3, <1>9 DEF CanGive
<1>10. QED BY <1>2, <1>3, <1>4, <1>6, <1>7, <1>8, <1>9 DEF GiveBack

\* restore() never overwrites the device the user wants for a role.
LEMMA GivesWhatIsWanted ==
  ASSUME IInv, NEW c \in Mics, Sheltered(c), SInv(c), NEW p \in Procs, RestoreRole(p)
  PROVE  /\ \A r \in Roles : default[r] = chosen[r] => default'[r] = default[r]
         /\ \A r \in Roles \ switched' : chosen[r] \in {None, default'[r]}
<1>. DEFINE q == RoleAt[next[p]]
<1>1. /\ q \in Roles /\ pc[p] = "restore" /\ Doing(p, c)
      /\ work[p][q] = None \/ ~CanGive(c) => UNCHANGED <<default, switched>>
      /\ work[p][q] # None /\ CanGive(c) =>
           /\ switched' = switched \ {q}
           /\ \E d \in plugged : /\ d = work[p][q] \/ work[p][q] \notin plugged
                                 /\ default' = [default EXCEPT ![q] = d]
  BY GivesRole
<1>2. Wishes /\ Devices /\ default \in Memory
  BY DEF SInv, Surroundings, IInv, TypeOK
<1>3. CASE UNCHANGED <<default, switched>>
  BY <1>2, <1>3 DEF Wishes
<1>4. CASE work[p][q] # None /\ CanGive(c)
  <2>1. PICK d \in plugged : /\ d = work[p][q] \/ work[p][q] \notin plugged
                             /\ default' = [default EXCEPT ![q] = d]
    BY <1>1, <1>4
  <2>2. default'[q] = d /\ \A r \in Roles \ {q} : default'[r] = default[r]
    BY <1>1, <1>2, <2>1 DEF Memory
  <2>3. chosen[q] \in {None, d}
    <3>1. chosen[q] \in {None, work[p][q]}
      BY <1>1, <1>4, WorkIsOnRecord DEF Giving, Remembers
    <3>2. chosen[q] \in plugged \cup {None}
      BY <1>1, <1>2 DEF Devices
    <3>3. QED BY <2>1, <3>1, <3>2
  <2>4. default[q] # None
    <3>1. default[q] \in plugged /\ plugged \subseteq Mics
      BY <1>1, <1>2, <2>1 DEF Devices, IInv, TypeOK
    <3>2. QED BY <3>1, ConstantsOK
  <2>5. \A r \in Roles : default[r] = chosen[r] => default'[r] = default[r]
    BY <2>2, <2>3, <2>4
  <2>6. \A r \in Roles \ switched' : chosen[r] \in {None, default'[r]}
    BY <1>1, <1>2, <1>4, <2>2, <2>3 DEF Wishes
  <2>7. QED BY <2>5, <2>6
<1>5. QED BY <1>1, <1>3, <1>4

LEMMA RestoreRoleStep ==
  ASSUME IInv, NEW c \in Mics, Sheltered(c), SInv(c), NEW p \in Procs, RestoreRole(p),
         UNCHANGED world
  PROVE  SInv(c)'
<1>. DEFINE n == next[p]
            q == RoleAt[next[p]]
<1>0. Restore(p)
  BY DEF Restore
<1>1. /\ q \in Roles /\ pc[p] = "restore" /\ Doing(p, c)
      /\ work[p][q] = None \/ ~CanGive(c) => UNCHANGED <<default, switched>>
      /\ work[p][q] # None /\ CanGive(c) =>
           /\ switched' = switched \ {q}
           /\ \E d \in plugged : /\ d = work[p][q] \/ work[p][q] \notin plugged
                                 /\ default' = [default EXCEPT ![q] = d]
      /\ allOk' = [allOk EXCEPT ![p] = @ /\ (work[p][q] = None \/ CanGive(c))]
  BY GivesRole
<1>2. /\ Giving(p, c) /\ file # None /\ file.prev = work[p] /\ target[p] = c
      /\ \A r \in Roles : work[p][r] # c
  BY <1>1, WorkIsOnRecord
<1>3. UNCHANGED <<plugged, apiOk, file, target, work, previous, chosen>> /\ previous[p] = None
  BY <1>1 DEF RestoreRole, IInv, MemoryAtRest
<1>4. /\ Surroundings(c) /\ default \in Memory /\ switched \subseteq Roles
      /\ n \in 1..3 /\ allOk \in [Procs -> BOOLEAN]
  BY DEF SInv, IInv, TypeOK
<1>5. switched' \subseteq switched /\ \A r \in switched' : default'[r] = default[r]
  <2>1. CASE UNCHANGED <<default, switched>>
    BY <2>1
  <2>2. CASE work[p][q] # None /\ CanGive(c)
    <3>1. PICK d \in plugged : default' = [default EXCEPT ![q] = d]
      BY <1>1, <2>2
    <3>2. \A r \in Roles \ {q} : default'[r] = default[r]
      BY <1>4, <3>1 DEF Memory
    <3>3. switched' = switched \ {q}
      BY <1>1, <2>2
    <3>4. QED BY <1>4, <3>2, <3>3
  <2>3. QED BY <1>1, <2>1, <2>2
<1>6. Surroundings(c)'
  <2>1. Devices'
    <3>1. CASE UNCHANGED default
      BY <1>3, <1>4, <3>1 DEF Surroundings, Devices
    <3>2. CASE \E d \in plugged : default' = [default EXCEPT ![q] = d]
      <4>1. PICK d \in plugged : default' = [default EXCEPT ![q] = d]
        BY <3>2
      <4>2. default'[q] = d /\ \A r \in Roles \ {q} : default'[r] = default[r]
        BY <1>1, <1>4, <4>1 DEF Memory
      <4>3. QED BY <1>3, <1>4, <4>2 DEF Surroundings, Devices
    <3>3. QED BY <1>1, <3>1, <3>2
  <2>2. FileOf(c)' /\ OnRecord(c)'
    BY <1>3, <1>4, <1>5 DEF Surroundings, FileOf, OnRecord
  <2>3. Wishes'
    BY <1>3, GivesWhatIsWanted DEF Wishes
  <2>4. Remembers'
    BY <1>2, <1>3 DEF Giving, Remembers
  <2>5. QED BY <2>1, <2>2, <2>3, <2>4 DEF Surroundings
<1>7. allOk'[p] => allOk[p] /\ q \notin switched'
  <2>1. allOk'[p] = (allOk[p] /\ (work[p][q] = None \/ CanGive(c)))
    BY <1>1, <1>4
  <2>2. work[p][q] = None => q \notin switched
    BY <1>2, <1>4 DEF Surroundings, OnRecord
  <2>3. QED BY <1>1, <1>5, <2>1, <2>2
<1>8. CanGive(c)' => allOk'[p]
  BY <1>1, <1>2, <1>3, <1>4 DEF CanGive, Giving
<1>9. ~CanGive(c)' => Settled(c)'
  BY <1>1, <1>2, <1>3 DEF CanGive, Giving, Settled, OnAll
<1>10. pc'[p] \in {"restore", "cleanup"} /\ (pc'[p] = "restore" => next'[p] = n + 1)
       /\ (pc'[p] = "cleanup" => n = 3)
  BY <1>1, <1>4 DEF RestoreRole, MoreRoles, Goto, IInv, TypeOK
<1>11. ASSUME allOk'[p], NEW i \in 1..3, i < next'[p] \/ pc'[p] = "cleanup"
       PROVE  RoleAt[i] \notin switched'
  <2>1. i <= n
    BY <1>4, <1>10, <1>11
  <2>2. CASE i = n
    BY <1>7, <1>11, <2>2
  <2>3. CASE i < n
    BY <1>2, <1>5, <1>7, <1>11, <2>3 DEF Giving
  <2>4. QED BY <1>4, <2>1, <2>2, <2>3
<1>12. Giving(p, c)'
  <2>1. work'[p] # NoRoles /\ Remembers'
    BY <1>2, <1>3 DEF Giving, Remembers
  <2>2. QED BY <1>8, <1>9, <1>11, <2>1 DEF Giving
<1>13. Doing(p, c)'
  BY <1>2, <1>3, <1>10, <1>12 DEF Doing
<1>14. QED BY <1>0, <1>6, <1>13, StepOfOne DEF SInv

\* A pass that is over has given back everything or nothing.
LEMMA PassIsOver ==
  ASSUME IInv, NEW c \in Mics, Sheltered(c), SInv(c), NEW p \in Procs, pc[p] = "cleanup",
         Doing(p, c)
  PROVE  \/ allOk[p] /\ switched = {}
         \/ ~allOk[p] /\ ~CanGive(c) /\ Settled(c)
<1>1. Giving(p, c) /\ allOk[p] \in BOOLEAN /\ switched \subseteq Roles
  BY DEF Doing, IInv, TypeOK
<1>2. ASSUME allOk[p] PROVE switched = {}
  <2>1. \A i \in 1..3 : RoleAt[i] \notin switched
    BY <1>1, <1>2 DEF Giving
  <2>2. QED BY <1>1, <2>1, RolesApart
<1>3. QED BY <1>1, <1>2 DEF Giving

LEMMA RestoreEndStep ==
  ASSUME IInv, NEW c \in Mics, Sheltered(c), SInv(c), NEW p \in Procs, RestoreEnd(p),
         UNCHANGED world
  PROVE  SInv(c)'
<1>0. Restore(p)
  BY DEF Restore
<1>1. /\ Doing(p, c) /\ pc[p] = "cleanup" /\ Return(p, None, None)
      /\ UNCHANGED <<default, plugged, apiOk, chosen, switched>> /\ TypeOK
  BY <1>0, OnlyOneRuns DEF SInv, RestoreEnd, windows, ghost, IInv
<1>2. CASE allOk[p] /\ switched = {}
  <2>1. RemoveFile /\ Settled(c)'
    BY <1>1, <1>2 DEF RestoreEnd, Settled
  <2>2. Doing(p, c)'
    BY <1>1, <1>2, <2>1, BackAtRest
  <2>3. Surroundings(c)'
    BY <1>1, <1>2, <2>1, FileMayGo DEF SInv
  <2>4. QED BY <1>0, <2>2, <2>3, StepOfOne DEF SInv
<1>3. CASE ~allOk[p] /\ ~CanGive(c) /\ Settled(c)
  <2>1. UNCHANGED file /\ Settled(c)'
    BY <1>1, <1>3 DEF RestoreEnd, Settled, OnAll
  <2>2. switched # {} => OnAll(c)
    <3>1. CASE "switch" \notin world.crash
      BY <1>3, <3>1 DEF Settled
    <3>2. CASE "switch" \in world.crash /\ switched # {}
      <4>1. plugged \subseteq {c} /\ c \in plugged
        BY <1>1, <1>3, <3>2, CablePlugged
        DEF Sheltered, SInv, Surroundings, Devices, CanGive
      <4>2. QED BY <4>1 DEF SInv, Surroundings, Devices, OnAll
    <3>3. QED BY <3>1, <3>2
  <2>3. switched' # {} => OnAll(c)'
    BY <1>1, <2>2 DEF OnAll
  <2>4. Doing(p, c)'
    BY <1>1, <2>1, <2>3, BackAtRest
  <2>5. Surroundings(c)'
    BY <1>1, <2>1, NothingAround DEF SInv
  <2>6. QED BY <1>0, <2>4, <2>5, StepOfOne DEF SInv
<1>4. QED BY <1>1, <1>2, <1>3, PassIsOver

(***************************************************************************)
(* Start, end and environment                                              *)
(***************************************************************************)
LEMMA LaunchStep ==
  ASSUME IInv, NEW c \in Mics, Sheltered(c), SInv(c), NEW p \in Procs, Launch(p),
         UNCHANGED world
  PROVE  SInv(c)'
<1>1. LaunchManaging(p)
  BY DEF Launch, LaunchLazy, Sheltered, Orderly
<1>2. lock = None /\ Reset(p) /\ lock' = p /\ Settled(c)
  BY <1>1, ConstantsOK DEF LaunchManaging, TryAcquire, SInv, Running, Doing
<1>3. UNCHANGED <<default, plugged, apiOk, file, chosen, switched, previous, target, work,
                  next, allOk>>
  BY <1>1 DEF LaunchManaging, windows, ghost
<1>4. pc'[p] = "recover" /\ \A q \in Procs \ {p} : pc'[q] = pc[q]
  BY <1>1 DEF LaunchManaging, Goto, IInv, TypeOK
<1>5. Doing(p, c)'
  <2>1. \A r \in Roles : NoRoles[r] # c
    BY ConstantsOK DEF NoRoles
  <2>2. Settled(c)'
    BY <1>2, <1>3 DEF Settled, OnAll
  <2>3. QED BY <1>2, <1>3, <1>4, <2>1, <2>2 DEF Reset, Doing
<1>6. \A q \in Procs \ {p} : Reset(q)'
  BY <1>2, <1>3, <1>4, ConstantsOK DEF SInv, Running, Reset
<1>7. Surroundings(c)'
  BY <1>3, NothingAround DEF SInv
<1>8. QED BY <1>2, <1>5, <1>6, <1>7, ConstantsOK DEF SInv, Running

\* Wherever a process may be killed, the next start finds what there is to recover.
LEMMA KillStep ==
  ASSUME IInv, NEW c \in Mics, Sheltered(c), SInv(c), NEW p \in Procs, Kill(p),
         UNCHANGED world
  PROVE  SInv(c)'
<1>1. /\ pc[p] \in world.crash \ {"dead"}
      /\ UNCHANGED <<default, plugged, apiOk, file, chosen, switched>>
      /\ lock' = IF lock = p THEN None ELSE lock
  BY DEF Kill, windows, ghost
<1>2. lock = p /\ Doing(p, c) /\ \A q \in Procs \ {p} : Reset(q)
  BY <1>1 DEF SInv, Running, Reset
<1>3. \A q \in Procs : Reset(q)'
  BY <1>2 DEF Kill, Goto, Reset, IInv, TypeOK
<1>4. Settled(c)
  <2>1. CASE pc[p] \in {"recover", "recovered", "idle"}
    BY <1>2, <2>1 DEF Doing
  <2>2. CASE pc[p] \in {"save", "write"}
    BY <1>2, <2>2 DEF Doing, Saving, Settled
  <2>3. CASE pc[p] = "switch"
    <3> SUFFICES ASSUME switched # {} PROVE default["console"] = c
      BY <1>1, <2>3 DEF Settled
    <3>1. Switching(p, c) /\ next[p] \in 1..3 /\ switched \subseteq Roles
      BY <1>2, <2>3 DEF Doing, IInv, TypeOK
    <3>2. apiOk /\ \E i \in 1..3 : RoleAt[i] \in switched
      BY <3>1, RolesApart DEF Switching
    <3>3. PICK i \in 1..3 : ~(i >= next[p])
      BY <3>1, <3>2 DEF Switching
    <3>4. 1 < next[p]
      BY <3>1, <3>3
    <3>5. default[RoleAt[1]] = c
      BY <3>1, <3>2, <3>4 DEF Switching
    <3>6. QED BY <3>5, RolesApart
  <2>4. CASE pc[p] = "cleanup"
    BY <1>2, <2>4, PassIsOver DEF Settled
  <2>5. pc[p] \in ProgramPoints /\ pc[p] # "restore"
    BY <1>1 DEF IInv, TypeOK, Sheltered
  <2>6. QED BY <1>1, <2>1, <2>2, <2>3, <2>4, <2>5 DEF ProgramPoints
<1>5. Settled(c)' /\ lock' = None
  BY <1>1, <1>2, <1>4 DEF Settled, OnAll
<1>6. Surroundings(c)'
  BY <1>1, NothingAround DEF SInv
<1>7. QED BY <1>3, <1>5, <1>6, ConstantsOK DEF SInv, Running

\* What the environment does takes roles off the cable all at once, or none.
LEMMA EnvironmentStep ==
  ASSUME IInv, NEW c \in Mics, Sheltered(c), SInv(c), Environment, UNCHANGED world
  PROVE  SInv(c)'
<1>1. UNCHANGED <<file, lock, process>> /\ \A p \in Procs : pc[p] \in Resting
  BY DEF Environment, UserPicks, Unplug, PlugIn, ApiFlips, EnvironmentActs, Sheltered, Orderly
<1>2. /\ Surroundings(c) /\ c # None /\ default \in Memory /\ chosen \in Memory
      /\ switched \subseteq Roles /\ plugged \subseteq Mics /\ None \notin Mics
  BY ConstantsOK DEF SInv, IInv, TypeOK
<1>3. ASSUME Surroundings(c)',
             switched' # {} => switched # {} /\ \A r \in Roles : default[r] = c => default'[r] = c
      PROVE  SInv(c)'
  <2>1. Settled(c) => Settled(c)'
    BY <1>3 DEF Settled, OnAll, Roles
  <2>2. ASSUME NEW p \in Procs, lock = p PROVE Doing(p, c)'
    <3>1. Doing(p, c) /\ pc[p] = "idle"
      BY <1>1, <2>2 DEF SInv, Running, Doing, Resting
    <3>2. (switched # {} => OnAll(c)) => (switched' # {} => OnAll(c)')
      BY <1>3 DEF OnAll
    <3>3. QED BY <1>1, <2>1, <3>1, <3>2 DEF Doing, process
  <2>3. ASSUME NEW p \in Procs, lock # p PROVE Reset(p)'
    BY <1>1, <2>3 DEF SInv, Running, Reset, process
  <2>4. QED BY <1>1, <1>3, <2>1, <2>2, <2>3 DEF SInv, Running
<1>4. CASE UserPicks
  <2>1. PICK m \in world.picks \cap plugged :
          /\ default' = [r \in Roles |-> m] /\ chosen' = [r \in Roles |-> m]
          /\ switched' = {}
    <3>1. PICK S \in world.scopes, m \in world.picks \cap plugged :
            /\ default' = [r \in Roles |-> IF r \in S THEN m ELSE default[r]]
            /\ chosen' = [r \in Roles |-> IF r \in S THEN m ELSE chosen[r]]
            /\ switched' = switched \ S
      BY <1>4 DEF UserPicks
    <3>2. S = Roles
      BY DEF Sheltered, Orderly
    <3>3. default' = [r \in Roles |-> m] /\ chosen' = [r \in Roles |-> m] /\ switched' = {}
      BY <1>2, <3>1, <3>2
    <3>4. QED BY <3>3
  <2>2. m # c /\ UNCHANGED <<plugged, apiOk>>
    BY <1>4 DEF UserPicks, Sheltered
  <2>3. \A r \in Roles : default'[r] = m /\ chosen'[r] = m
    BY <2>1
  <2>4. Devices' /\ Wishes' /\ OnRecord(c)' /\ FileOf(c)'
    <3>1. Devices' BY <1>2, <2>2, <2>3 DEF Surroundings, Devices
    <3>2. Wishes' BY <2>3 DEF Wishes
    <3>3. OnRecord(c)' /\ FileOf(c)' BY <1>1, <1>2, <2>1 DEF OnRecord, FileOf, Surroundings
    <3>4. QED BY <3>1, <3>2, <3>3
  <2>5. Uniform(c)'
    BY <2>2, <2>3 DEF Uniform, Roles
  <2>6. QED BY <1>3, <2>1, <2>4, <2>5 DEF Surroundings
<1>5. CASE Unplug
  <2>1. PICK m \in world.unpluggable \cap plugged :
          /\ plugged' = plugged \ {m}
          /\ \E e \in (IF plugged \ {m} = {} THEN {None} ELSE plugged \ {m}) :
               default' = [r \in Roles |->
                             IF r \in {q \in Roles : default[q] = m} THEN e ELSE default[r]]
          /\ chosen' = [r \in Roles |->
                          IF chosen[r] = m \/ r \in {q \in Roles : default[q] = m}
                          THEN None ELSE chosen[r]]
          /\ switched' = switched \ {q \in Roles : default[q] = m}
    BY <1>5 DEF Unplug
  <2>2. PICK e \in (IF plugged \ {m} = {} THEN {None} ELSE plugged \ {m}) :
          \A r \in Roles : default'[r] = IF default[r] = m THEN e ELSE default[r]
    BY <2>1
  <2>3. \A r \in Roles : chosen'[r] = IF chosen[r] = m \/ default[r] = m THEN None ELSE chosen[r]
    BY <2>1
  <2>4. \A r \in switched' : r \in switched /\ default[r] # m
    BY <1>2, <2>1
  <2>5. UNCHANGED apiOk /\ m \in plugged /\ m # None
    BY <1>2, <1>5, <2>1 DEF Unplug
  <2>6. \A r \in Roles : default[r] \in plugged
    BY <1>2, <2>5 DEF Surroundings, Devices
  <2>7. Devices'
    <3>1. ASSUME NEW r \in Roles
          PROVE  IF plugged' = {} THEN default'[r] = None ELSE default'[r] \in plugged'
      BY <2>1, <2>2, <2>6
    <3>2. ASSUME NEW r \in Roles PROVE chosen'[r] \in plugged' \cup {None}
      BY <1>2, <2>1, <2>3 DEF Surroundings, Devices
    <3>3. QED BY <1>2, <2>5, <3>1, <3>2 DEF Surroundings, Devices
  <2>8. FileOf(c)' /\ OnRecord(c)'
    BY <1>1, <1>2, <2>2, <2>4 DEF Surroundings, FileOf, OnRecord
  <2>9. Wishes'
    <3>1. ASSUME NEW r \in Roles \ switched' PROVE chosen'[r] \in {None, default'[r]}
      <4>1. CASE default[r] = m
        BY <2>3, <4>1
      <4>2. CASE default[r] # m
        <5>1. r \notin switched
          BY <2>1, <3>1, <4>2
        <5>2. chosen[r] \in {None, default[r]}
          BY <1>2, <3>1, <5>1 DEF Surroundings, Wishes
        <5>3. QED BY <2>2, <2>3, <4>2, <5>2
      <4>3. QED BY <4>1, <4>2
    <3>2. QED BY <3>1 DEF Wishes
  <2>10. Remembers => Remembers'
    BY <1>1, <2>3 DEF Remembers
  <2>11. Uniform(c) => Uniform(c)'
    <3> SUFFICES ASSUME Uniform(c) PROVE Uniform(c)'
      OBVIOUS
    <3>1. CASE default["console"] = m
      <4>1. \A r \in Roles : default'[r] = e /\ chosen'[r] = None
        BY <2>2, <2>3, <3>1 DEF Uniform
      <4>2. QED BY <4>1 DEF Uniform, Roles
    <3>2. CASE default["console"] # m
      <4>1. \A r \in Roles : default'[r] = default[r] /\ chosen'[r] \in {None, chosen[r]}
        BY <2>2, <2>3, <3>2 DEF Uniform
      <4>2. default'["console"] = default["console"]
        BY <4>1 DEF Roles
      <4>3. QED BY <4>1, <4>2 DEF Uniform
    <3>3. QED BY <3>1, <3>2
  <2>12. switched' # {} => switched # {} /\ \A r \in Roles : default[r] = c => default'[r] = c
    <3> SUFFICES ASSUME NEW r \in switched'
                 PROVE  switched # {} /\ \A q \in Roles : default[q] = c => default'[q] = c
      OBVIOUS
    <3>1. default[r] = c /\ r \in switched /\ default[r] # m
      BY <1>2, <2>4 DEF Surroundings, OnRecord
    <3>2. QED BY <2>2, <3>1
  <2>13. QED BY <1>2, <1>3, <2>7, <2>8, <2>9, <2>10, <2>11, <2>12 DEF Surroundings
<1>6. CASE PlugIn
  <2>1. PICK m \in world.unpluggable \ plugged :
          /\ plugged' = plugged \cup {m}
          /\ default' = [r \in Roles |-> IF default[r] = None THEN m ELSE default[r]]
    BY <1>6 DEF PlugIn
  <2>2. \A r \in Roles : default'[r] = IF default[r] = None THEN m ELSE default[r]
    BY <2>1
  <2>3. UNCHANGED <<apiOk, chosen, switched>> /\ m # None
    <3>1. m \in Mics
      BY <2>1, WorldType DEF IInv, TypeOK
    <3>2. QED BY <1>2, <1>6, <3>1 DEF PlugIn, ghost
  <2>4. CASE plugged # {}
    <3>1. \A r \in Roles : default[r] \in plugged /\ default[r] # None
      BY <1>2, <2>4 DEF Surroundings, Devices
    <3>2. \A r \in Roles : default'[r] = default[r]
      BY <2>2, <3>1
    <3>3. Devices'
      BY <1>2, <2>1, <2>3, <3>1, <3>2 DEF Surroundings, Devices
    <3>4. default'["console"] = default["console"]
      BY <3>2 DEF Roles
    <3>5. Surroundings(c)'
      BY <1>1, <1>2, <2>3, <3>2, <3>3, <3>4
      DEF Surroundings, FileOf, OnRecord, Wishes, Remembers, Uniform
    <3>6. QED BY <1>3, <2>3, <3>2, <3>5
  <2>5. CASE plugged = {}
    <3>1. \A r \in Roles : default[r] = None /\ chosen[r] = None /\ default'[r] = m
      BY <1>2, <2>2, <2>5 DEF Surroundings, Devices
    <3>2. switched = {}
      BY <1>2, <3>1 DEF Surroundings, OnRecord
    <3>3. Devices'
      BY <1>2, <2>1, <2>3, <3>1 DEF Surroundings, Devices
    <3>4. FileOf(c)' /\ OnRecord(c)' /\ Wishes' /\ Remembers'
      BY <1>1, <1>2, <2>3, <3>1, <3>2 DEF Surroundings, FileOf, OnRecord, Wishes, Remembers
    <3>5. QED BY <1>3, <2>3, <3>2, <3>3, <3>4 DEF Surroundings
  <2>6. QED BY <2>4, <2>5
<1>7. CASE ApiFlips
  <2>1. world.breaks /\ UNCHANGED <<default, plugged, chosen, switched>>
    BY <1>7 DEF ApiFlips, ghost
  <2>2. Surroundings(c)'
    BY <1>1, <1>2, <2>1
    DEF Surroundings, Devices, FileOf, OnRecord, Wishes, Remembers, Uniform
  <2>3. QED BY <1>3, <2>1, <2>2
<1>8. QED BY <1>4, <1>5, <1>6, <1>7 DEF Environment

(***************************************************************************)
(* The theorems for sheltered worlds                                       *)
(***************************************************************************)
InShelter == \E c \in Mics : Sheltered(c)

ShelterInv == IInv /\ \A c \in Mics : Sheltered(c) => SInv(c)

LEMMA ShelterStays == UNCHANGED world => \A c \in Mics : Sheltered(c)' <=> Sheltered(c)
BY DEF Sheltered, Orderly

LEMMA NextSInv ==
  ASSUME IInv, NEW c \in Mics, Sheltered(c), SInv(c), Next
  PROVE  SInv(c)'
<1>1. ASSUME NEW p \in Procs, Activate(p), UNCHANGED world PROVE SInv(c)'
  BY <1>1, ActivateStarts, SaveStep, SwitchStep DEF Activate
<1>2. ASSUME NEW p \in Procs, Restore(p), UNCHANGED world PROVE SInv(c)'
  BY <1>2, RestoreStarts, RestoreRoleStep, RestoreEndStep DEF Restore
<1>3. QED BY <1>1, <1>2, LaunchStep, RecoverStep, KillStep, EnvironmentStep DEF Next

LEMMA ShelterSafe == Spec => []ShelterInv
<1>1. Init => ShelterInv
  BY InitInv, InitSInv DEF ShelterInv
<1>2. ShelterInv /\ [Next]_vars => ShelterInv'
  <2> SUFFICES ASSUME ShelterInv, [Next]_vars PROVE ShelterInv'
    OBVIOUS
  <2>1. IInv'
    BY StepInv DEF ShelterInv
  <2>2. UNCHANGED world
    BY DEF Next, vars
  <2>3. ASSUME NEW c \in Mics, Sheltered(c)' PROVE SInv(c)'
    <3>1. Sheltered(c) /\ SInv(c)
      BY <2>2, <2>3, ShelterStays DEF ShelterInv
    <3>2. CASE Next
      BY <3>1, <3>2, NextSInv DEF ShelterInv
    <3>3. CASE UNCHANGED vars
      <4>1. UNCHANGED <<lock, pc, previous, target, work, next, allOk>>
        BY <3>3 DEF vars, process
      <4>2. Surroundings(c)'
        BY <3>1, <3>3, NothingAround DEF vars, windows, ghost, SInv
      <4>3. Settled(c)' <=> Settled(c)
        BY <3>3 DEF vars, windows, ghost, Settled, OnAll
      <4>4. \A p \in Procs : Doing(p, c) => Doing(p, c)'
        BY <3>3, <4>1, <4>3
        DEF vars, windows, ghost, Doing, Saving, Differing, Switching, Giving, Remembers,
            CanGive, OnAll
      <4>5. \A p \in Procs : Reset(p) => Reset(p)'
        BY <4>1 DEF Reset
      <4>6. QED BY <3>1, <4>1, <4>2, <4>3, <4>4, <4>5 DEF SInv, Running
    <3>4. QED BY <3>2, <3>3
  <2>4. QED BY <2>1, <2>3 DEF ShelterInv
<1>3. QED BY <1>1, <1>2, PTL DEF Spec

LEMMA ShelterLasts == Spec /\ InShelter => []InShelter
<1>1. InShelter /\ [Next]_vars => InShelter'
  BY ShelterStays DEF InShelter, Next, vars
<1>2. QED BY <1>1, PTL DEF Spec

\* In a sheltered world every role the program has switched is in the state file, at every step,
\* so that some restore() or the next start gives its device back (micswitch.rs:175-176, 383, 388).
THEOREM AlwaysRecorded == Spec /\ InShelter => []Recorded
<1>1. ShelterInv /\ InShelter => Recorded
  BY DEF ShelterInv, InShelter, SInv, Surroundings, OnRecord, Recorded
<1>2. QED BY <1>1, ShelterSafe, ShelterLasts, PTL

\* In a sheltered world, once nothing is left to recover, every role is where the user wants it
\* (README.md:28-29).
THEOREM AlwaysGivenBack == Spec /\ InShelter => []GivenBack
<1>1. ShelterInv /\ InShelter => GivenBack
  <2> SUFFICES ASSUME ShelterInv, NEW c \in Mics, Sheltered(c), Quiet, NEW r \in Roles
               PROVE  chosen[r] \in {None, default[r]}
    BY DEF InShelter, GivenBack
  <2>1. OnRecord(c) /\ Wishes /\ file = None
    BY DEF ShelterInv, SInv, Surroundings, Quiet
  <2>2. r \notin switched
    BY <2>1 DEF OnRecord
  <2>3. QED BY <2>1, <2>2 DEF Wishes
<1>2. QED BY <1>1, ShelterSafe, ShelterLasts, PTL

\* In a sheltered world a start deletes a state file only when nothing is switched any more: no
\* device is forgotten, wherever the process before was killed (micswitch.rs:175-176, 331, 450).
THEOREM RecoveryIsComplete == Spec /\ InShelter => RecoveryCompletes
<1>. DEFINE Complete == Orderly => \A p \in Procs : RecoverDiscard(p) => switched = {}
<1>1. ShelterInv /\ InShelter => [Complete]_vars
  BY DiscardIsSafe DEF ShelterInv, InShelter
<1>2. QED BY <1>1, ShelterSafe, ShelterLasts, PTL DEF RecoveryCompletes

\* In a sheltered world restore() leaves every role alone that is where the user wants it
\* (micswitch.rs:403-404).
THEOREM ChoiceIsKept == Spec /\ InShelter => UserChoiceKept
<1>. DEFINE Keeps == Orderly => \A p \in Procs : RestoreRole(p) =>
                       \A r \in Roles : default[r] = chosen[r] => default'[r] = default[r]
<1>1. ShelterInv /\ InShelter => [Keeps]_vars
  BY GivesWhatIsWanted DEF ShelterInv, InShelter
<1>2. QED BY <1>1, ShelterSafe, ShelterLasts, PTL DEF UserChoiceKept
=============================================================================
