------------------------- MODULE SwitchControlProofs -------------------------
(***************************************************************************)
(* Proofs about SwitchControl for every number of connections and commands *)
(* and for both paces: the counter, mic_active and the types are right at  *)
(* every step, no activation is lost, and at the calm pace every step is a *)
(* step of MicPolicy.                                                      *)
(***************************************************************************)
EXTENDS SwitchControl, FiniteSetTheorems, TLAPS

Phases == {"new", "open", "check", "counted", "gone"}

\* The phases of a client, and those of a connection that spawns no activation any more.
Present == {"check", "counted"}
Past == {"counted", "gone"}

\* The connections whose phase is one of K.
In(f, K) == {c \in Conns : f[c] \in K}

\* How the number of connections in some phases changes when one connection moves on.
LEMMA OneMoves ==
  ASSUME phase \in [Conns -> Phases], NEW c \in Conns, NEW v \in Phases, NEW K,
         phase' = [phase EXCEPT ![c] = v]
  PROVE  /\ Cardinality(In(phase, K)) \in Nat /\ Cardinality(In(phase', K)) \in Nat
         /\ phase[c] \in K /\ v \in K => Cardinality(In(phase', K)) = Cardinality(In(phase, K))
         /\ phase[c] \notin K /\ v \notin K => Cardinality(In(phase', K)) = Cardinality(In(phase, K))
         /\ phase[c] \notin K /\ v \in K =>
              /\ Cardinality(In(phase', K)) = Cardinality(In(phase, K)) + 1
              /\ Cardinality(In(phase, K)) < Cardinality(Conns)
         /\ phase[c] \in K /\ v \notin K =>
              /\ Cardinality(In(phase', K)) = Cardinality(In(phase, K)) - 1
              /\ Cardinality(In(phase, K)) > 0
<1>1. ASSUME NEW h
      PROVE  /\ IsFiniteSet(In(h, K))
             /\ Cardinality(In(h, K)) \in Nat /\ Cardinality(Conns) \in Nat
             /\ Cardinality(In(h, K)) <= Cardinality(Conns)
  <2>1. In(h, K) \in SUBSET Conns /\ IsFiniteSet(Conns)
    BY ConstantsOK DEF In
  <2>2. IsFiniteSet(In(h, K)) /\ Cardinality(In(h, K)) <= Cardinality(Conns)
    BY <2>1, FS_Subset
  <2>3. QED BY <2>1, <2>2, FS_CardinalityType
<1>2. ASSUME phase[c] \in K, v \in K PROVE In(phase', K) = In(phase, K)
  BY <1>2 DEF In
<1>3. ASSUME phase[c] \notin K, v \notin K PROVE In(phase', K) = In(phase, K)
  BY <1>3 DEF In
<1>4. ASSUME phase[c] \notin K, v \in K
      PROVE  In(phase', K) = In(phase, K) \cup {c} /\ c \notin In(phase, K)
  BY <1>4 DEF In
<1>5. ASSUME phase[c] \in K, v \notin K
      PROVE  In(phase', K) = In(phase, K) \ {c} /\ c \in In(phase, K)
  BY <1>5 DEF In
<1>6. ASSUME phase[c] \notin K, v \in K
      PROVE  Cardinality(In(phase', K)) = Cardinality(In(phase, K)) + 1
  <2>1. IsFiniteSet(In(phase, K)) BY <1>1
  <2>2. QED BY <2>1, <1>4, <1>6, FS_AddElement
<1>7. ASSUME phase[c] \in K, v \notin K
      PROVE  Cardinality(In(phase', K)) = Cardinality(In(phase, K)) - 1
  <2>1. IsFiniteSet(In(phase, K)) BY <1>1
  <2>2. QED BY <2>1, <1>5, <1>7, FS_RemoveElement
<1>8. QED BY <1>1, <1>2, <1>3, <1>6, <1>7

LEMMA NobodyIn == ASSUME NEW f, NEW K, \A c \in Conns : f[c] \notin K
                  PROVE  Cardinality(In(f, K)) = 0
BY FS_EmptySet DEF In

(***************************************************************************)
(* The inductive invariant                                                 *)
(***************************************************************************)

\* A connection or a command spawns at most one activation.
SpawnedOnce ==
  activations + (IF tray = "on" THEN 1 ELSE 0)
    <= Cardinality(In(phase, Past)) + commands

\* Between the call of MicSwitch and the store, and only then, mic_active may lag behind, and the
\* mutex is held.
Lag == (called => holder # None) /\ (~called => micActive = switched)

IInv == TypeOK /\ ClientsCounted /\ SpawnedOnce /\ Lag

LEMMA ClientsAreIn == ClientsCounted <=> clients = Cardinality(In(phase, Present))
BY DEF ClientsCounted, In, Present

LEMMA CardinalityOfConns == Cardinality(Conns) \in Nat /\ MaxCommands \in Nat
BY ConstantsOK, FS_CardinalityType

LEMMA InitInv == Init => IInv
<1> SUFFICES ASSUME Init PROVE IInv
  OBVIOUS
<1>1. TypeOK
  <2>1. 0 \in 0..Cardinality(Conns) /\ 0 \in 0..MaxCommands
        /\ 0 \in 0..(Cardinality(Conns) + MaxCommands)
    BY CardinalityOfConns
  <2>2. QED BY <2>1 DEF Init, TypeOK
<1>2. Cardinality(In(phase, Present)) = 0
  BY NobodyIn DEF Init, Present, Past
<1>3. Cardinality(In(phase, Past)) = 0
  BY NobodyIn DEF Init, Present, Past
<1>4. ClientsCounted
  BY <1>2, ClientsAreIn DEF Init
<1>5. SpawnedOnce
  BY <1>3 DEF Init, SpawnedOnce
<1>6. Lag
  BY DEF Init, Lag
<1>7. QED BY <1>1, <1>4, <1>5, <1>6 DEF IInv

(***************************************************************************)
(* Steps that leave a part of the invariant alone                          *)
(***************************************************************************)
LEMMA CountsSame ==
  ASSUME IInv, UNCHANGED <<phase, clients, activations, commands>>,
         tray' = "on" => tray = "on"
  PROVE  ClientsCounted' /\ SpawnedOnce'
<1>1. /\ Cardinality(In(phase, Past)) \in Nat
      /\ activations \in Nat /\ commands \in Nat
  <2>1. In(phase, Past) \in SUBSET Conns /\ IsFiniteSet(Conns)
    BY ConstantsOK DEF In
  <2>2. QED
    BY <2>1, FS_Subset, FS_CardinalityType DEF IInv, TypeOK
<1>2. SpawnedOnce'
  BY <1>1 DEF IInv, SpawnedOnce, In
<1>3. ClientsCounted'
  BY DEF IInv, ClientsCounted
<1>4. QED BY <1>2, <1>3

LEMMA LagSame ==
  ASSUME IInv, UNCHANGED <<holder, called, switched, micActive>>
  PROVE  Lag'
BY DEF IInv, Lag

(***************************************************************************)
(* Connections                                                             *)
(***************************************************************************)
LEMMA OpenInv == ASSUME IInv, NEW c \in Conns, Open(c), UNCHANGED pace PROVE IInv'
<1>1. TypeOK'
  BY DEF IInv, TypeOK, Open, tasks
<1>2. phase \in [Conns -> Phases] /\ phase' = [phase EXCEPT ![c] = "open"] /\ phase[c] = "new"
  BY DEF IInv, TypeOK, Open, Phases
<1>7. /\ phase[c] \notin Present /\ "open" \notin Present
      /\ phase[c] \notin Past /\ "open" \notin Past /\ "open" \in Phases
  BY <1>2 DEF Present, Past, Phases
<1>3. ClientsCounted'
  <2>1. Cardinality(In(phase', Present)) = Cardinality(In(phase, Present))
    BY <1>2, <1>7, OneMoves
  <2>2. QED BY <2>1, ClientsAreIn DEF IInv, Open, ClientsCounted, In, Present
<1>4. SpawnedOnce'
  <2>1. Cardinality(In(phase', Past)) = Cardinality(In(phase, Past))
    BY <1>2, <1>7, OneMoves
  <2>2. QED BY <2>1 DEF IInv, Open, SpawnedOnce, tasks
<1>5. Lag'
  BY LagSame DEF Open, tasks
<1>6. QED BY <1>1, <1>3, <1>4, <1>5 DEF IInv

\* There is room for one more client on the counter.
LEMMA FirstAudioInv == ASSUME IInv, NEW c \in Conns, FirstAudio(c), UNCHANGED pace
                       PROVE  IInv' /\ clients < Cardinality(Conns)
<1>. DEFINE v == IF IsFirst(clients') THEN "check" ELSE "counted"
<1>2. /\ phase \in [Conns -> Phases] /\ phase' = [phase EXCEPT ![c] = v] /\ phase[c] = "open"
      /\ v \in {"check", "counted"}
  BY DEF IInv, TypeOK, FirstAudio, Phases
<1>8. phase[c] \notin Present /\ v \in Present /\ phase[c] \notin Past /\ v \in Phases
  BY <1>2 DEF Present, Past, Phases
<1>3. /\ clients \in Nat /\ clients < Cardinality(Conns)
      /\ Cardinality(In(phase', Present)) = clients + 1
      /\ Cardinality(Conns) \in Nat
  <2>1. /\ Cardinality(In(phase', Present)) = Cardinality(In(phase, Present)) + 1
        /\ Cardinality(In(phase, Present)) < Cardinality(Conns)
    BY <1>2, <1>8, OneMoves
  <2>2. QED BY <2>1, ClientsAreIn, CardinalityOfConns DEF IInv, TypeOK
<1>1. TypeOK'
  <2>1. phase' \in [Conns -> Phases]
    BY <1>2 DEF Phases
  <2>2. clients' \in 0..Cardinality(Conns)
    BY <1>3 DEF FirstAudio
  <2>3. QED BY <2>1, <2>2 DEF IInv, TypeOK, FirstAudio, tasks, Phases
<1>4. ClientsCounted'
  BY <1>3 DEF FirstAudio, ClientsCounted, In, Present
<1>5. SpawnedOnce'
  <2>1. /\ Cardinality(In(phase', Past)) \in {Cardinality(In(phase, Past)), Cardinality(In(phase, Past)) + 1}
        /\ Cardinality(In(phase', Past)) \in Nat
        /\ Cardinality(In(phase, Past)) \in Nat
    <3>1. CASE v \in Past
      BY <1>2, <1>8, <3>1, OneMoves
    <3>2. CASE v \notin Past
      BY <1>2, <1>8, <3>2, OneMoves
    <3>3. QED BY <3>1, <3>2
  <2>2. QED BY <2>1, CardinalityOfConns DEF IInv, TypeOK, FirstAudio, SpawnedOnce, tasks
<1>6. Lag'
  BY LagSame DEF FirstAudio, tasks
<1>7. QED BY <1>1, <1>3, <1>4, <1>5, <1>6 DEF IInv

LEMMA ActivateForClientInv ==
  ASSUME IInv, NEW c \in Conns, ActivateForClient(c), UNCHANGED pace PROVE IInv'
<1>2. /\ phase \in [Conns -> Phases] /\ phase' = [phase EXCEPT ![c] = "counted"]
      /\ phase[c] = "check"
  BY DEF IInv, TypeOK, ActivateForClient, Phases
<1>9. /\ phase[c] \in Present /\ "counted" \in Present
      /\ phase[c] \notin Past /\ "counted" \in Past /\ "counted" \in Phases
  BY <1>2 DEF Present, Past, Phases
<1>3. /\ Cardinality(In(phase', Past)) = Cardinality(In(phase, Past)) + 1
      /\ Cardinality(In(phase, Past)) < Cardinality(Conns)
      /\ Cardinality(In(phase, Past)) \in Nat
  BY <1>2, <1>9, OneMoves
<1>4. activations \in Nat /\ commands \in 0..MaxCommands /\ activations' \in {activations, activations + 1}
  BY CardinalityOfConns DEF IInv, TypeOK, ActivateForClient, SpawnActivate
<1>5. SpawnedOnce'
  BY <1>3, <1>4, CardinalityOfConns DEF IInv, ActivateForClient, SpawnedOnce
<1>1. TypeOK'
  <2>1. phase' \in [Conns -> Phases]
    BY <1>2 DEF Phases
  <2>2. activations' \in 0..(Cardinality(Conns) + MaxCommands)
    BY <1>3, <1>4, CardinalityOfConns DEF IInv, SpawnedOnce
  <2>3. QED BY <2>1, <2>2 DEF IInv, TypeOK, ActivateForClient, Phases
<1>6. ClientsCounted'
  <2>1. Cardinality(In(phase', Present)) = Cardinality(In(phase, Present))
    BY <1>2, <1>9, OneMoves
  <2>2. QED BY <2>1, ClientsAreIn DEF IInv, ActivateForClient, ClientsCounted, In, Present
<1>7. Lag'
  BY LagSame DEF ActivateForClient
<1>8. QED BY <1>1, <1>5, <1>6, <1>7 DEF IInv

LEMMA CloseSilentInv == ASSUME IInv, NEW c \in Conns, CloseSilent(c), UNCHANGED pace PROVE IInv'
<1>1. TypeOK'
  BY DEF IInv, TypeOK, CloseSilent, tasks
<1>2. phase \in [Conns -> Phases] /\ phase' = [phase EXCEPT ![c] = "gone"] /\ phase[c] = "open"
  BY DEF IInv, TypeOK, CloseSilent, Phases
<1>7. /\ phase[c] \notin Present /\ "gone" \notin Present
      /\ phase[c] \notin Past /\ "gone" \in Past /\ "gone" \in Phases
  BY <1>2 DEF Present, Past, Phases
<1>3. ClientsCounted'
  <2>1. Cardinality(In(phase', Present)) = Cardinality(In(phase, Present))
    BY <1>2, <1>7, OneMoves
  <2>2. QED BY <2>1, ClientsAreIn DEF IInv, CloseSilent, ClientsCounted, In, Present
<1>4. SpawnedOnce'
  <2>1. /\ Cardinality(In(phase', Past)) = Cardinality(In(phase, Past)) + 1
        /\ Cardinality(In(phase, Past)) \in Nat
    BY <1>2, <1>7, OneMoves
  <2>2. QED BY <2>1, CardinalityOfConns DEF IInv, TypeOK, CloseSilent, SpawnedOnce, tasks
<1>5. Lag'
  BY LagSame DEF CloseSilent, tasks
<1>6. QED BY <1>1, <1>3, <1>4, <1>5 DEF IInv

\* OneLess never saturates: a client that goes was counted.
LEMMA CloseClientInv == ASSUME IInv, NEW c \in Conns, CloseClient(c), UNCHANGED pace
                        PROVE  IInv' /\ clients > 0 /\ clients' = clients - 1
<1>2. phase \in [Conns -> Phases] /\ phase' = [phase EXCEPT ![c] = "gone"] /\ phase[c] = "counted"
  BY DEF IInv, TypeOK, CloseClient, Phases
<1>8. /\ phase[c] \in Present /\ "gone" \notin Present
      /\ phase[c] \in Past /\ "gone" \in Past /\ "gone" \in Phases
  BY <1>2 DEF Present, Past, Phases
<1>3. /\ clients \in 1..Cardinality(Conns) /\ clients' = clients - 1
      /\ Cardinality(In(phase', Present)) = clients - 1
  <2>1. /\ Cardinality(In(phase', Present)) = Cardinality(In(phase, Present)) - 1
        /\ Cardinality(In(phase, Present)) > 0
    BY <1>2, <1>8, OneMoves
  <2>2. QED BY <2>1, ClientsAreIn, CardinalityOfConns DEF IInv, TypeOK, CloseClient, OneLess
<1>1. TypeOK'
  <2>1. clients' \in 0..Cardinality(Conns)
    BY <1>3, CardinalityOfConns
  <2>2. phase' \in [Conns -> Phases]
    BY <1>2 DEF Phases
  <2>3. grace' \in [Conns -> {"none", "sleeping", "checked", "restoring", "done"}]
    BY DEF IInv, TypeOK, CloseClient
  <2>4. QED BY <2>1, <2>2, <2>3 DEF IInv, TypeOK, CloseClient, tasks, Phases
<1>4. ClientsCounted'
  BY <1>3 DEF ClientsCounted, In, Present
<1>5. SpawnedOnce'
  <2>1. Cardinality(In(phase', Past)) = Cardinality(In(phase, Past))
    BY <1>2, <1>8, OneMoves
  <2>2. QED BY <2>1 DEF IInv, CloseClient, SpawnedOnce, tasks
<1>6. Lag'
  BY LagSame DEF CloseClient, tasks
<1>7. QED BY <1>1, <1>3, <1>4, <1>5, <1>6 DEF IInv

LEMMA TimerInv == ASSUME IInv, NEW c \in Conns, Timer(c), UNCHANGED pace PROVE IInv'
<1>1. TypeOK'
  <2>1. CASE GraceEnds(c)
    BY <2>1 DEF IInv, TypeOK, GraceEnds, tasks
  <2>2. CASE GraceRestores(c)
    BY <2>2 DEF IInv, TypeOK, GraceRestores, SpawnRestore, Waiters
  <2>3. CASE GraceDone(c)
    BY <2>3 DEF IInv, TypeOK, GraceDone, tasks
  <2>4. QED BY <2>1, <2>2, <2>3 DEF Timer
<1>2. /\ UNCHANGED <<phase, clients, activations, commands, tray>>
      /\ UNCHANGED <<holder, called, switched, micActive>>
  BY DEF Timer, GraceEnds, GraceRestores, GraceDone, tasks
<1>3. QED BY <1>1, <1>2, CountsSame, LagSame DEF IInv

(***************************************************************************)
(* The tray, the shutdown and the blocking threads                         *)
(***************************************************************************)
LEMMA CountType == ASSUME IInv
                   PROVE  /\ Cardinality(In(phase, Past)) \in 0..Cardinality(Conns)
                          /\ activations \in Nat /\ commands \in 0..MaxCommands
<1>1. In(phase, Past) \in SUBSET Conns /\ IsFiniteSet(Conns)
  BY ConstantsOK DEF In
<1>2. /\ Cardinality(In(phase, Past)) <= Cardinality(Conns)
      /\ IsFiniteSet(In(phase, Past))
  BY <1>1, FS_Subset
<1>3. QED
  BY <1>2, FS_CardinalityType, CardinalityOfConns DEF IInv, TypeOK

LEMMA TurnInv == ASSUME IInv, TurnOn \/ TurnOff, UNCHANGED pace PROVE IInv'
<1>1. commands' = commands + 1 /\ commands' \in 0..MaxCommands /\ tray = "idle"
  BY CountType, CardinalityOfConns DEF TurnOn, TurnOff, TakesCommand
<1>2. TypeOK'
  BY <1>1 DEF IInv, TypeOK, TurnOn, TurnOff, SpawnRestore, Waiters, tasks
<1>3. SpawnedOnce'
  BY <1>1, CountType, CardinalityOfConns DEF IInv, TurnOn, TurnOff, SpawnedOnce, In, tasks
<1>4. ClientsCounted'
  BY DEF IInv, ClientsCounted, TurnOn, TurnOff
<1>5. Lag'
  BY LagSame DEF TurnOn, TurnOff, tasks
<1>6. QED BY <1>2, <1>3, <1>4, <1>5 DEF IInv

LEMMA CommandLoopInv == ASSUME IInv, CommandLoop, UNCHANGED pace PROVE IInv'
<1>1. CASE ActivateIfConnected
  <2>1. activations' \in {activations, activations + 1} /\ tray = "on" /\ tray' = "idle"
    BY <1>1 DEF ActivateIfConnected, SpawnActivate
  <2>2. SpawnedOnce'
    BY <1>1, <2>1, CountType, CardinalityOfConns DEF IInv, ActivateIfConnected, SpawnedOnce, In
  <2>3. activations' \in 0..(Cardinality(Conns) + MaxCommands)
    BY <2>1, CountType, CardinalityOfConns DEF IInv, SpawnedOnce
  <2>4. TypeOK'
    BY <1>1, <2>3 DEF IInv, TypeOK, ActivateIfConnected
  <2>5. ClientsCounted'
    BY <1>1 DEF IInv, ClientsCounted, ActivateIfConnected
  <2>6. Lag'
    BY <1>1, LagSame DEF ActivateIfConnected
  <2>7. QED BY <2>2, <2>4, <2>5, <2>6 DEF IInv
<1>2. CASE OffDone
  <2>1. TypeOK'
    BY <1>2 DEF IInv, TypeOK, OffDone, tasks
  <2>2. QED BY <1>2, <2>1, CountsSame, LagSame DEF IInv, OffDone, tasks
<1>3. QED BY <1>1, <1>2 DEF CommandLoop

LEMMA ShutdownInv == ASSUME IInv, Quit \/ Shutdown, UNCHANGED pace PROVE IInv'
<1>1. TypeOK'
  BY DEF IInv, TypeOK, Quit, Shutdown, QuitRestores, QuitRestored, Exit, SpawnRestore, Waiters, tasks
<1>2. /\ UNCHANGED <<phase, clients, activations, commands, tray>>
      /\ UNCHANGED <<holder, called, switched, micActive>>
  BY DEF Quit, Shutdown, QuitRestores, QuitRestored, Exit, tasks
<1>3. QED BY <1>1, <1>2, CountsSame, LagSame DEF IInv

LEMMA BlockingInv == ASSUME IInv, Blocking, UNCHANGED pace PROVE IInv'
<1>1. CASE StartActivate
  <2>1. activations \in 1..(Cardinality(Conns) + MaxCommands) /\ activations' = activations - 1
    BY <1>1, CardinalityOfConns DEF IInv, TypeOK, StartActivate
  <2>2. TypeOK'
    <3>1. activations' \in 0..(Cardinality(Conns) + MaxCommands)
      BY <2>1, CardinalityOfConns
    <3>2. QED BY <1>1, <3>1 DEF IInv, TypeOK, StartActivate
  <2>3. SpawnedOnce'
    BY <1>1, <2>1, CountType, CardinalityOfConns DEF IInv, StartActivate, SpawnedOnce, In
  <2>4. ClientsCounted'
    BY <1>1 DEF IInv, ClientsCounted, StartActivate
  <2>5. Lag'
    BY <1>1, ConstantsOK DEF IInv, Lag, StartActivate
  <2>6. QED BY <2>2, <2>3, <2>4, <2>5 DEF IInv
<1>2. CASE CallMicSwitch
  <2>1. TypeOK'
    BY <1>2 DEF IInv, TypeOK, CallMicSwitch
  <2>2. ClientsCounted' /\ SpawnedOnce'
    BY <1>2, CountsSame DEF CallMicSwitch
  <2>3. Lag'
    BY <1>2 DEF IInv, Lag, CallMicSwitch
  <2>4. QED BY <2>1, <2>2, <2>3 DEF IInv
<1>3. CASE StoreActive
  <2>1. TypeOK'
    BY <1>3 DEF IInv, TypeOK, StoreActive, StoredValue
  <2>2. ClientsCounted' /\ SpawnedOnce'
    BY <1>3, CountsSame DEF StoreActive
  <2>3. Lag'
    BY <1>3 DEF Lag, StoreActive, StoredValue
  <2>4. QED BY <2>1, <2>2, <2>3 DEF IInv
<1>4. ASSUME NEW w \in Waiters, StartRestore(w) PROVE IInv'
  <2>1. TypeOK'
    BY <1>4 DEF IInv, TypeOK, StartRestore
  <2>2. ClientsCounted' /\ SpawnedOnce'
    BY <1>4, CountsSame DEF StartRestore
  <2>3. Lag'
    BY <1>4, ConstantsOK DEF IInv, Lag, StartRestore, Waiters
  <2>4. QED BY <2>1, <2>2, <2>3 DEF IInv
<1>5. QED BY <1>1, <1>2, <1>3, <1>4 DEF Blocking

LEMMA NextInv == IInv /\ [Next]_vars => IInv'
<1> SUFFICES ASSUME IInv, [Next]_vars PROVE IInv'
  OBVIOUS
<1>1. CASE UNCHANGED vars
  <2>1. TypeOK'
    BY <1>1 DEF IInv, TypeOK, vars, moving, tasks
  <2>2. QED BY <1>1, <2>1, CountsSame, LagSame DEF IInv, vars, moving, tasks
<1>2. CASE Next
  <2>1. UNCHANGED pace
    BY <1>2 DEF Next
  <2>2. ASSUME NEW c \in Conns,
               Open(c) \/ FirstAudio(c) \/ CloseSilent(c) \/ CloseClient(c) \/ Connection(c) \/ Timer(c)
        PROVE  IInv'
    BY <2>1, <2>2, OpenInv, FirstAudioInv, CloseSilentInv, CloseClientInv, ActivateForClientInv,
       TimerInv DEF Connection
  <2>3. CASE TurnOn \/ TurnOff \/ Quit \/ CommandLoop \/ Shutdown \/ Blocking
    BY <2>1, <2>3, TurnInv, ShutdownInv, CommandLoopInv, BlockingInv
  <2>4. QED BY <1>2, <2>2, <2>3 DEF Next, Events
<1>3. QED BY <1>1, <1>2

LEMMA Inductive == Spec => []IInv
BY InitInv, NextInv, PTL DEF Spec

\* What the status line, the toasts and the timers read is right at every moment (app.rs:154-156,
\* 391-411): the counter counts the clients and mic_active mirrors MicSwitch, at both paces.
THEOREM AlwaysConsistent == Spec => []Consistent
<1>1. IInv => Consistent
  BY DEF IInv, Consistent, Lag, Mirror
<1>2. QED BY <1>1, Inductive, PTL

(***************************************************************************)
(* No activation is lost                                                   *)
(***************************************************************************)

\* While a client waits for the microphone, somebody still holds the promise to activate it: a
\* blocking task, a connection or the command loop.
Promised ==
  clients > 0 /\ enabled /\ ~undone =>
    \/ switched \/ activations > 0 \/ tray = "on"
    \/ holder = "activate" /\ ~called
    \/ \E c \in Conns : phase[c] = "check"

LEMMA InitPromised == Init => Promised
BY DEF Init, Promised

LEMMA ConnectionsPromised ==
  ASSUME IInv, Promised, NEW c \in Conns,
         Open(c) \/ FirstAudio(c) \/ CloseSilent(c) \/ CloseClient(c) \/ ActivateForClient(c),
         UNCHANGED pace
  PROVE  Promised'
<1>0. /\ phase \in [Conns -> Phases] /\ activations \in Nat /\ clients \in Nat
  BY CountType, CardinalityOfConns DEF IInv, TypeOK, Phases
<1>1. CASE Open(c)
  BY <1>0, <1>1 DEF Promised, Open, tasks
<1>2. CASE FirstAudio(c)
  <2>1. CASE IsFirst(clients')
    <3>1. phase'[c] = "check"
      BY <1>0, <1>2, <2>1 DEF FirstAudio
    <3>2. QED BY <3>1 DEF Promised
  <2>2. CASE ~IsFirst(clients')
    <3>1. clients > 0
      BY <1>0, <1>2, <2>2 DEF FirstAudio, IsFirst
    <3>2. ASSUME NEW d \in Conns, phase[d] = "check" PROVE phase'[d] = "check"
      BY <1>0, <1>2, <3>2 DEF FirstAudio
    <3>3. UNCHANGED <<enabled, undone, switched, activations, tray, holder, called>>
      BY <1>2, <2>2 DEF FirstAudio, tasks
    <3>4. QED BY <3>1, <3>2, <3>3 DEF Promised
  <2>3. QED BY <2>1, <2>2
<1>3. CASE CloseSilent(c)
  BY <1>0, <1>3 DEF Promised, CloseSilent, tasks
<1>4. CASE CloseClient(c)
  <2>1. clients > 0
    BY <1>4, CloseClientInv
  <2>2. ASSUME NEW d \in Conns, phase[d] = "check" PROVE phase'[d] = "check"
    BY <1>0, <1>4, <2>2 DEF CloseClient
  <2>3. UNCHANGED <<enabled, undone, switched, activations, tray, holder, called>>
    BY <1>4 DEF CloseClient, tasks
  <2>4. QED BY <2>1, <2>2, <2>3 DEF Promised
<1>5. CASE ActivateForClient(c)
  <2>1. CASE enabled
    <3>1. activations' > 0
      BY <1>0, <1>5, <2>1 DEF ActivateForClient, SpawnActivate
    <3>2. QED BY <3>1 DEF Promised
  <2>2. CASE ~enabled
    BY <1>5, <2>2 DEF Promised, ActivateForClient
  <2>3. QED BY <2>1, <2>2
<1>6. QED BY <1>1, <1>2, <1>3, <1>4, <1>5

LEMMA TrayPromised ==
  ASSUME IInv, Promised, TurnOn \/ TurnOff \/ CommandLoop PROVE Promised'
<1>1. CASE TurnOn
  BY <1>1 DEF Promised, TurnOn
<1>2. CASE TurnOff
  BY <1>2 DEF Promised, TurnOff
<1>3. CASE ActivateIfConnected
  <2>1. CASE clients > 0 /\ enabled
    <3>1. activations' > 0
      BY <1>3, <2>1, CountType DEF ActivateIfConnected, SomebodyConnected, SpawnActivate
    <3>2. QED BY <3>1 DEF Promised
  <2>2. CASE ~(clients > 0 /\ enabled)
    BY <1>3, <2>2 DEF Promised, ActivateIfConnected
  <2>3. QED BY <2>1, <2>2
<1>4. CASE OffDone
  BY <1>4 DEF Promised, OffDone, tasks
<1>5. QED BY <1>1, <1>2, <1>3, <1>4 DEF CommandLoop

LEMMA BlockingPromised == ASSUME IInv, Promised, Blocking PROVE Promised'
<1>1. CASE StartActivate
  <2>1. holder' = "activate" /\ ~called'
    BY <1>1 DEF StartActivate, IInv, Lag
  <2>2. QED BY <2>1 DEF Promised
<1>2. CASE CallMicSwitch
  <2>1. CASE holder = "activate"
    <3>1. undone' = (undone \/ ~switched') /\ switched' \in BOOLEAN
      BY <1>2, <2>1 DEF CallMicSwitch, IInv, TypeOK
    <3>2. switched' \/ undone'
      BY <3>1
    <3>3. QED BY <3>2 DEF Promised
  <2>2. CASE holder # "activate"
    BY <1>2, <2>2 DEF Promised, CallMicSwitch
  <2>3. QED BY <2>1, <2>2
<1>3. CASE StoreActive
  BY <1>3 DEF Promised, StoreActive
<1>4. ASSUME NEW w \in Waiters, StartRestore(w) PROVE Promised'
  BY <1>4, ConstantsOK DEF Promised, StartRestore
<1>5. QED BY <1>1, <1>2, <1>3, <1>4 DEF Blocking

LEMMA NextPromised == IInv /\ Promised /\ [Next]_vars => Promised'
<1> SUFFICES ASSUME IInv, Promised, [Next]_vars PROVE Promised'
  OBVIOUS
<1>1. CASE UNCHANGED vars
  BY <1>1 DEF Promised, vars, moving, tasks
<1>2. CASE Next
  <2>1. UNCHANGED pace
    BY <1>2 DEF Next
  <2>2. ASSUME NEW c \in Conns,
               Open(c) \/ FirstAudio(c) \/ CloseSilent(c) \/ CloseClient(c) \/ Connection(c)
        PROVE  Promised'
    BY <2>1, <2>2, ConnectionsPromised DEF Connection
  <2>3. ASSUME NEW c \in Conns, Timer(c) PROVE Promised'
    BY <2>3 DEF Promised, Timer, GraceEnds, GraceRestores, GraceDone, tasks
  <2>4. CASE TurnOn \/ TurnOff \/ CommandLoop \/ Blocking
    BY <2>4, TrayPromised, BlockingPromised
  <2>5. CASE Quit \/ Shutdown
    BY <2>5 DEF Promised, Quit, Shutdown, QuitRestores, QuitRestored, Exit, tasks
  <2>6. QED BY <1>2, <2>2, <2>3, <2>4, <2>5 DEF Next, Events
<1>3. QED BY <1>1, <1>2

\* A client that connects while the tray turns switching on is not missed by both (app.rs:357-369,
\* 399-400, 815-820), whatever the number of connections and commands.
THEOREM ActivationNotLost == Spec => []NoActivationLost
<1>1. IInv /\ Promised => NoActivationLost
  <2> SUFFICES ASSUME IInv, Promised, ~InFlight, clients > 0, enabled, ~undone PROVE switched
    BY DEF NoActivationLost
  <2>1. holder # "activate"
    BY ConstantsOK DEF InFlight
  <2>2. QED BY <2>1 DEF Promised, InFlight
<1>2. QED BY <1>1, Inductive, InitPromised, NextPromised, PTL DEF Spec

(***************************************************************************)
(* At the calm pace, every step is a step of MicPolicy                     *)
(***************************************************************************)

\* Why a call of MicSwitch that is still to come agrees with the policy when it comes: the state
\* that made somebody ask for it lasts, because the next event waits for the call.
TimersAgree ==
  /\ \A c \in Conns : grace[c] \in {"checked", "restoring"} => clients = 0
  /\ \A c \in Conns : c \in restores => grace[c] = "restoring"

RestoreAgrees ==
  /\ TimersAgree
  /\ tray = "off" \/ "tray" \in restores => ~enabled
  /\ "quit" \in restores => quit # "no"

ActivateAgrees ==
  /\ \A c \in Conns : phase[c] = "check" => quit = "no"
  /\ tray = "on" => enabled /\ quit = "no"
  /\ activations > 0 \/ holder = "activate" => clients > 0 /\ enabled /\ quit = "no"

CalmInv == /\ holder \in Waiters => holder \in restores
           /\ Calm => RestoreAgrees /\ ActivateAgrees

LEMMA InitCalm == Init => CalmInv
<1> SUFFICES ASSUME Init PROVE CalmInv
  OBVIOUS
<1>1. holder \notin Waiters /\ holder # "activate"
  BY ConstantsOK DEF Init, Waiters
<1>2. RestoreAgrees /\ ActivateAgrees
  BY <1>1 DEF Init, RestoreAgrees, TimersAgree, ActivateAgrees
<1>3. QED BY <1>1, <1>2 DEF CalmInv

\* An event at the calm pace finds nothing under way.
LEMMA CalmEvent ==
  ASSUME IInv, Event, Calm
  PROVE  /\ restores = {} /\ activations = 0 /\ holder = None /\ tray = "idle" /\ quit = "no"
         /\ \A c \in Conns : phase[c] # "check" /\ grace[c] \notin {"checked", "restoring"}
<1>1. ~InFlight /\ quit # "exited"
  BY DEF Event, Running
<1>2. restores = {} /\ holder = None /\ tray = "idle"
      /\ \A c \in Conns : phase[c] # "check" /\ grace[c] \notin {"checked", "restoring"}
  BY <1>1 DEF InFlight
<1>3. activations = 0
  BY <1>1, CountType DEF InFlight
<1>4. quit = "no"
  BY <1>1 DEF InFlight, IInv, TypeOK
<1>5. QED BY <1>2, <1>3, <1>4

\* A connection in phase "check" is on the counter.
LEMMA CheckedIsCounted == ASSUME IInv, NEW c \in Conns, phase[c] = "check" PROVE clients > 0
<1>1. In(phase, Present) \in SUBSET Conns /\ c \in In(phase, Present)
  BY DEF In, Present
<1>2. IsFiniteSet(In(phase, Present))
  BY <1>1, ConstantsOK, FS_Subset
<1>3. Cardinality(In(phase, Present)) # 0
  BY <1>1, <1>2, FS_EmptySet
<1>4. QED BY <1>2, <1>3, ClientsAreIn, FS_CardinalityType DEF IInv

LEMMA EventsCalm ==
  ASSUME IInv, CalmInv, UNCHANGED pace,
         \/ \E c \in Conns : Open(c) \/ FirstAudio(c) \/ CloseSilent(c) \/ CloseClient(c)
         \/ TurnOn \/ TurnOff \/ Quit
  PROVE  CalmInv'
<1>1. Event /\ UNCHANGED <<holder, activations, pace>> /\ restores' \in {restores, restores \cup {"tray"}}
  BY DEF Open, FirstAudio, CloseSilent, CloseClient, TurnOn, TurnOff, Quit, TakesCommand, tasks,
         SpawnRestore
<1>2. holder' \in Waiters => holder' \in restores'
  BY <1>1 DEF CalmInv
<1>3. ASSUME Calm PROVE RestoreAgrees' /\ ActivateAgrees'
  <2>1. /\ restores = {} /\ activations = 0 /\ holder = None /\ tray = "idle" /\ quit = "no"
        /\ \A c \in Conns : phase[c] # "check" /\ grace[c] \notin {"checked", "restoring"}
    BY <1>1, <1>3, CalmEvent
  <2>2. activations' = 0 /\ holder' # "activate"
    BY <1>1, <2>1, ConstantsOK
  <2>3. \A c \in Conns : grace'[c] \notin {"checked", "restoring"}
    BY <2>1 DEF IInv, TypeOK, Open, FirstAudio, CloseSilent, CloseClient, TurnOn, TurnOff, Quit
  <2>4. CASE \E c \in Conns : Open(c) \/ FirstAudio(c) \/ CloseSilent(c) \/ CloseClient(c)
    <3>1. UNCHANGED <<tray, quit, restores>>
      BY <2>4 DEF Open, FirstAudio, CloseSilent, CloseClient, tasks
    <3>2. QED BY <2>1, <2>2, <2>3, <3>1 DEF RestoreAgrees, TimersAgree, ActivateAgrees
  <2>5. CASE TurnOn
    <3>1. enabled' /\ tray' = "on" /\ UNCHANGED <<quit, restores, phase>>
      BY <2>5 DEF TurnOn, tasks
    <3>2. QED BY <2>1, <2>2, <2>3, <3>1 DEF RestoreAgrees, TimersAgree, ActivateAgrees
  <2>6. CASE TurnOff
    <3>1. ~enabled' /\ tray' = "off" /\ restores' = {"tray"} /\ UNCHANGED <<quit, phase>>
      BY <2>1, <2>6 DEF TurnOff, SpawnRestore
    <3>2. QED BY <2>1, <2>2, <2>3, <3>1, ConstantsOK DEF RestoreAgrees, TimersAgree, ActivateAgrees
  <2>7. CASE Quit
    <3>1. UNCHANGED <<tray, restores, phase>>
      BY <2>7 DEF Quit, tasks
    <3>2. QED BY <2>1, <2>2, <2>3, <3>1 DEF RestoreAgrees, TimersAgree, ActivateAgrees
  <2>8. QED BY <2>4, <2>5, <2>6, <2>7
<1>4. QED BY <1>1, <1>2, <1>3 DEF CalmInv, Calm

LEMMA TasksCalm ==
  ASSUME IInv, CalmInv, UNCHANGED pace,
         CommandLoop \/ Shutdown \/ \E c \in Conns : Connection(c) \/ Timer(c)
  PROVE  CalmInv'
<1>1. UNCHANGED <<holder, clients, enabled, pace>> /\ restores \subseteq restores'
  BY DEF CommandLoop, ActivateIfConnected, OffDone, Shutdown, QuitRestores, QuitRestored, Exit,
         Connection, ActivateForClient, Timer, GraceEnds, GraceRestores, GraceDone, SpawnRestore, tasks
<1>2. holder' \in Waiters => holder' \in restores'
  BY <1>1 DEF CalmInv
<1>3. ASSUME Calm PROVE RestoreAgrees' /\ ActivateAgrees'
  <2>0. RestoreAgrees /\ ActivateAgrees
    BY <1>3 DEF CalmInv
  <2>1. CASE ActivateIfConnected
    <3>1. tray' = "idle" /\ UNCHANGED <<quit, restores, phase, grace>>
      BY <2>1 DEF ActivateIfConnected
    <3>2. RestoreAgrees'
      BY <1>1, <2>0, <3>1 DEF RestoreAgrees, TimersAgree
    <3>3. activations' > 0 => activations > 0 \/ (clients > 0 /\ enabled /\ tray = "on")
      BY <2>1 DEF ActivateIfConnected, SomebodyConnected, SpawnActivate
    <3>4. QED BY <1>1, <2>0, <3>1, <3>2, <3>3 DEF ActivateAgrees
  <2>2. CASE OffDone
    BY <1>1, <2>0, <2>2 DEF OffDone, RestoreAgrees, TimersAgree, ActivateAgrees, Restored, tasks
  <2>3. CASE Shutdown
    <3>1. /\ quit # "no" /\ quit' # "no" /\ restores' \in {restores, restores \cup {"quit"}}
          /\ UNCHANGED <<phase, grace, tray, activations>>
      BY <2>3 DEF Shutdown, QuitRestores, QuitRestored, Exit, SpawnRestore, tasks
    <3>2. QED BY <1>1, <2>0, <3>1, ConstantsOK DEF RestoreAgrees, TimersAgree, ActivateAgrees
  <2>4. ASSUME NEW c \in Conns, ActivateForClient(c) PROVE RestoreAgrees' /\ ActivateAgrees'
    <3>1. UNCHANGED <<quit, restores, grace, tray>>
      BY <2>4 DEF ActivateForClient
    <3>2. RestoreAgrees'
      BY <1>1, <2>0, <3>1 DEF RestoreAgrees, TimersAgree
    <3>3. clients > 0 /\ quit = "no"
      BY <2>0, <2>4, CheckedIsCounted DEF ActivateForClient, ActivateAgrees
    <3>4. activations' > 0 => activations > 0 \/ enabled
      BY <2>4 DEF ActivateForClient, SpawnActivate
    <3>5. \A d \in Conns : phase'[d] = "check" => phase[d] = "check"
      BY <2>4 DEF ActivateForClient, IInv, TypeOK
    <3>6. QED BY <1>1, <2>0, <3>1, <3>2, <3>3, <3>4, <3>5 DEF ActivateAgrees
  <2>5. ASSUME NEW c \in Conns, Timer(c) PROVE RestoreAgrees' /\ ActivateAgrees'
    <3>1. UNCHANGED <<quit, phase, tray, activations>>
      BY <2>5 DEF Timer, GraceEnds, GraceRestores, GraceDone, tasks
    <3>2. ActivateAgrees'
      BY <1>1, <2>0, <3>1 DEF ActivateAgrees
    <3>3. grace \in [Conns -> {"none", "sleeping", "checked", "restoring", "done"}]
      BY DEF IInv, TypeOK
    <3>4. CASE GraceEnds(c)
      <4>1. grace' = [grace EXCEPT ![c] = IF clients = 0 THEN "checked" ELSE "done"]
            /\ restores' = restores /\ grace[c] = "sleeping"
        BY <3>4 DEF GraceEnds, NobodyBack, tasks
      <4>2. \A d \in Conns : d # c => grace'[d] = grace[d]
        BY <3>3, <4>1
      <4>3. grace'[c] = IF clients = 0 THEN "checked" ELSE "done"
        BY <3>3, <4>1
      <4>4. c \notin restores
        BY <2>0, <4>1 DEF RestoreAgrees, TimersAgree
      <4>5. TimersAgree'
        <5>1. \A d \in Conns : grace'[d] \in {"checked", "restoring"} => clients = 0
          BY <2>0, <4>1, <4>2, <4>3, <4>4 DEF RestoreAgrees, TimersAgree
        <5>2. \A d \in Conns : d \in restores' => grace'[d] = "restoring"
          BY <2>0, <4>1, <4>2, <4>3, <4>4 DEF RestoreAgrees, TimersAgree
        <5>3. QED BY <1>1, <5>1, <5>2 DEF TimersAgree
      <4>6. QED BY <1>1, <2>0, <3>1, <3>2, <4>1, <4>5 DEF RestoreAgrees
    <3>5. CASE GraceRestores(c)
      <4>1. grace' = [grace EXCEPT ![c] = "restoring"] /\ grace[c] = "checked"
            /\ restores' = restores \cup {c}
        BY <3>5 DEF GraceRestores, SpawnRestore
      <4>2. \A d \in Conns : d # c => grace'[d] = grace[d]
        BY <3>3, <4>1
      <4>3. grace'[c] = "restoring"
        BY <3>3, <4>1
      <4>4. c # "tray" /\ c # "quit"
        BY ConstantsOK
      <4>5. clients = 0
        BY <2>0, <4>1 DEF RestoreAgrees, TimersAgree
      <4>6. TimersAgree'
        <5>1. \A d \in Conns : grace'[d] \in {"checked", "restoring"} => clients = 0
          BY <2>0, <4>1, <4>2, <4>3, <4>4, <4>5 DEF RestoreAgrees, TimersAgree
        <5>2. \A d \in Conns : d \in restores' => grace'[d] = "restoring"
          BY <2>0, <4>1, <4>2, <4>3, <4>4, <4>5 DEF RestoreAgrees, TimersAgree
        <5>3. QED BY <1>1, <5>1, <5>2 DEF TimersAgree
      <4>7. QED BY <1>1, <2>0, <3>1, <3>2, <4>1, <4>4, <4>6 DEF RestoreAgrees
    <3>6. CASE GraceDone(c)
      <4>1. grace' = [grace EXCEPT ![c] = "done"] /\ restores' = restores /\ c \notin restores
        BY <3>6 DEF GraceDone, Restored, tasks
      <4>2. \A d \in Conns : d # c => grace'[d] = grace[d]
        BY <3>3, <4>1
      <4>3. grace'[c] = "done"
        BY <3>3, <4>1
      <4>4. TimersAgree'
        <5>1. \A d \in Conns : grace'[d] \in {"checked", "restoring"} => clients = 0
          BY <2>0, <4>1, <4>2, <4>3 DEF RestoreAgrees, TimersAgree
        <5>2. \A d \in Conns : d \in restores' => grace'[d] = "restoring"
          BY <2>0, <4>1, <4>2, <4>3 DEF RestoreAgrees, TimersAgree
        <5>3. QED BY <1>1, <5>1, <5>2 DEF TimersAgree
      <4>5. QED BY <1>1, <2>0, <3>1, <3>2, <4>1, <4>4 DEF RestoreAgrees
    <3>7. QED BY <2>5, <3>2, <3>4, <3>5, <3>6 DEF Timer
  <2>6. QED BY <2>1, <2>2, <2>3, <2>4, <2>5 DEF CommandLoop, Connection
<1>4. QED BY <1>1, <1>2, <1>3 DEF CalmInv, Calm

LEMMA BlockingCalm == ASSUME IInv, CalmInv, UNCHANGED pace, Blocking PROVE CalmInv'
<1>1. UNCHANGED <<phase, clients, enabled, grace, tray, quit, pace>> /\ restores' \subseteq restores
  BY DEF Blocking, StartActivate, CallMicSwitch, StoreActive, StartRestore
<1>2. holder' \in Waiters => holder' \in restores'
  <2>1. "activate" \notin Waiters /\ None \notin Waiters
    BY ConstantsOK DEF Waiters
  <2>2. CASE StartActivate \/ StoreActive
    BY <2>1, <2>2 DEF StartActivate, StoreActive
  <2>3. CASE CallMicSwitch
    BY <2>3 DEF CalmInv, CallMicSwitch
  <2>4. CASE \E w \in Waiters : StartRestore(w)
    BY <2>4 DEF StartRestore
  <2>5. QED BY <2>2, <2>3, <2>4 DEF Blocking
<1>3. activations' > 0 \/ holder' = "activate" => activations > 0 \/ holder = "activate"
  BY ConstantsOK, CountType DEF Waiters, Blocking, StartActivate, CallMicSwitch, StoreActive, StartRestore
<1>4. CASE Calm
  BY <1>1, <1>2, <1>3, <1>4 DEF CalmInv, RestoreAgrees, TimersAgree, ActivateAgrees
<1>5. QED BY <1>1, <1>2, <1>4 DEF CalmInv, Calm

LEMMA NextCalm == IInv /\ CalmInv /\ [Next]_vars => CalmInv'
<1> SUFFICES ASSUME IInv, CalmInv, [Next]_vars PROVE CalmInv'
  OBVIOUS
<1>1. CASE UNCHANGED vars
  BY <1>1 DEF CalmInv, Calm, RestoreAgrees, TimersAgree, ActivateAgrees, vars, moving, tasks
<1>2. CASE Next
  BY <1>2, EventsCalm, TasksCalm, BlockingCalm DEF Next, Events
<1>3. QED BY <1>1, <1>2

LEMMA InductiveCalm == Spec => [](IInv /\ CalmInv)
BY InitInv, NextInv, InitCalm, NextCalm, PTL DEF Spec

\* Nothing the policy sees changes.
LEMMA PolicyStutters ==
  ASSUME UNCHANGED <<pace, clients, enabled, switched>>,
         Calm => (quit' = "no" <=> quit = "no")
  PROVE  UNCHANGED Policy!vars
BY DEF Calm, Policy!vars

LEMMA EventsRefine ==
  ASSUME IInv, UNCHANGED pace, Calm,
         \/ \E c \in Conns : Open(c) \/ FirstAudio(c) \/ CloseSilent(c) \/ CloseClient(c)
         \/ TurnOn \/ TurnOff \/ Quit
  PROVE  [Policy!Next]_(Policy!vars)
<1>1. quit = "no" /\ UNCHANGED <<pace, switched>>
  <2>1. Event /\ UNCHANGED switched
    BY DEF Open, FirstAudio, CloseSilent, CloseClient, TurnOn, TurnOff, Quit, TakesCommand, tasks
  <2>2. QED BY <2>1, CalmEvent
<1>2. ASSUME NEW c \in Conns, FirstAudio(c) PROVE Policy!Connect
  <2>1. clients < Cardinality(Conns) /\ clients' = clients + 1
    BY <1>2, FirstAudioInv DEF FirstAudio
  <2>2. UNCHANGED <<enabled, quit>>
    BY <1>2 DEF FirstAudio
  <2>3. QED BY <1>1, <2>1, <2>2 DEF Calm, Policy!Connect
<1>3. ASSUME NEW c \in Conns, CloseClient(c) PROVE Policy!Disconnect
  <2>1. clients > 0 /\ clients' = clients - 1
    BY <1>3, CloseClientInv
  <2>2. UNCHANGED <<enabled, quit>>
    BY <1>3 DEF CloseClient
  <2>3. QED BY <1>1, <2>1, <2>2 DEF Calm, Policy!Disconnect
<1>4. ASSUME NEW c \in Conns, Open(c) \/ CloseSilent(c) PROVE UNCHANGED Policy!vars
  BY <1>1, <1>4, PolicyStutters DEF Open, CloseSilent
<1>5. CASE TurnOn \/ TurnOff \/ Quit
  <2>1. enabled \in BOOLEAN /\ UNCHANGED clients
    BY <1>5 DEF IInv, TypeOK, TurnOn, TurnOff, Quit
  <2>2. \/ enabled' = TRUE /\ quit' = "no"
        \/ enabled' = FALSE /\ quit' = "no"
        \/ enabled' = enabled /\ quit' = "asked"
    BY <1>1, <1>5 DEF TurnOn, TurnOff, Quit
  <2>3. Policy!Toggle \/ UNCHANGED Policy!vars
    BY <1>1, <2>1, <2>2 DEF Calm, Policy!Toggle, Policy!vars
  <2>4. QED BY <2>3 DEF Policy!Next
<1>6. QED BY <1>2, <1>3, <1>4, <1>5 DEF Policy!Next

\* A call of MicSwitch is made only while what asked for it still holds.
LEMMA CallRefines ==
  ASSUME IInv, CalmInv, UNCHANGED pace, Calm, CallMicSwitch
  PROVE  Policy!Switch \/ Policy!Restore \/ UNCHANGED Policy!vars
<1>1. UNCHANGED <<clients, enabled, quit>> /\ switched \in BOOLEAN /\ enabled \in BOOLEAN
  BY DEF CallMicSwitch, IInv, TypeOK
<1>2. CASE holder = "activate"
  <2>1. clients > 0 /\ enabled /\ quit = "no"
    BY <1>2 DEF CalmInv, ActivateAgrees
  <2>2. switched' = TRUE
    BY <1>2 DEF CallMicSwitch
  <2>3. QED BY <1>1, <2>1, <2>2 DEF Calm, Policy!Switch, Policy!Wanted, Policy!vars
<1>3. CASE holder # "activate"
  <2>1. holder \in restores
    BY <1>3 DEF CalmInv, CallMicSwitch, IInv, TypeOK
  <2>2. clients = 0 \/ ~enabled \/ quit # "no"
    <3>1. holder \in Conns \/ holder = "tray" \/ holder = "quit"
      BY <2>1 DEF IInv, TypeOK, Waiters
    <3>2. RestoreAgrees
      BY DEF CalmInv
    <3>3. CASE holder \in Conns
      <4>1. grace[holder] \in {"checked", "restoring"}
        BY <2>1, <3>2, <3>3 DEF RestoreAgrees, TimersAgree
      <4>2. QED BY <3>2, <3>3, <4>1 DEF RestoreAgrees, TimersAgree
    <3>4. CASE holder = "tray" \/ holder = "quit"
      BY <2>1, <3>2, <3>4 DEF RestoreAgrees
    <3>5. QED BY <3>1, <3>3, <3>4
  <2>3. switched' = FALSE
    BY <1>3 DEF CallMicSwitch
  <2>4. ~Policy!Wanted
    <3>1. CASE clients = 0
      <4>1. ~(clients > 0)
        BY <3>1
      <4>2. QED BY <4>1 DEF Calm, Policy!Wanted
    <3>2. CASE ~enabled \/ quit # "no"
      BY <3>2 DEF Policy!Wanted
    <3>3. QED BY <2>2, <3>1, <3>2
  <2>5. QED BY <1>1, <2>3, <2>4 DEF Calm, Policy!Restore, Policy!vars
<1>4. QED BY <1>2, <1>3

LEMMA NextRefines == IInv /\ CalmInv /\ [Next]_vars => [Policy!Next]_(Policy!vars)
<1> SUFFICES ASSUME IInv, CalmInv, [Next]_vars PROVE [Policy!Next]_(Policy!vars)
  OBVIOUS
<1>1. CASE UNCHANGED vars
  <2>1. UNCHANGED <<pace, clients, enabled, switched, quit>>
    BY <1>1 DEF vars, moving, tasks
  <2>2. QED BY <2>1, PolicyStutters
<1>2. CASE Next /\ ~Calm
  <2>1. UNCHANGED pace
    BY <1>2 DEF Next
  <2>2. QED BY <1>2, <2>1 DEF Calm, Policy!vars
<1>3. CASE Next /\ Calm
  <2>1. UNCHANGED pace
    BY <1>3 DEF Next
  <2>2. CASE CallMicSwitch
    BY <1>3, <2>1, <2>2, CallRefines DEF Policy!Next
  <2>3. CASE Events
    BY <1>3, <2>1, <2>3, EventsRefine DEF Events
  <2>4. CASE CommandLoop \/ Shutdown \/ \E c \in Conns : Connection(c) \/ Timer(c)
    <3>1. UNCHANGED <<clients, enabled, switched>> /\ (quit' = "no" <=> quit = "no")
      BY <2>4 DEF CommandLoop, ActivateIfConnected, OffDone, Shutdown, QuitRestores, QuitRestored,
                  Exit, Connection, ActivateForClient, Timer, GraceEnds, GraceRestores, GraceDone,
                  tasks
    <3>2. QED BY <2>1, <3>1, PolicyStutters
  <2>5. CASE StartActivate \/ StoreActive \/ \E w \in Waiters : StartRestore(w)
    <3>1. UNCHANGED <<clients, enabled, switched, quit>>
      BY <2>5 DEF StartActivate, StoreActive, StartRestore
    <3>2. QED BY <2>1, <3>1, PolicyStutters
  <2>6. QED BY <1>3, <2>2, <2>3, <2>4, <2>5 DEF Next, Blocking
<1>4. QED BY <1>1, <1>2, <1>3

LEMMA InitRefines == Init => Policy!Init
BY DEF Init, Calm, Policy!Init

\* What app.rs:9-11 promises, as far as safety goes: at the calm pace the microphone is switched
\* only while a client is connected and switching is on, and restored only otherwise, and the
\* counter the decisions are taken from moves by one client at a time and within its bounds.
THEOREM RefinesPolicy == Spec => Policy!Init /\ [][Policy!Next]_(Policy!vars)
BY InitRefines, NextRefines, InductiveCalm, PTL DEF Spec
=============================================================================
