--------------------------- MODULE LifecycleProofs ---------------------------
(***************************************************************************)
(* Proofs about Lifecycle for every number of acts and faults: at most one *)
(* process has the log and the microphone, a Quit lasts, the microphone is *)
(* never left on CABLE Output without its record, and a process that finds *)
(* no output has recovered the microphone first.                           *)
(***************************************************************************)
EXTENDS Lifecycle, SequenceTheorems, TLAPS

(***************************************************************************)
(* The order of main() and of install.ps1                                  *)
(***************************************************************************)
Early == {"none", "begin", "mark", "bind"}

\* From binding the port to the end of the process.
Bound == {"log", "recover", "output", "serving", "restoring", "draining"}

LEMMA Order ==
  /\ StartOrder[1] = "mark" /\ StartSteps = {"mark", "bind", "log", "recover", "output"}
  /\ After("mark") = "bind" /\ After("bind") = "log" /\ After("log") = "recover"
  /\ After("recover") = "output" /\ After("output") = "serving"
<1>1. /\ DOMAIN StartOrder = 1..5 /\ Len(StartOrder) = 5
      /\ StartOrder[1] = "mark" /\ StartOrder[2] = "bind" /\ StartOrder[3] = "log"
      /\ StartOrder[4] = "recover" /\ StartOrder[5] = "output"
  BY DEF StartOrder
<1>2. \A i \in 1..5 : i = 1 \/ i = 2 \/ i = 3 \/ i = 4 \/ i = 5
  OBVIOUS
<1>3. StartSteps = {"mark", "bind", "log", "recover", "output"}
  BY <1>1, <1>2 DEF StartSteps
<1>4. ASSUME NEW i \in 1..5, NEW s, s = StartOrder[i]
      PROVE  (CHOOSE k \in DOMAIN StartOrder : StartOrder[k] = s) = i
  BY <1>1, <1>2, <1>4
<1>5. After("mark") = "bind"
  <2>1. (CHOOSE k \in DOMAIN StartOrder : StartOrder[k] = "mark") = 1
    BY <1>1, <1>4
  <2>2. QED BY <1>1, <2>1 DEF After
<1>6. After("bind") = "log"
  <2>1. (CHOOSE k \in DOMAIN StartOrder : StartOrder[k] = "bind") = 2
    BY <1>1, <1>4
  <2>2. QED BY <1>1, <2>1 DEF After
<1>7. After("log") = "recover"
  <2>1. (CHOOSE k \in DOMAIN StartOrder : StartOrder[k] = "log") = 3
    BY <1>1, <1>4
  <2>2. QED BY <1>1, <2>1 DEF After
<1>8. After("recover") = "output"
  <2>1. (CHOOSE k \in DOMAIN StartOrder : StartOrder[k] = "recover") = 4
    BY <1>1, <1>4
  <2>2. QED BY <1>1, <2>1 DEF After
<1>9. After("output") = "serving"
  <2>1. (CHOOSE k \in DOMAIN StartOrder : StartOrder[k] = "output") = 5
    BY <1>1, <1>4
  <2>2. QED BY <1>1, <2>1 DEF After
<1>10. QED BY <1>1, <1>3, <1>5, <1>6, <1>7, <1>8, <1>9

\* What is left of the script is the end of the order it follows.
InOrder ==
  \/ script.uninstalls /\ \E i \in 1..9 : script.left = SubSeq(UninstallOrder, i, 8)
  \/ ~script.uninstalls /\ \E i \in 1..8 : script.left = SubSeq(InstallOrder, i, 7)

LEMMA Orders == \E S : /\ UninstallOrder \in Seq(S) /\ Len(UninstallOrder) = 8
                      /\ InstallOrder \in Seq(S) /\ Len(InstallOrder) = 7
<1>. DEFINE Steps == {"disable", "endTask", "unregister", "stopAll", "restore", "restored", "forget",
                      "delete", "copy", "register", "unmark", "start", "answer"}
<1>1. UninstallOrder \in Seq(Steps)
  BY DEF UninstallOrder
<1>2. InstallOrder \in Seq(Steps)
  BY DEF InstallOrder
<1>3. Len(UninstallOrder) = 8
  BY DEF UninstallOrder
<1>4. Len(InstallOrder) = 7
  BY DEF InstallOrder
<1>. HIDE DEF Steps
<1>5. QED BY <1>1, <1>2, <1>3, <1>4

\* What a script that is at step s may be, and how much of it is left.
LEMMA StepAt ==
  ASSUME InOrder, NEW s, Does(s)
  PROVE  /\ script.uninstalls =>
              \E i \in 1..8 : /\ s = UninstallOrder[i] /\ Len(script.left) = 9 - i
                              /\ Tail(script.left) = SubSeq(UninstallOrder, i + 1, 8)
                              /\ Len(Tail(script.left)) = 8 - i
         /\ ~script.uninstalls =>
              \E i \in 1..7 : /\ s = InstallOrder[i] /\ Len(script.left) = 8 - i
                              /\ Tail(script.left) = SubSeq(InstallOrder, i + 1, 7)
<1>1. PICK S : /\ UninstallOrder \in Seq(S) /\ Len(UninstallOrder) = 8
               /\ InstallOrder \in Seq(S) /\ Len(InstallOrder) = 7
  BY Orders
<1>2. script.left # <<>> /\ Head(script.left) = s
  BY DEF Does
<1>3. CASE script.uninstalls
  <2>1. PICK i \in 1..9 : script.left = SubSeq(UninstallOrder, i, 8)
    BY <1>3 DEF InOrder
  <2>2. i # 9
    BY <1>1, <1>2, <2>1, SubSeqEmpty
  <2>3. i \in 1..8
    BY <2>2
  <2>4. Head(script.left) = UninstallOrder[i] /\ Tail(script.left) = SubSeq(UninstallOrder, i + 1, 8)
    BY <1>1, <2>1, <2>3, HeadTailOfSubSeq
  <2>5. Len(script.left) = 9 - i
    BY <1>1, <2>1, <2>3, SubSeqProperties
  <2>6. Len(SubSeq(UninstallOrder, i + 1, 8)) = 8 - i
    BY <1>1, <2>3, SubSeqProperties
  <2>7. QED BY <1>2, <1>3, <2>3, <2>4, <2>5, <2>6
<1>4. CASE ~script.uninstalls
  <2>1. PICK i \in 1..8 : script.left = SubSeq(InstallOrder, i, 7)
    BY <1>4 DEF InOrder
  <2>2. i # 8
    BY <1>1, <1>2, <2>1, SubSeqEmpty
  <2>3. i \in 1..7
    BY <2>2
  <2>4. Head(script.left) = InstallOrder[i] /\ Tail(script.left) = SubSeq(InstallOrder, i + 1, 7)
    BY <1>1, <2>1, <2>3, HeadTailOfSubSeq
  <2>5. Len(script.left) = 8 - i
    BY <1>1, <2>1, <2>3, SubSeqProperties
  <2>6. QED BY <1>2, <1>4, <2>3, <2>4, <2>5
<1>5. QED BY <1>3, <1>4

LEMMA WhichStep ==
  ASSUME InOrder
  PROVE  /\ script.uninstalls =>
              /\ Does("disable") => Len(script.left) = 8
              /\ Does("endTask") => Len(script.left) = 7
              /\ Does("unregister") => Len(script.left) = 6
              /\ Does("stopAll") => Len(script.left) = 5
              /\ Does("restore") => Len(script.left) = 4
              /\ Does("restored") => Len(script.left) = 3
              /\ Does("forget") => Len(script.left) = 2
              /\ Does("delete") => Len(script.left) = 1
              /\ ~Does("copy") /\ ~Does("register") /\ ~Does("unmark") /\ ~Does("start")
              /\ ~Does("answer")
         /\ ~script.uninstalls =>
              /\ ~Does("endTask") /\ ~Does("unregister") /\ ~Does("restore") /\ ~Does("restored")
              /\ ~Does("forget") /\ ~Does("delete")
<1>1. \A i \in 1..8 : i = 1 \/ i = 2 \/ i = 3 \/ i = 4 \/ i = 5 \/ i = 6 \/ i = 7 \/ i = 8
  OBVIOUS
<1>2. /\ UninstallOrder[1] = "disable" /\ UninstallOrder[2] = "endTask"
      /\ UninstallOrder[3] = "unregister" /\ UninstallOrder[4] = "stopAll"
      /\ UninstallOrder[5] = "restore" /\ UninstallOrder[6] = "restored"
      /\ UninstallOrder[7] = "forget" /\ UninstallOrder[8] = "delete"
  BY DEF UninstallOrder
<1>3. /\ InstallOrder[1] = "disable" /\ InstallOrder[2] = "stopAll" /\ InstallOrder[3] = "copy"
      /\ InstallOrder[4] = "register" /\ InstallOrder[5] = "unmark" /\ InstallOrder[6] = "start"
      /\ InstallOrder[7] = "answer"
  BY DEF InstallOrder
<1>4. ASSUME NEW s, Does(s), script.uninstalls
      PROVE  \E i \in 1..8 : s = UninstallOrder[i] /\ Len(script.left) = 9 - i
  BY <1>4, StepAt
<1>5. ASSUME NEW s, Does(s), ~script.uninstalls
      PROVE  \E i \in 1..8 : s = InstallOrder[i] /\ i # 8
  <2>1. PICK i \in 1..7 : s = InstallOrder[i]
    BY <1>5, StepAt
  <2>2. QED BY <2>1
<1>6. CASE script.uninstalls
  <2>1. ASSUME NEW s, Does(s)
        PROVE  \/ s = "disable" /\ Len(script.left) = 8
               \/ s = "endTask" /\ Len(script.left) = 7
               \/ s = "unregister" /\ Len(script.left) = 6
               \/ s = "stopAll" /\ Len(script.left) = 5
               \/ s = "restore" /\ Len(script.left) = 4
               \/ s = "restored" /\ Len(script.left) = 3
               \/ s = "forget" /\ Len(script.left) = 2
               \/ s = "delete" /\ Len(script.left) = 1
    <3>1. PICK i \in 1..8 : s = UninstallOrder[i] /\ Len(script.left) = 9 - i
      BY <1>4, <1>6, <2>1
    <3>2. QED BY <1>1, <1>2, <3>1
  <2>2. QED BY <1>6, <2>1
<1>7. CASE ~script.uninstalls
  <2>1. ASSUME NEW s, Does(s)
        PROVE  s \in {"disable", "stopAll", "copy", "register", "unmark", "start", "answer"}
    <3>1. PICK i \in 1..8 : s = InstallOrder[i] /\ i # 8
      BY <1>5, <1>7, <2>1
    <3>2. QED BY <1>1, <1>3, <3>1
  <2>2. QED BY <1>7, <2>1
<1>8. QED BY <1>6, <1>7

LEMMA ScriptLen == ASSUME InOrder PROVE Len(script.left) \in Int
<1>1. ASSUME NEW o, NEW n \in Nat, NEW S, o \in Seq(S), Len(o) = n, NEW i \in 1..(n + 1)
      PROVE  Len(SubSeq(o, i, n)) \in Int
  <2>1. \A k \in i..n : o[k] \in S
    BY <1>1, ElementOfSeq
  <2>2. Len(SubSeq(o, i, n)) = IF i <= n THEN n - i + 1 ELSE 0
    BY <2>1, SubSeqProperties
  <2>3. QED BY <2>2
<1>2. QED BY <1>1, Orders DEF InOrder

\* The script without its first step.
Rest(b) == [left |-> Tail(script.left), uninstalls |-> script.uninstalls, reenables |-> b]

LEMMA NextOfIsRest ==
  ASSUME NEW S, script \in [left : S, uninstalls : BOOLEAN, reenables : BOOLEAN]
  PROVE  /\ NextOf = Rest(script.reenables) /\ script.reenables \in BOOLEAN
         /\ \A b \in BOOLEAN : [NextOf EXCEPT !.reenables = b] = Rest(b)
<1>. DEFINE T == S \cup {Tail(script.left)}
            R == [left : T, uninstalls : BOOLEAN, reenables : BOOLEAN]
<1>1. script \in R /\ Tail(script.left) \in T
  OBVIOUS
<1>. HIDE DEF T
<1>2. ASSUME NEW f \in R, NEW x \in T
      PROVE  /\ [f EXCEPT !.left = x] = [left |-> x, uninstalls |-> f.uninstalls, reenables |-> f.reenables]
             /\ [f EXCEPT !.left = x] \in R
  <2>1. [f EXCEPT !.left = x] = [left |-> x, uninstalls |-> f.uninstalls, reenables |-> f.reenables]
    OBVIOUS
  <2>2. [f EXCEPT !.left = x] \in R
    OBVIOUS
  <2>3. QED BY <2>1, <2>2
<1>3. NextOf = Rest(script.reenables) /\ NextOf \in R
  BY <1>1, <1>2 DEF NextOf, Rest
<1>4. NextOf.left = Tail(script.left) /\ NextOf.uninstalls = script.uninstalls
      /\ script.reenables \in BOOLEAN
  BY <1>1, <1>3 DEF Rest
<1>5. ASSUME NEW b \in BOOLEAN PROVE [NextOf EXCEPT !.reenables = b] = Rest(b)
  <2>1. ASSUME NEW g \in R
        PROVE  [g EXCEPT !.reenables = b] = [left |-> g.left, uninstalls |-> g.uninstalls, reenables |-> b]
    OBVIOUS
  <2>2. [NextOf EXCEPT !.reenables = b]
          = [left |-> NextOf.left, uninstalls |-> NextOf.uninstalls, reenables |-> b]
    BY <1>3, <2>1
  <2>3. QED BY <1>4, <2>2 DEF Rest
<1>6. QED BY <1>3, <1>4, <1>5

\* A step of the script that goes on, and the first one, which also notes what to enable again.
LEMMA ScriptGoesOn ==
  ASSUME TypeOK, InOrder, NEW s, Does(s),
         script' = Idle \/ \E b \in BOOLEAN : script' = Rest(b),
         script.uninstalls /\ Len(script.left) = 1 => script' = Idle
  PROVE  /\ script' \in Scripts /\ InOrder'
         /\ script'.uninstalls => /\ script.uninstalls
                                  /\ Len(script.left) \in 2..8
                                  /\ Len(script'.left) = Len(script.left) - 1
<1>1. script \in [left : {SubSeq(InstallOrder, i, 7) : i \in 1..8} \cup {SubSeq(UninstallOrder, i, 8) : i \in 1..9},
                  uninstalls : BOOLEAN, reenables : BOOLEAN]
  BY DEF TypeOK, Scripts
<1>2. /\ Idle.left = SubSeq(UninstallOrder, 9, 8) /\ Idle.left = SubSeq(InstallOrder, 8, 7)
      /\ Idle.uninstalls = FALSE /\ Idle.reenables = FALSE
      /\ Idle = [left |-> Idle.left, uninstalls |-> FALSE, reenables |-> FALSE]
  BY SubSeqEmpty DEF Idle
<1>3. CASE script' = Idle
  <2>1. Idle \in Scripts
    <3>1. 8 \in 1..8
      OBVIOUS
    <3>2. Idle.left \in {SubSeq(InstallOrder, i, 7) : i \in 1..8}
      BY <1>2, <3>1
    <3>3. QED BY <1>2, <3>2 DEF Scripts
  <2>2. InOrder'
    BY <1>2, <1>3 DEF InOrder
  <2>3. QED BY <1>2, <1>3, <2>1, <2>2
<1>4. CASE script' # Idle
  <2>1. PICK b \in BOOLEAN : script' = [left |-> Tail(script.left), uninstalls |-> script.uninstalls, reenables |-> b]
    BY <1>4 DEF Rest
  <2>2. CASE script.uninstalls
    <3>1. PICK i \in 1..8 : /\ Len(script.left) = 9 - i
                            /\ Tail(script.left) = SubSeq(UninstallOrder, i + 1, 8)
                            /\ Len(Tail(script.left)) = 8 - i
                            /\ s = UninstallOrder[i]
      BY <2>2, StepAt
    <3>2. i + 1 \in 1..9
      OBVIOUS
    <3>3. i # 8
      BY <1>4, <2>2, <3>1
    <3>4. script' \in Scripts /\ InOrder'
      BY <1>1, <2>1, <2>2, <3>1, <3>2 DEF Scripts, InOrder
    <3>5. QED BY <2>1, <2>2, <3>1, <3>3, <3>4
  <2>3. CASE ~script.uninstalls
    <3>1. PICK i \in 1..7 : Tail(script.left) = SubSeq(InstallOrder, i + 1, 7)
      BY <2>3, StepAt
    <3>2. i + 1 \in 1..8
      OBVIOUS
    <3>3. QED BY <1>1, <2>1, <2>3, <3>1, <3>2 DEF Scripts, InOrder
  <2>4. QED BY <2>2, <2>3
<1>5. QED BY <1>3, <1>4

(***************************************************************************)
(* Processes: who holds the port, the log and the lock                     *)
(***************************************************************************)
ProcTypes ==
  /\ pc \in [Procs -> {"none", "begin", "serving"} \cup StartSteps \cup Quitting]
  /\ switch \in [Procs -> {"none", "have", "failed"}]
  /\ port \in Servers \cup {"free", "other"} /\ lock \in Procs \cup {"free"}
  /\ logs \subseteq Servers

PortHeld ==
  /\ \A p \in Servers : port = p <=> pc[p] \in Bound
  /\ \A p \in logs : pc[p] \in Bound
  /\ pc["oneshot"] \in {"none", "begin"}

SwitchHeld ==
  \A p \in Procs : /\ lock = p <=> switch[p] = "have"
                   /\ pc[p] \in Early \cup {"log", "recover"} => switch[p] = "none"

ProcsOK == ProcTypes /\ PortHeld /\ SwitchHeld

LEMMA Names ==
  /\ Servers = {"task", "manual"} /\ Procs = {"task", "manual", "oneshot"}
  /\ "free" \notin Procs /\ "other" \notin Procs /\ "oneshot" \notin Servers
BY DEF Servers, Procs

LEMMA PcValues == {"none", "begin", "serving"} \cup StartSteps \cup Quitting = Early \cup Bound
BY Order DEF Early, Bound, Quitting

LEMMA InitProcs == Init => ProcsOK
BY Names, PcValues DEF Init, ProcsOK, ProcTypes, PortHeld, SwitchHeld, Early, Bound

LEMMA SameProcs == ASSUME ProcsOK, UNCHANGED procVars PROVE ProcsOK'
BY DEF ProcsOK, ProcTypes, PortHeld, SwitchHeld, procVars

\* Whatever ends, what it held is free again.
LEMMA EndProcs == ASSUME ProcsOK, NEW ps \in SUBSET Procs, End(ps) PROVE ProcsOK'
<1>1. /\ \A p \in Procs : pc'[p] = (IF p \in ps THEN "none" ELSE pc[p])
      /\ \A p \in Procs : switch'[p] = (IF p \in ps THEN "none" ELSE switch[p])
  BY DEF End
<1>2. ProcTypes'
  BY DEF End, ProcsOK, ProcTypes
<1>3. PortHeld'
  BY <1>1, Names DEF End, ProcsOK, ProcTypes, PortHeld, Bound
<1>4. SwitchHeld'
  BY <1>1, Names DEF End, ProcsOK, ProcTypes, SwitchHeld, Early
<1>5. QED BY <1>2, <1>3, <1>4 DEF ProcsOK

\* A process starts, or restarts its only step.
LEMMA BeginProcs ==
  ASSUME ProcsOK, NEW p \in Procs, pc[p] = "none" \/ p = "oneshot",
         pc' = [pc EXCEPT ![p] = "begin"], UNCHANGED <<switch, port, lock, logs>>
  PROVE  ProcsOK'
<1>1. pc'[p] = "begin" /\ \A q \in Procs : q # p => pc'[q] = pc[q]
  BY DEF ProcsOK, ProcTypes
<1>2. ProcTypes'
  BY DEF ProcsOK, ProcTypes
<1>3. pc[p] \in {"none", "begin"} /\ switch[p] = "none"
  BY DEF ProcsOK, PortHeld, SwitchHeld, Early
<1>4. PortHeld'
  BY <1>1, <1>3, Names DEF ProcsOK, ProcTypes, PortHeld, Bound
<1>5. SwitchHeld'
  BY <1>1, <1>3, Names DEF ProcsOK, SwitchHeld
<1>6. QED BY <1>2, <1>4, <1>5 DEF ProcsOK

\* A server moves on without taking or giving back anything.
LEMMA MoveProcs ==
  ASSUME ProcsOK, NEW p \in Servers, NEW v, pc' = [pc EXCEPT ![p] = v],
         \/ pc[p] \in Early /\ v \in Early
         \/ pc[p] \in {"output", "serving", "restoring", "draining"}
            /\ v \in {"output", "serving", "restoring", "draining"},
         UNCHANGED <<switch, port, lock, logs>>
  PROVE  ProcsOK'
<1>1. pc'[p] = v /\ \A q \in Procs : q # p => pc'[q] = pc[q]
  BY Names DEF ProcsOK, ProcTypes
<1>2. ProcTypes'
  BY Names, PcValues DEF ProcsOK, ProcTypes, Bound
<1>3. PortHeld'
  BY <1>1, Names DEF ProcsOK, ProcTypes, PortHeld, Early, Bound
<1>4. SwitchHeld'
  BY <1>1, Names DEF ProcsOK, SwitchHeld, Early
<1>5. QED BY <1>2, <1>3, <1>4 DEF ProcsOK

LEMMA StartProcs == ASSUME ProcsOK, NEW p \in Servers, StartStep(p) PROVE ProcsOK'
<1>0. p \in Procs /\ {p} \in SUBSET Procs
  BY Names
<1>1. CASE Begin(p)
  BY <1>1, Order, MoveProcs DEF Begin, Early
<1>2. CASE CheckMarker(p)
  BY <1>0, <1>2, Order, MoveProcs, EndProcs DEF CheckMarker, Goes, Early
<1>3. CASE Bind(p)
  <2>1. CASE port # "free"
    BY <1>0, <1>3, <2>1, EndProcs DEF Bind
  <2>2. CASE port = "free"
    <3>1. /\ pc[p] = "bind" /\ pc' = [pc EXCEPT ![p] = "log"] /\ port' = p
          /\ UNCHANGED <<switch, lock, logs>>
      BY <1>3, <2>2, Order DEF Bind, Goes
    <3>2. pc'[p] = "log" /\ \A q \in Procs : q # p => pc'[q] = pc[q]
      BY <1>0, <3>1 DEF ProcsOK, ProcTypes
    <3>3. ProcTypes'
      BY <1>0, <3>1, Names, PcValues DEF ProcsOK, ProcTypes, Bound
    <3>4. PortHeld'
      BY <2>2, <3>1, <3>2, Names DEF ProcsOK, ProcTypes, PortHeld, Bound
    <3>5. SwitchHeld'
      BY <3>1, <3>2, Names DEF ProcsOK, SwitchHeld, Early
    <3>6. QED BY <3>3, <3>4, <3>5 DEF ProcsOK
  <2>3. QED BY <2>1, <2>2
<1>4. CASE OpensLog(p)
  <2>1. /\ pc[p] = "log" /\ pc' = [pc EXCEPT ![p] = "recover"] /\ logs' = logs \cup {p}
        /\ UNCHANGED <<switch, port, lock>>
    BY <1>4, Order DEF OpensLog, Goes
  <2>2. pc'[p] = "recover" /\ \A q \in Procs : q # p => pc'[q] = pc[q]
    BY <1>0, <2>1 DEF ProcsOK, ProcTypes
  <2>3. ProcTypes'
    BY <1>0, <2>1, Names, PcValues DEF ProcsOK, ProcTypes, Bound
  <2>4. PortHeld'
    BY <2>1, <2>2, Names DEF ProcsOK, ProcTypes, PortHeld, Bound
  <2>5. SwitchHeld'
    BY <2>1, <2>2, Names DEF ProcsOK, SwitchHeld, Early
  <2>6. QED BY <2>3, <2>4, <2>5 DEF ProcsOK
<1>5. CASE Recover(p)
  <2>1. /\ pc[p] = "recover" /\ pc' = [pc EXCEPT ![p] = "output"] /\ UNCHANGED <<port, logs>>
        /\ \/ lock = "free" /\ lock' = p /\ switch' = [switch EXCEPT ![p] = "have"]
           \/ lock' = lock /\ switch' = [switch EXCEPT ![p] = "failed"]
    BY <1>5, Order DEF Recover, NewSwitch, Goes
  <2>2. pc'[p] = "output" /\ \A q \in Procs : q # p => pc'[q] = pc[q] /\ switch'[q] = switch[q]
    BY <1>0, <2>1 DEF ProcsOK, ProcTypes
  <2>3. ProcTypes'
    BY <1>0, <2>1, Names, PcValues DEF ProcsOK, ProcTypes, Bound
  <2>4. PortHeld'
    BY <2>1, <2>2, Names DEF ProcsOK, ProcTypes, PortHeld, Bound
  <2>5. switch[p] = "none" /\ lock # p
    BY <1>0, <2>1 DEF ProcsOK, SwitchHeld
  <2>6. \/ lock = "free" /\ lock' = p /\ switch'[p] = "have"
        \/ lock' = lock /\ switch'[p] = "failed"
    BY <1>0, <2>1 DEF ProcsOK, ProcTypes
  <2>7. SwitchHeld'
    BY <2>2, <2>5, <2>6, Names DEF ProcsOK, SwitchHeld, Early
  <2>8. QED BY <2>3, <2>4, <2>7 DEF ProcsOK
<1>6. CASE OpenOutput(p)
  BY <1>0, <1>6, Order, MoveProcs, EndProcs DEF OpenOutput, Goes
<1>7. QED BY <1>1, <1>2, <1>3, <1>4, <1>5, <1>6 DEF StartStep

LEMMA NextProcs == ASSUME ProcsOK, Next PROVE ProcsOK'
<1>0. \A p \in Servers : p \in Procs /\ {p} \in SUBSET Procs
  BY Names
<1>1. ASSUME NEW p \in Servers,
             StartStep(p) \/ Activate(p) \/ Restore(p) \/ TrayQuit(p) \/ Shutdown(p) \/ ServeEnds(p)
      PROVE  ProcsOK'
  <2>1. CASE Activate(p) \/ Restore(p)
    BY <2>1, SameProcs DEF Activate, Restore
  <2>2. CASE TrayQuit(p)
    BY <2>2, MoveProcs DEF TrayQuit
  <2>3. CASE ShutdownRestores(p)
    BY <2>3, MoveProcs DEF ShutdownRestores
  <2>4. CASE Exit(p) \/ ServeEnds(p)
    BY <1>0, <2>4, EndProcs DEF Exit, ServeEnds
  <2>5. QED BY <1>1, <2>1, <2>2, <2>3, <2>4, StartProcs DEF Shutdown
<1>2. ASSUME NEW p \in Procs, Kill(p) PROVE ProcsOK'
  BY <1>2, EndProcs DEF Kill
<1>3. CASE Watchdog \/ ManualStart
  BY <1>3, Names, BeginProcs DEF Watchdog, ManualStart, Launch
<1>4. CASE Interrupt
  BY <1>4, Names, MoveProcs DEF Interrupt
<1>5. CASE RestoreMic
  <2>1. /\ pc["oneshot"] = "begin" /\ pc' = [pc EXCEPT !["oneshot"] = "none"]
        /\ UNCHANGED <<switch, port, lock, logs>>
    BY <1>5 DEF RestoreMic
  <2>2. pc'["oneshot"] = "none" /\ \A q \in Procs : q # "oneshot" => pc'[q] = pc[q]
    BY <2>1, Names DEF ProcsOK, ProcTypes
  <2>3. ProcTypes'
    BY <2>1, Names DEF ProcsOK, ProcTypes
  <2>4. PortHeld'
    BY <2>1, <2>2, Names DEF ProcsOK, ProcTypes, PortHeld
  <2>5. SwitchHeld'
    BY <2>1, <2>2, Names DEF ProcsOK, SwitchHeld, Early
  <2>6. QED BY <2>3, <2>4, <2>5 DEF ProcsOK
<1>6. CASE OtherTakesPort \/ OtherLeavesPort
  BY <1>6, Names DEF OtherTakesPort, OtherLeavesPort, ProcsOK, ProcTypes, PortHeld, SwitchHeld
<1>7. CASE SignOut \/ EndTask \/ StopCouchMic
  BY <1>7, Names, EndProcs DEF SignOut, EndTask, StopCouchMic
<1>8. CASE StartRestoreMic
  BY <1>8, Names, BeginProcs DEF StartRestoreMic
<1>9. CASE StartInstalled \/ InstallFails
  <2>1. StartTask \/ UNCHANGED procVars
    BY <1>9 DEF StartInstalled, InstallFails
  <2>2. QED BY <2>1, Names, BeginProcs, SameProcs DEF StartTask, Running
<1>10. CASE \/ SignOn \/ Install \/ Uninstall \/ ScriptBreaks \/ DisableTask \/ CopyExe \/ Register
            \/ Unmark \/ Answered \/ Unregister \/ RestoreMicEnded \/ Forget \/ DeleteExe
  BY <1>10, SameProcs
     DEF SignOn, Install, Uninstall, RunScript, ScriptBreaks, DisableTask, CopyExe, Register, Unmark,
         Answered, Unregister, RestoreMicEnded, Forget, DeleteExe
<1>11. QED
  BY <1>1, <1>2, <1>3, <1>4, <1>5, <1>6, <1>7, <1>8, <1>9, <1>10
  DEF Next, ScriptStep, InstallStep, UninstallStep

(***************************************************************************)
(* The script, the bounds and the flags                                    *)
(***************************************************************************)
RestTypes ==
  /\ mic \in {"user", "cable"}
  /\ task \in {"none", "disabled", "enabled"}
  /\ {record, marker, signedOn, exe, stopped, abandoned, lostRecord, stuck} \subseteq BOOLEAN
  /\ acts \in 0..MaxActs /\ faults \in 0..MaxFaults

LEMMA TypeParts == TypeOK <=> ProcTypes /\ RestTypes /\ script \in Scripts
BY DEF TypeOK, ProcTypes, RestTypes

LEMMA InitRest == Init => RestTypes /\ script \in Scripts /\ InOrder
<1> SUFFICES ASSUME Init PROVE RestTypes /\ script \in Scripts /\ InOrder
  OBVIOUS
<1>1. RestTypes
  <2>1. acts \in 0..MaxActs /\ faults \in 0..MaxFaults
    BY LifecycleConstants DEF Init
  <2>2. QED BY <2>1 DEF Init, RestTypes
<1>2. script.left = SubSeq(InstallOrder, 8, 7) /\ script.uninstalls = FALSE
  BY SubSeqEmpty DEF Init, Idle
<1>3. script \in Scripts
  <2>1. 8 \in 1..8
    OBVIOUS
  <2>2. script.left \in {SubSeq(InstallOrder, i, 7) : i \in 1..8}
    BY <1>2, <2>1
  <2>3. QED BY <2>2 DEF Init, Idle, Scripts
<1>4. QED BY <1>1, <1>2, <1>3 DEF InOrder

\* Every step is counted as what the user does, as a fault, or not at all.
LEMMA NextCounts == ASSUME Next PROVE Act \/ Fault \/ Normal
<1>1. ASSUME NEW p \in Servers, StartStep(p) PROVE Act \/ Fault \/ Normal
  BY <1>1 DEF StartStep, Begin, CheckMarker, DeletesMarker, Bind, OpensLog, Recover, NewSwitch, OpenOutput
<1>2. ASSUME NEW p \in Servers,
             Activate(p) \/ Restore(p) \/ TrayQuit(p) \/ Shutdown(p) \/ ServeEnds(p)
      PROVE  Act \/ Fault \/ Normal
  BY <1>2 DEF Activate, Restore, TrayQuit, WritesMarker, Shutdown, ShutdownRestores, Exit, ServeEnds
<1>3. CASE InstallStep \/ UninstallStep
  BY <1>3 DEF InstallStep, UninstallStep, ScriptSame, DisableTask, StopCouchMic, CopyExe, Register,
     Unmark, StartInstalled, Answered, EndTask, Unregister, StartRestoreMic, RestoreMicEnded, Forget,
     DeleteExe, DeletesMarker
<1>4. QED
  BY <1>1, <1>2, <1>3 DEF Next, Watchdog, ManualStart, Interrupt, RestoreMic, Kill, OtherTakesPort,
     OtherLeavesPort, SignOut, SignOn, Install, Uninstall, RunScript, ScriptStep, InstallFails,
     ScriptBreaks

Flags == /\ mic \in {"user", "cable"} /\ task \in {"none", "disabled", "enabled"}
         /\ record \in BOOLEAN /\ marker \in BOOLEAN /\ signedOn \in BOOLEAN /\ exe \in BOOLEAN
         /\ stopped \in BOOLEAN /\ abandoned \in BOOLEAN /\ lostRecord \in BOOLEAN
         /\ stuck \in BOOLEAN

LEMMA NextFlags == ASSUME Flags, Next PROVE Flags'
<1>2. ASSUME NEW p \in Servers,
             StartStep(p) \/ Activate(p) \/ Restore(p) \/ TrayQuit(p) \/ Shutdown(p) \/ ServeEnds(p)
      PROVE  Flags'
  <2>1. CASE StartStep(p)
    <3>1. CASE CheckMarker(p)
      BY <3>1 DEF CheckMarker, DeletesMarker, micVars, Flags
    <3>2. CASE Begin(p) \/ Bind(p) \/ OpensLog(p) \/ Recover(p) \/ OpenOutput(p)
      <4>1. CASE Recover(p)
        BY <4>1 DEF Recover, NewSwitch, StaysSame, ghost, micVars, Flags
      <4>2. CASE Begin(p) \/ Bind(p) \/ OpensLog(p) \/ OpenOutput(p)
        BY <4>2 DEF Begin, Bind, OpensLog, OpenOutput, StaysSame, ghost, micVars, Flags
      <4>3. QED BY <3>2, <4>1, <4>2
    <3>3. QED BY <2>1, <3>1, <3>2 DEF StartStep
  <2>2. CASE Activate(p) \/ Restore(p) \/ TrayQuit(p)
    <3>1. CASE Activate(p) \/ Restore(p)
      BY <3>1 DEF Activate, Restore, GivesBack, StaysSame, ghost, micVars, Flags
    <3>2. CASE TrayQuit(p)
      BY <3>2 DEF TrayQuit, WritesMarker, micVars, Flags
    <3>3. QED BY <2>2, <3>1, <3>2
  <2>3. CASE Shutdown(p) \/ ServeEnds(p)
    BY <2>3 DEF Shutdown, ShutdownRestores, GivesBack, Exit, ServeEnds, StaysSame, ghost, micVars, Flags
  <2>4. QED BY <1>2, <2>1, <2>2, <2>3
<1>3. CASE InstallStep
  <2>1. CASE DisableTask \/ StopCouchMic
    BY <2>1 DEF ScriptSame, DisableTask, StopCouchMic, micVars, Flags
  <2>2. CASE CopyExe \/ Register
    BY <2>2 DEF ScriptSame, CopyExe, Register, micVars, Flags
  <2>3. CASE Unmark \/ StartInstalled \/ Answered
    BY <2>3 DEF ScriptSame, Unmark, DeletesMarker, StartInstalled, Answered, micVars, Flags
  <2>4. QED BY <1>3, <2>1, <2>2, <2>3 DEF InstallStep
<1>4. CASE UninstallStep
  <2>1. CASE EndTask \/ Unregister \/ StartRestoreMic
    BY <2>1 DEF ScriptSame, EndTask, Unregister, StartRestoreMic, micVars, Flags
  <2>2. CASE RestoreMicEnded \/ Forget \/ DeleteExe
    BY <2>2 DEF ScriptSame, RestoreMicEnded, Forget, DeletesMarker, DeleteExe, micVars, Flags
  <2>3. QED BY <1>4, <2>1, <2>2 DEF UninstallStep
<1>5. ASSUME NEW p \in Procs, Kill(p) PROVE Flags'
  BY <1>5 DEF Kill, micVars, Flags
<1>6. CASE Watchdog \/ ManualStart \/ Interrupt
  BY <1>6 DEF Watchdog, ManualStart, Interrupt, StaysSame, ghost, micVars, Flags
<1>7. CASE RestoreMic
  BY <1>7 DEF RestoreMic, micVars, Flags
<1>8. CASE OtherTakesPort \/ OtherLeavesPort
  BY <1>8 DEF OtherTakesPort, OtherLeavesPort, StaysSame, ghost, micVars, Flags
<1>9. CASE SignOut \/ SignOn
  BY <1>9 DEF SignOut, SignOn, ghost, micVars, Flags
<1>10. CASE Install \/ Uninstall \/ InstallFails \/ ScriptBreaks
  <2>1. CASE Install \/ Uninstall
    BY <2>1 DEF Install, Uninstall, RunScript, ghost, micVars, Flags
  <2>2. CASE InstallFails \/ ScriptBreaks
    BY <2>2 DEF InstallFails, ScriptBreaks, ghost, micVars, Flags
  <2>3. QED BY <1>10, <2>1, <2>2
<1>11. QED
  BY <1>2, <1>3, <1>4, <1>5, <1>6, <1>7, <1>8, <1>9, <1>10 DEF Next, ScriptStep

LEMMA NextRest == ASSUME RestTypes, Next PROVE RestTypes'
<1>1. acts' \in 0..MaxActs /\ faults' \in 0..MaxFaults
  BY NextCounts, LifecycleConstants DEF Act, Fault, Normal, RestTypes
<1>2. Flags'
  BY NextFlags DEF Flags, RestTypes
<1>3. QED BY <1>1, <1>2 DEF Flags, RestTypes

\* How a step changes the script: it starts one, goes on with it, ends it, or leaves it alone.
LEMMA ScriptChanges ==
  ASSUME TypeOK, InOrder, Next
  PROVE  \/ UNCHANGED script
         \/ script' = Idle
         \/ Install \/ Uninstall
         \/ \E s : /\ Does(s) /\ \E b \in BOOLEAN : script' = Rest(b)
                   /\ script.uninstalls => Len(script.left) # 1
<1>1. CASE UNCHANGED script \/ SignOut \/ InstallFails \/ ScriptBreaks \/ Install \/ Uninstall
  BY <1>1 DEF SignOut, InstallFails, ScriptBreaks
<1>2. CASE ScriptStep
  <2>1. /\ NextOf = Rest(script.reenables) /\ script.reenables \in BOOLEAN
        /\ \A b \in BOOLEAN : [NextOf EXCEPT !.reenables = b] = Rest(b)
    BY NextOfIsRest DEF TypeOK, Scripts
  <2>2. CASE DisableTask
    <3>1. PICK b \in BOOLEAN : script' = [NextOf EXCEPT !.reenables = b]
      BY <2>2 DEF DisableTask
    <3>2. Does("disable") /\ (script.uninstalls => Len(script.left) # 1)
      BY <2>2, WhichStep DEF DisableTask
    <3>3. QED BY <2>1, <3>1, <3>2
  <2>3. CASE \E s : Does(s) /\ Advance
    BY <2>1, <2>3 DEF Advance
  <2>4. QED
    BY <1>2, <2>2, <2>3 DEF ScriptStep, InstallStep, UninstallStep, StopCouchMic, CopyExe, Register,
       Unmark, StartInstalled, Answered, EndTask, Unregister, StartRestoreMic, RestoreMicEnded, Forget,
       DeleteExe
<1>3. ASSUME NEW p \in Servers,
             StartStep(p) \/ Activate(p) \/ Restore(p) \/ TrayQuit(p) \/ Shutdown(p) \/ ServeEnds(p)
      PROVE  UNCHANGED script
  BY <1>3 DEF StartStep, Begin, CheckMarker, Bind, OpensLog, Recover, OpenOutput, Activate, Restore,
     TrayQuit, Shutdown, ShutdownRestores, Exit, ServeEnds, StaysSame
<1>4. CASE \/ Watchdog \/ ManualStart \/ Interrupt \/ RestoreMic \/ (\E p \in Procs : Kill(p))
           \/ OtherTakesPort \/ OtherLeavesPort \/ SignOn
  BY <1>4 DEF Watchdog, ManualStart, Interrupt, RestoreMic, Kill, OtherTakesPort, OtherLeavesPort,
     SignOn, StaysSame
<1>5. QED BY <1>1, <1>2, <1>3, <1>4 DEF Next

LEMMA NextScript == ASSUME TypeOK, InOrder, Next PROVE script' \in Scripts /\ InOrder'
<1>1. CASE UNCHANGED script
  BY <1>1 DEF TypeOK, InOrder
<1>2. CASE script' = Idle
  <2>1. script'.left = SubSeq(InstallOrder, 8, 7) /\ script'.uninstalls = FALSE
    BY <1>2, SubSeqEmpty DEF Idle
  <2>2. 8 \in 1..8
    OBVIOUS
  <2>3. script'.left \in {SubSeq(InstallOrder, i, 7) : i \in 1..8}
    BY <2>1, <2>2
  <2>4. QED BY <1>2, <2>1, <2>2, <2>3 DEF Idle, Scripts, InOrder
<1>3. CASE Install \/ Uninstall
  <2>1. InstallOrder = SubSeq(InstallOrder, 1, 7) /\ UninstallOrder = SubSeq(UninstallOrder, 1, 8)
    BY Orders, SubSeqFull
  <2>2. 1 \in 1..8 /\ 1 \in 1..9
    OBVIOUS
  <2>3. \/ script' = [left |-> InstallOrder, uninstalls |-> FALSE, reenables |-> FALSE]
        \/ script' = [left |-> UninstallOrder, uninstalls |-> TRUE, reenables |-> FALSE]
    BY <1>3 DEF Install, Uninstall, RunScript
  <2>4. script'.left \in {SubSeq(InstallOrder, i, 7) : i \in 1..8} \cup {SubSeq(UninstallOrder, i, 8) : i \in 1..9}
    BY <2>1, <2>2, <2>3
  <2>5. script' \in Scripts
    <3>1. ASSUME NEW S, script'.left \in S
          PROVE  script' \in [left : S, uninstalls : BOOLEAN, reenables : BOOLEAN]
      <4>1. CASE script' = [left |-> InstallOrder, uninstalls |-> FALSE, reenables |-> FALSE]
        BY <3>1, <4>1
      <4>2. CASE script' = [left |-> UninstallOrder, uninstalls |-> TRUE, reenables |-> FALSE]
        BY <3>1, <4>2
      <4>3. QED BY <2>3, <4>1, <4>2
    <3>2. QED BY <2>4, <3>1 DEF Scripts
  <2>6. InOrder'
    BY <2>1, <2>2, <2>3 DEF InOrder
  <2>7. QED BY <2>5, <2>6
<1>4. CASE \E s : /\ Does(s) /\ \E b \in BOOLEAN : script' = Rest(b)
                  /\ script.uninstalls => Len(script.left) # 1
  BY <1>4, ScriptGoesOn
<1>5. QED BY <1>1, <1>2, <1>3, <1>4, ScriptChanges

(***************************************************************************)
(* The record and the uninstaller                                          *)
(***************************************************************************)

\* While an uninstall runs: once the task is gone nothing starts CouchMic again, once it is stopped
\* nobody can switch the microphone, and the one-shot gives it back before the record goes.
Uninstalling ==
  script.uninstalls =>
    /\ Len(script.left) <= 5 => task = "none"
    /\ Len(script.left) <= 4 => \A p \in Servers : pc[p] = "none"
    /\ Len(script.left) <= 3 => pc["oneshot"] = "begin" \/ mic = "user" \/ lostRecord
    /\ Len(script.left) <= 2 => mic = "user" \/ lostRecord

\* A process that is about to open the output has recovered the microphone, or cannot have it.
Recovered == \A p \in Servers : pc[p] = "output" => mic = "user" \/ switch[p] = "failed" \/ lostRecord

IInv == TypeOK /\ PortHeld /\ SwitchHeld /\ InOrder /\ Uninstalling /\ NothingForgotten /\ Recovered

LEMMA InvProcs == IInv => ProcsOK
BY TypeParts DEF IInv, ProcsOK

\* Who may have the microphone when CouchMic does not run.
LEMMA NobodyHasIt ==
  ASSUME ProcsOK, \A p \in Servers : pc[p] = "none" PROVE lock = "free"
BY Names DEF ProcsOK, ProcTypes, PortHeld, SwitchHeld, Early

\* What a step may do to the microphone and to its record.
LEMMA MicChanges ==
  ASSUME IInv, Next
  PROVE  \/ UNCHANGED micVars /\ (lostRecord => lostRecord')
         \/ mic' = "user" /\ (lostRecord => lostRecord')
         \/ mic' = mic /\ record = FALSE /\ record' = FALSE /\ UNCHANGED lostRecord
         \/ \E p \in Servers : /\ Activate(p) /\ record' = TRUE
         \/ Forget
<1>0. RestTypes
  BY TypeParts DEF IInv
<1>1. ASSUME NEW p \in Servers,
             StartStep(p) \/ Activate(p) \/ Restore(p) \/ TrayQuit(p) \/ Shutdown(p) \/ ServeEnds(p)
      PROVE  \/ UNCHANGED micVars /\ (lostRecord => lostRecord')
             \/ mic' = "user" /\ (lostRecord => lostRecord')
             \/ mic' = mic /\ record = FALSE /\ record' = FALSE /\ UNCHANGED lostRecord
             \/ Activate(p) /\ record' = TRUE
  <2>1. CASE StartStep(p)
    <3>1. CASE Begin(p) \/ CheckMarker(p) \/ Bind(p) \/ OpensLog(p) \/ OpenOutput(p)
      BY <3>1 DEF Begin, CheckMarker, Bind, OpensLog, OpenOutput, StaysSame, ghost, micVars
    <3>2. CASE Recover(p)
      BY <1>0, <3>2 DEF Recover, NewSwitch, StaysSame, ghost, micVars, RestTypes
    <3>3. QED BY <2>1, <3>1, <3>2 DEF StartStep
  <2>2. CASE Activate(p)
    BY <2>2 DEF Activate
  <2>3. CASE Restore(p) \/ Shutdown(p)
    BY <2>3 DEF Restore, Shutdown, ShutdownRestores, Exit, GivesBack, StaysSame, ghost, micVars
  <2>4. CASE TrayQuit(p) \/ ServeEnds(p)
    BY <2>4 DEF TrayQuit, ServeEnds, StaysSame, ghost, micVars
  <2>5. QED BY <1>1, <2>1, <2>2, <2>3, <2>4
<1>2. CASE RestoreMic
  BY <1>0, <1>2 DEF RestoreMic, micVars, RestTypes
<1>3. ASSUME \/ Watchdog \/ ManualStart \/ Interrupt \/ OtherTakesPort \/ OtherLeavesPort
             \/ SignOut \/ SignOn \/ Install \/ Uninstall \/ InstallFails \/ ScriptBreaks
             \/ \E p \in Procs : Kill(p)
      PROVE  UNCHANGED micVars /\ (lostRecord => lostRecord')
  <2>1. CASE Watchdog \/ ManualStart \/ Interrupt \/ OtherTakesPort \/ OtherLeavesPort
    BY <2>1 DEF Watchdog, ManualStart, Interrupt, OtherTakesPort, OtherLeavesPort, StaysSame, ghost
  <2>2. CASE SignOut \/ SignOn \/ Install \/ Uninstall \/ InstallFails \/ ScriptBreaks
    BY <2>2 DEF SignOut, SignOn, Install, Uninstall, RunScript, InstallFails, ScriptBreaks, ghost
  <2>3. CASE \E p \in Procs : Kill(p)
    BY <2>3 DEF Kill
  <2>4. QED BY <1>3, <2>1, <2>2, <2>3
<1>4. CASE ScriptStep
  <2>1. CASE InstallStep
    BY <2>1 DEF InstallStep, ScriptSame, DisableTask, StopCouchMic, CopyExe, Register, Unmark,
       StartInstalled, Answered
  <2>2. CASE UninstallStep
    BY <2>2 DEF UninstallStep, ScriptSame, EndTask, Unregister, StartRestoreMic, RestoreMicEnded,
       DeleteExe
  <2>3. QED BY <1>4, <2>1, <2>2 DEF ScriptStep
<1>5. QED BY <1>1, <1>2, <1>3, <1>4 DEF Next

LEMMA NextKept == ASSUME IInv, Next PROVE NothingForgotten'
<1>1. CASE Forget
  <2>1. script.uninstalls /\ Len(script.left) = 2
    BY <1>1, WhichStep DEF Forget, IInv
  <2>2. mic = "user" \/ lostRecord
    BY <2>1 DEF IInv, Uninstalling
  <2>3. QED BY <1>1, <2>2 DEF Forget, NothingForgotten
<1>2. CASE ~Forget
  BY <1>2, MicChanges DEF IInv, NothingForgotten, micVars
<1>3. QED BY <1>1, <1>2

\* What is left of an uninstall after one of its steps.
LEMMA UninstallGoesOn ==
  ASSUME IInv, NEW s, Does(s), Advance \/ DisableTask, script'.uninstalls
  PROVE  /\ script.uninstalls /\ Len(script.left) \in 2..8
         /\ Len(script'.left) = Len(script.left) - 1
<1>1. /\ NextOf = Rest(script.reenables) /\ script.reenables \in BOOLEAN
      /\ \A b \in BOOLEAN : [NextOf EXCEPT !.reenables = b] = Rest(b)
  BY NextOfIsRest DEF IInv, TypeOK, Scripts
<1>2. TypeOK /\ InOrder
  BY DEF IInv
<1>3. CASE Advance
  <2>1. script' = Idle \/ \E b \in BOOLEAN : script' = Rest(b)
    BY <1>1, <1>3 DEF Advance
  <2>2. script.uninstalls /\ Len(script.left) = 1 => script' = Idle
    BY <1>3 DEF Advance
  <2>3. QED BY <1>2, <2>1, <2>2, ScriptGoesOn
<1>4. CASE DisableTask
  <2>1. \E b \in BOOLEAN : script' = Rest(b)
    BY <1>1, <1>4 DEF DisableTask
  <2>2. script.uninstalls => Len(script.left) = 8
    BY <1>2, <1>4, WhichStep DEF DisableTask
  <2>3. script' = Idle \/ \E b \in BOOLEAN : script' = Rest(b)
    BY <2>1
  <2>4. ~(script.uninstalls /\ Len(script.left) = 1)
    BY <2>2
  <2>5. QED BY <1>2, <2>3, <2>4, ScriptGoesOn
<1>5. QED BY <1>3, <1>4

LEMMA UninstallStepKept ==
  ASSUME IInv, ScriptStep, script'.uninstalls
  PROVE  Uninstalling'
<1>0. InOrder
  BY DEF IInv
<1>1. ASSUME NEW s, Does(s), Advance \/ DisableTask
      PROVE  script.uninstalls /\ Len(script'.left) = Len(script.left) - 1 /\ Len(script.left) \in 2..8
  BY <1>1, UninstallGoesOn
<1>2. CASE InstallStep
  <2>1. CASE DisableTask
    <3>1. Len(script'.left) = 7
      <4>1. Does("disable") /\ (Advance \/ DisableTask)
        BY <2>1 DEF DisableTask
      <4>2. script.uninstalls /\ Len(script'.left) = Len(script.left) - 1
        BY <1>1, <4>1
      <4>3. Len(script.left) = 8
        BY <1>0, <4>1, <4>2, WhichStep
      <4>4. QED BY <4>1, <4>2, <4>3
    <3>2. QED BY <3>1 DEF Uninstalling
  <2>2. CASE StopCouchMic
    <3>1. Len(script'.left) = 4 /\ Len(script.left) = 5 /\ script.uninstalls
      <4>1. Does("stopAll") /\ (Advance \/ DisableTask)
        BY <2>2 DEF StopCouchMic
      <4>2. script.uninstalls /\ Len(script'.left) = Len(script.left) - 1
        BY <1>1, <4>1
      <4>3. Len(script.left) = 5
        BY <1>0, <4>1, <4>2, WhichStep
      <4>4. QED BY <4>1, <4>2, <4>3
    <3>2. task' = "none"
      BY <2>2, <3>1 DEF IInv, Uninstalling, StopCouchMic
    <3>3. \A p \in Servers : pc'[p] = "none"
      BY <2>2, Names DEF StopCouchMic, End
    <3>4. QED BY <3>1, <3>2, <3>3 DEF Uninstalling
  <2>3. CASE CopyExe \/ Register \/ Unmark \/ StartInstalled \/ Answered
    BY <1>0, <1>1, <2>3, WhichStep DEF CopyExe, Register, Unmark, StartInstalled, Answered
  <2>4. QED BY <1>2, <2>1, <2>2, <2>3 DEF InstallStep
<1>3. CASE UninstallStep
  <2>1. CASE EndTask
    <3>1. Len(script'.left) = 6
      <4>1. Does("endTask") /\ (Advance \/ DisableTask)
        BY <2>1 DEF EndTask
      <4>2. script.uninstalls /\ Len(script'.left) = Len(script.left) - 1
        BY <1>1, <4>1
      <4>3. Len(script.left) = 7
        BY <1>0, <4>1, <4>2, WhichStep
      <4>4. QED BY <4>1, <4>2, <4>3
    <3>2. QED BY <3>1 DEF Uninstalling
  <2>2. CASE Unregister
    <3>1. Len(script'.left) = 5 /\ task' = "none"
      <4>1. Does("unregister") /\ (Advance \/ DisableTask)
        BY <2>2 DEF Unregister
      <4>2. script.uninstalls /\ Len(script'.left) = Len(script.left) - 1
        BY <1>1, <4>1
      <4>3. Len(script.left) = 6
        BY <1>0, <4>1, <4>2, WhichStep
      <4>4. QED BY <2>2, <4>1, <4>2, <4>3 DEF Unregister
    <3>2. QED BY <3>1 DEF Uninstalling
  <2>3. CASE StartRestoreMic
    <3>1. Len(script'.left) = 3 /\ Len(script.left) = 4 /\ script.uninstalls
      <4>1. Does("restore") /\ (Advance \/ DisableTask)
        BY <2>3 DEF StartRestoreMic
      <4>2. script.uninstalls /\ Len(script'.left) = Len(script.left) - 1
        BY <1>1, <4>1
      <4>3. Len(script.left) = 4
        BY <1>0, <4>1, <4>2, WhichStep
      <4>4. QED BY <4>1, <4>2, <4>3
    <3>2. task = "none" /\ \A p \in Servers : pc[p] = "none"
      BY <3>1 DEF IInv, Uninstalling
    <3>3. pc'["oneshot"] = "begin" /\ \A p \in Servers : pc'[p] = pc[p]
      BY <2>3, Names DEF StartRestoreMic, IInv, TypeOK
    <3>4. QED BY <2>3, <3>1, <3>2, <3>3 DEF Uninstalling, StartRestoreMic
  <2>4. CASE RestoreMicEnded
    <3>1. Len(script'.left) = 2 /\ Len(script.left) = 3 /\ script.uninstalls
      <4>1. Does("restored") /\ (Advance \/ DisableTask)
        BY <2>4 DEF RestoreMicEnded
      <4>2. script.uninstalls /\ Len(script'.left) = Len(script.left) - 1
        BY <1>1, <4>1
      <4>3. Len(script.left) = 3
        BY <1>0, <4>1, <4>2, WhichStep
      <4>4. QED BY <4>1, <4>2, <4>3
    <3>2. UNCHANGED <<pc, task, mic, lostRecord>> /\ pc["oneshot"] # "begin"
      BY <2>4 DEF RestoreMicEnded, Running, ScriptSame, procVars, micVars
    <3>3. QED BY <3>1, <3>2 DEF IInv, Uninstalling
  <2>5. CASE Forget
    <3>1. Len(script'.left) = 1 /\ Len(script.left) = 2 /\ script.uninstalls
      <4>1. Does("forget") /\ (Advance \/ DisableTask)
        BY <2>5 DEF Forget
      <4>2. script.uninstalls /\ Len(script'.left) = Len(script.left) - 1
        BY <1>1, <4>1
      <4>3. Len(script.left) = 2
        BY <1>0, <4>1, <4>2, WhichStep
      <4>4. QED BY <4>1, <4>2, <4>3
    <3>2. UNCHANGED <<pc, task, mic, lostRecord>>
      BY <2>5 DEF Forget, procVars
    <3>3. QED BY <3>1, <3>2 DEF IInv, Uninstalling
  <2>6. CASE DeleteExe
    <3>1. Does("delete") /\ (Advance \/ DisableTask)
      BY <2>6 DEF DeleteExe
    <3>2. script.uninstalls /\ Len(script.left) \in 2..8
      BY <1>1, <3>1
    <3>3. Len(script.left) = 1
      BY <1>0, <3>1, <3>2, WhichStep
    <3>4. QED BY <3>2, <3>3
  <2>7. QED BY <1>3, <2>1, <2>2, <2>3, <2>4, <2>5, <2>6 DEF UninstallStep
<1>4. QED BY <1>2, <1>3 DEF ScriptStep

LEMMA NextUninstalling == ASSUME IInv, Next PROVE Uninstalling'
<1> SUFFICES ASSUME script'.uninstalls PROVE Uninstalling'
  BY DEF Uninstalling
<1>0. /\ pc \in [Procs -> {"none", "begin", "serving"} \cup StartSteps \cup Quitting]
      /\ {record, lostRecord} \subseteq BOOLEAN /\ ProcsOK
  BY InvProcs DEF IInv, TypeOK
<1>1. CASE SignOut \/ InstallFails \/ ScriptBreaks
  BY <1>1 DEF SignOut, InstallFails, ScriptBreaks, Idle
<1>2. CASE Install \/ Uninstall
  <2>1. script'.left = UninstallOrder /\ Len(UninstallOrder) = 8
    BY <1>2, Orders DEF Install, Uninstall, RunScript
  <2>2. QED BY <2>1 DEF Uninstalling
<1>3. CASE ScriptStep
  BY <1>3, UninstallStepKept
<1>4. ASSUME NEW p \in Servers,
             StartStep(p) \/ Activate(p) \/ Restore(p) \/ TrayQuit(p) \/ Shutdown(p) \/ ServeEnds(p)
      PROVE  Uninstalling'
  <2>1. UNCHANGED <<script, task>> /\ pc[p] # "none"
    BY <1>4, Order DEF StartStep, Begin, CheckMarker, Bind, OpensLog, Recover, OpenOutput, Activate,
       Restore, TrayQuit, Shutdown, ShutdownRestores, Exit, ServeEnds, StaysSame
  <2>2. Len(script.left) <= 4 => FALSE
    BY <2>1 DEF IInv, Uninstalling
  <2>3. CASE Len(script.left) <= 4
    BY <2>2, <2>3
  <2>4. CASE ~(Len(script.left) <= 4)
    <3>1. Len(script.left) \in Int
      BY ScriptLen, <2>1 DEF IInv
    <3>2. ~(Len(script.left) <= 3) /\ ~(Len(script.left) <= 2)
      BY <2>4, <3>1
    <3>3. QED BY <2>1, <2>4, <3>2 DEF IInv, Uninstalling
  <2>5. QED BY <2>3, <2>4
<1>5. CASE Interrupt
  <2>1. UNCHANGED <<script, task, mic, lostRecord>> /\ pc["manual"] = "serving"
        /\ pc' = [pc EXCEPT !["manual"] = "restoring"]
    BY <1>5 DEF Interrupt, StaysSame, ghost, micVars
  <2>2. pc'["oneshot"] = pc["oneshot"] /\ "manual" \in Servers
    BY <1>0, <2>1, Names
  <2>3. QED BY <2>1, <2>2 DEF IInv, Uninstalling
<1>6. CASE OtherTakesPort \/ OtherLeavesPort \/ SignOn
  BY <1>6 DEF OtherTakesPort, OtherLeavesPort, SignOn, StaysSame, ghost, micVars, procVars, IInv, Uninstalling
<1>7. CASE Watchdog \/ ManualStart
  <2>1. UNCHANGED <<script, task, mic, lostRecord>> /\ (task = "enabled" \/ script = Idle)
    BY <1>7 DEF Watchdog, ManualStart, ghost, micVars
  <2>2. script # Idle
    BY <2>1 DEF Idle
  <2>3. Len(script.left) \in Int
    BY ScriptLen, <2>1 DEF IInv
  <2>4. ~(Len(script.left) <= 5)
    BY <2>1, <2>2 DEF IInv, Uninstalling
  <2>5. ~(Len(script.left) <= 4) /\ ~(Len(script.left) <= 3) /\ ~(Len(script.left) <= 2)
    BY <2>3, <2>4
  <2>6. QED BY <2>1, <2>4, <2>5 DEF Uninstalling
<1>8. ASSUME NEW p \in Procs, Kill(p) PROVE Uninstalling'
  <2>1. UNCHANGED <<script, task, mic>> /\ lostRecord' = (lostRecord \/ p = "oneshot")
        /\ \A q \in Procs : pc'[q] = (IF q = p THEN "none" ELSE pc[q])
    BY <1>8 DEF Kill, End, micVars
  <2>2. QED BY <2>1, Names DEF IInv, Uninstalling
<1>9. CASE RestoreMic
  <2>1. /\ UNCHANGED <<script, task>> /\ pc' = [pc EXCEPT !["oneshot"] = "none"]
        /\ \/ lock = "free" /\ mic' = (IF record THEN "user" ELSE mic) /\ UNCHANGED lostRecord
           \/ lock # "free" /\ UNCHANGED <<mic, lostRecord>>
           \/ lostRecord' = TRUE
    BY <1>9 DEF RestoreMic, micVars
  <2>2. \A p \in Servers : pc'[p] = pc[p]
    BY <1>0, <2>1, Names
  <2>3. ASSUME \A p \in Servers : pc[p] = "none" PROVE mic' = "user" \/ lostRecord'
    <3>1. lock = "free"
      BY <1>0, <2>3, NobodyHasIt
    <3>2. mic = "user" \/ record \/ lostRecord
      BY DEF IInv, TypeOK, NothingForgotten
    <3>3. QED BY <2>1, <3>1, <3>2
  <2>4. Len(script.left) \in Int
    BY ScriptLen, <2>1 DEF IInv
  <2>5. (Len(script.left) <= 3 => Len(script.left) <= 4) /\ (Len(script.left) <= 2 => Len(script.left) <= 4)
    BY <2>4
  <2>6. QED BY <2>1, <2>2, <2>3, <2>5 DEF IInv, Uninstalling
<1>10. QED
  BY <1>1, <1>2, <1>3, <1>4, <1>5, <1>6, <1>7, <1>8, <1>9 DEF Next

(***************************************************************************)
(* A process that gives up has recovered the microphone                    *)
(***************************************************************************)

\* How a server comes to a step it was not at before, and what becomes of its MicSwitch meanwhile.
\* Only its own steps take it anywhere but to the start or to the end.
LEMMA ServerMoves ==
  ASSUME ProcsOK, Next, NEW p \in Servers, pc'[p] \notin {"none", "begin"}
  PROVE  \/ pc'[p] = pc[p] /\ switch'[p] = switch[p] /\ ~Recover(p)
         \/ StartStep(p) \/ TrayQuit(p) \/ ShutdownRestores(p)
         \/ Interrupt /\ p = "manual"
<1>0. /\ p \in Procs /\ {p} \in SUBSET Procs
      /\ pc \in [Procs -> {"none", "begin", "serving"} \cup StartSteps \cup Quitting]
      /\ switch \in [Procs -> {"none", "have", "failed"}]
      /\ "oneshot" \in Procs /\ "oneshot" # p /\ "manual" \in Procs
  BY Names DEF ProcsOK, ProcTypes
<1>. DEFINE Stays == pc'[p] = pc[p] /\ switch'[p] = switch[p]
<1>1. ASSUME NEW ps \in SUBSET Procs, End(ps) PROVE Stays
  BY <1>0, <1>1 DEF End
<1>2. ASSUME NEW q \in Procs, NEW v, pc' = [pc EXCEPT ![q] = v], q # p \/ v \in {"none", "begin"},
             UNCHANGED switch
      PROVE  Stays
  BY <1>0, <1>2
<1>3. ASSUME UNCHANGED procVars PROVE Stays
  BY <1>3 DEF procVars
<1>4. ASSUME Stays PROVE ~Recover(p)
  <2>1. Recover(p) => pc'[p] = "output" /\ pc[p] = "recover"
    BY <1>0, Order DEF Recover, Goes
  <2>2. QED BY <1>4, <2>1
<1>5. ASSUME NEW q \in Servers, q # p, StartStep(q) PROVE Stays
  <2>0. q \in Procs /\ {q} \in SUBSET Procs
    BY Names
  <2>1. \/ End({q})
        \/ /\ \E v : pc' = [pc EXCEPT ![q] = v]
           /\ \/ UNCHANGED switch \/ \E w : switch' = [switch EXCEPT ![q] = w]
    BY <1>5 DEF StartStep, Begin, CheckMarker, Bind, OpensLog, Recover, NewSwitch, OpenOutput, Goes
  <2>2. QED BY <1>0, <1>1, <1>5, <2>0, <2>1
<1>6. ASSUME NEW q \in Servers,
             \/ Activate(q) \/ Restore(q) \/ Exit(q) \/ ServeEnds(q)
             \/ (TrayQuit(q) \/ ShutdownRestores(q)) /\ q # p
      PROVE  Stays
  <2>0. q \in Procs /\ {q} \in SUBSET Procs
    BY Names
  <2>1. CASE Activate(q) \/ Restore(q)
    BY <1>3, <2>1 DEF Activate, Restore
  <2>2. CASE Exit(q) \/ ServeEnds(q)
    BY <1>1, <2>0, <2>2 DEF Exit, ServeEnds
  <2>3. CASE (TrayQuit(q) \/ ShutdownRestores(q)) /\ q # p
    BY <1>2, <2>0, <2>3 DEF TrayQuit, ShutdownRestores
  <2>4. QED BY <1>6, <2>1, <2>2, <2>3
<1>7. CASE \E q \in Servers :
             StartStep(q) \/ Activate(q) \/ Restore(q) \/ TrayQuit(q) \/ Shutdown(q) \/ ServeEnds(q)
  BY <1>4, <1>5, <1>6, <1>7 DEF Shutdown
<1>8. CASE \E q \in Procs : Kill(q)
  BY <1>1, <1>4, <1>8 DEF Kill
<1>9. CASE Watchdog \/ ManualStart
  <2>1. "task" \in Procs
    BY Names
  <2>2. QED BY <1>0, <1>2, <1>4, <1>9, <2>1 DEF Watchdog, ManualStart, Launch
<1>10. CASE Interrupt
  BY <1>0, <1>2, <1>4, <1>10 DEF Interrupt
<1>11. CASE RestoreMic \/ StartRestoreMic
  BY <1>0, <1>2, <1>4, <1>11 DEF RestoreMic, StartRestoreMic
<1>12. CASE OtherTakesPort \/ OtherLeavesPort
  BY <1>4, <1>12 DEF OtherTakesPort, OtherLeavesPort
<1>13. CASE SignOut \/ EndTask \/ StopCouchMic
  BY <1>1, <1>4, <1>13, Names DEF SignOut, EndTask, StopCouchMic
<1>14. CASE StartInstalled \/ InstallFails
  <2>1. StartTask \/ UNCHANGED procVars
    BY <1>14 DEF StartInstalled, InstallFails
  <2>2. "task" \in Procs
    BY Names
  <2>3. QED BY <1>2, <1>3, <1>4, <2>1, <2>2 DEF StartTask
<1>15. CASE \/ SignOn \/ Install \/ Uninstall \/ ScriptBreaks \/ DisableTask \/ CopyExe \/ Register
            \/ Unmark \/ Answered \/ Unregister \/ RestoreMicEnded \/ Forget \/ DeleteExe
  BY <1>3, <1>4, <1>15
     DEF SignOn, Install, Uninstall, RunScript, ScriptBreaks, DisableTask, CopyExe, Register, Unmark,
         Answered, Unregister, RestoreMicEnded, Forget, DeleteExe
<1>16. QED
  BY <1>7, <1>8, <1>9, <1>10, <1>11, <1>12, <1>13, <1>14, <1>15
  DEF Next, ScriptStep, InstallStep, UninstallStep

LEMMA NextRecovered == ASSUME IInv, Next PROVE Recovered'
<1> SUFFICES ASSUME NEW p \in Servers, pc'[p] = "output"
             PROVE  mic' = "user" \/ switch'[p] = "failed" \/ lostRecord'
  BY DEF Recovered
<1>0. ProcsOK /\ p \in Procs
  BY InvProcs, Names
<1>0a. /\ pc \in [Procs -> {"none", "begin", "serving"} \cup StartSteps \cup Quitting]
       /\ switch \in [Procs -> {"none", "have", "failed"}]
  BY <1>0 DEF ProcsOK, ProcTypes
<1>1. \/ pc[p] = "output" /\ switch'[p] = switch[p]
     \/ Recover(p)
  <2>1. StartStep(p) => Recover(p)
    BY <1>0, <1>0a, Order
    DEF StartStep, Begin, CheckMarker, Bind, OpensLog, OpenOutput, Goes, End
  <2>2. ~TrayQuit(p) /\ ~ShutdownRestores(p) /\ ~(Interrupt /\ p = "manual")
    BY <1>0, <1>0a DEF TrayQuit, ShutdownRestores, Interrupt
  <2>3. QED BY <1>0, <2>1, <2>2, ServerMoves
<1>2. CASE Recover(p)
  <2>1. \/ mic' = (IF record THEN "user" ELSE mic) /\ UNCHANGED lostRecord
        \/ switch' = [switch EXCEPT ![p] = "failed"]
    BY <1>2 DEF Recover, NewSwitch, StaysSame, ghost
  <2>2. mic = "user" \/ record \/ lostRecord
    BY DEF IInv, TypeOK, NothingForgotten
  <2>3. QED BY <1>0, <1>0a, <2>1, <2>2
<1>3. CASE pc[p] = "output" /\ switch'[p] = switch[p]
  <2>1. mic = "user" \/ switch[p] = "failed" \/ lostRecord
    BY <1>3 DEF IInv, Recovered
  <2>2. ASSUME NEW q \in Servers, Activate(q) PROVE FALSE
    <3>1. port = q /\ port = p
      BY <1>0, <1>3, <2>2 DEF Activate, ProcsOK, PortHeld, Bound
    <3>2. QED BY <1>3, <2>2, <3>1 DEF Activate
  <2>3. CASE Forget
    BY <1>3, <2>1, <2>3 DEF Forget
  <2>4. QED BY <1>3, <2>1, <2>2, <2>3, MicChanges DEF micVars
<1>4. QED BY <1>1, <1>2, <1>3

LEMMA Inductive == Spec => []IInv
<1>1. Init => IInv
  <2> SUFFICES ASSUME Init PROVE IInv
    OBVIOUS
  <2>1. ProcsOK /\ RestTypes /\ script \in Scripts /\ InOrder
    BY InitProcs, InitRest
  <2>2. script.uninstalls = FALSE
    BY DEF Init, Idle
  <2>3. Uninstalling /\ NothingForgotten /\ Recovered
    BY <2>2 DEF Init, Uninstalling, NothingForgotten, Recovered
  <2>4. QED BY <2>1, <2>3, TypeParts DEF IInv, ProcsOK
<1>2. IInv /\ [Next]_vars => IInv'
  <2> SUFFICES ASSUME IInv, [Next]_vars PROVE IInv'
    OBVIOUS
  <2>1. CASE UNCHANGED vars
    BY <2>1 DEF IInv, TypeOK, PortHeld, SwitchHeld, InOrder, Uninstalling, NothingForgotten, Recovered,
       vars, procVars, micVars, ghost
  <2>2. CASE Next
    <3>1. ProcsOK' /\ RestTypes' /\ script' \in Scripts /\ InOrder'
      BY <2>2, InvProcs, NextProcs, NextRest, NextScript, TypeParts DEF IInv
    <3>2. TypeOK'
      BY <3>1 DEF ProcsOK, TypeOK, ProcTypes, RestTypes
    <3>3. QED BY <2>2, <3>1, <3>2, NextUninstalling, NextKept, NextRecovered DEF IInv, ProcsOK
  <2>3. QED BY <2>1, <2>2
<1>3. QED BY <1>1, <1>2, PTL DEF Spec

\* However starts by hand, by the task and by the uninstaller meet, only the process that holds the
\* port has the log open, and only that one or a one-shot the microphone (app.rs:1076-1078).
THEOREM AlwaysOneInstance == Spec => []OneInstance
<1>1. IInv => OneInstance
  <2> SUFFICES ASSUME IInv PROVE OneInstance
    OBVIOUS
  <2>1. TypeOK /\ ProcsOK
    BY InvProcs DEF IInv
  <2>2. logs \subseteq {port}
    BY <2>1 DEF ProcsOK, ProcTypes, PortHeld
  <2>3. ASSUME NEW p \in Servers, switch[p] = "have" PROVE port = p /\ lock = p
    <3>1. p \in Procs
      BY Names
    <3>2. pc[p] \in Early \cup Bound /\ pc[p] \notin Early
      BY <2>1, <2>3, <3>1, PcValues DEF ProcsOK, ProcTypes, SwitchHeld
    <3>3. QED BY <2>1, <2>3, <3>1, <3>2 DEF ProcsOK, PortHeld, SwitchHeld
  <2>4. QED BY <2>1, <2>2, <2>3 DEF OneInstance
<1>2. QED BY <1>1, Inductive, PTL

\* The microphone is never left on CABLE Output without the record that says what it was before, in
\* particular not by an uninstall, unless --restore-mic failed (install.ps1:225-229).
THEOREM NeverForgotten == Spec => []NothingForgotten
BY Inductive, PTL DEF IInv

\* A process that gives up because there is no output has given the microphone of an earlier one
\* back (app.rs:1085-1087).
THEOREM RecoversFirst == Spec => RecoveredFirst
<1>1. ASSUME IInv, NEW p \in Servers, OpenOutput(p)
      PROVE  mic = "user" \/ switch[p] = "failed" \/ lostRecord
  BY <1>1 DEF IInv, Recovered, OpenOutput
<1>2. IInv => [\A p \in Servers : OpenOutput(p) /\ pc'[p] = "none"
                 => mic = "user" \/ switch[p] = "failed" \/ lostRecord]_vars
  BY <1>1
<1>3. QED BY <1>2, Inductive, PTL DEF RecoveredFirst

(***************************************************************************)
(* A Quit lasts                                                            *)
(***************************************************************************)

\* Where a server may be after a Quit that was written down.
Away(p) ==
  \/ pc[p] \in {"none", "begin", "mark"} \cup Quitting
  \/ pc[p] = "bind" /\ port \in Servers \ {p} /\ pc[port] \in Quitting

\* Past the marker, a start by hand would not be stopped by it: there is none when Quit is chosen,
\* and one that comes later is the user's last word itself.
StopInv == StopWins /\ (stopped => pc["manual"] # "bind")

LEMMA StopParts ==
  StopInv <=> (stopped => marker /\ pc["manual"] # "bind" /\ \A p \in Servers : Away(p))
BY DEF StopInv, StopWins, Away

\* What ends takes nobody's port from under a quitting process, if it waits as Outlasts says.
LEMMA EndAway ==
  ASSUME ProcsOK, NEW ps \in SUBSET Procs, End(ps), pc["manual"] # "bind", \A p \in Servers : Away(p),
         \A q \in Servers : pc[q] = "bind" => q \in ps \/ port \notin ps
  PROVE  pc'["manual"] # "bind" /\ \A p \in Servers : Away(p)'
<1>1. \A p \in Procs : pc'[p] = (IF p \in ps THEN "none" ELSE pc[p])
  BY DEF End
<1>2. port' = (IF port \in ps THEN "free" ELSE port)
  BY DEF End
<1>3. QED BY <1>1, <1>2, Names DEF Away

\* A server moves among the places where it may be.
LEMMA MoveAway ==
  ASSUME ProcsOK, NEW p \in Procs, NEW v, pc' = [pc EXCEPT ![p] = v], UNCHANGED port,
         (v \in {"begin", "mark"} /\ pc[p] \notin Quitting) \/ v \in Quitting \/ p = "oneshot",
         pc["manual"] # "bind", \A q \in Servers : Away(q)
  PROVE  pc'["manual"] # "bind" /\ \A q \in Servers : Away(q)'
<1>1. pc'[p] = v /\ \A q \in Procs : q # p => pc'[q] = pc[q]
  BY DEF ProcsOK, ProcTypes
<1>2. QED BY <1>1, Names DEF Away, Quitting

LEMMA NextStop == ASSUME IInv, StopInv, Next PROVE StopInv'
<1> SUFFICES ASSUME stopped'
             PROVE  marker' /\ pc'["manual"] # "bind" /\ \A p \in Servers : Away(p)'
  BY DEF StopInv, StopWins, Away
<1>0. /\ ProcsOK /\ stopped \in BOOLEAN /\ marker \in BOOLEAN
      /\ \A p \in Servers : p \in Procs /\ {p} \in SUBSET Procs
  BY InvProcs, Names DEF IInv, TypeOK
<1>1. CASE ~stopped
  <2>1. PICK p \in Servers : TrayQuit(p)
    <3>1. ASSUME NEW p \in Servers,
                 StartStep(p) \/ Activate(p) \/ Restore(p) \/ Shutdown(p) \/ ServeEnds(p)
          PROVE  stopped' => stopped
      BY <3>1 DEF StartStep, Begin, CheckMarker, Bind, OpensLog, Recover, OpenOutput, Activate, Restore,
         Shutdown, ShutdownRestores, Exit, ServeEnds, StaysSame, ghost
    <3>2. CASE InstallStep \/ UninstallStep
      BY <1>1, <3>2 DEF InstallStep, UninstallStep, DisableTask, StopCouchMic, CopyExe, Register, Unmark,
         StartInstalled, Answered, EndTask, Unregister, StartRestoreMic, RestoreMicEnded, Forget, DeleteExe
    <3>3. CASE \/ Watchdog \/ ManualStart \/ Interrupt \/ RestoreMic \/ \E p \in Procs : Kill(p)
      BY <1>1, <3>3 DEF Watchdog, ManualStart, Interrupt, RestoreMic, Kill, StaysSame, ghost
    <3>4. CASE \/ OtherTakesPort \/ OtherLeavesPort \/ SignOut \/ SignOn \/ Install \/ Uninstall
               \/ InstallFails \/ ScriptBreaks
      BY <1>1, <3>4 DEF OtherTakesPort, OtherLeavesPort, SignOut, SignOn, Install, Uninstall, RunScript,
         InstallFails, ScriptBreaks, StaysSame, ghost
    <3>5. QED BY <1>1, <3>1, <3>2, <3>3, <3>4 DEF Next, ScriptStep
  <2>2. /\ pc[p] = "serving" /\ pc' = [pc EXCEPT ![p] = "restoring"] /\ UNCHANGED port /\ marker'
        /\ pc["manual"] \notin {"begin", "mark", "bind"}
    BY <1>1, <2>1 DEF TrayQuit, WritesMarker
  <2>3. port = p
    BY <1>0, <2>2 DEF ProcsOK, PortHeld, Bound
  <2>4. pc'[p] = "restoring" /\ \A q \in Procs : q # p => pc'[q] = pc[q]
    BY <1>0, <2>2 DEF ProcsOK, ProcTypes
  <2>5. \A q \in Servers : q # p => pc[q] \in Early
    BY <1>0, <2>3, PcValues DEF ProcsOK, ProcTypes, PortHeld
  <2>6. QED BY <2>2, <2>3, <2>4, <2>5, Names DEF Away, Early, Quitting
<1>2. CASE stopped
  <2>0. marker /\ pc["manual"] # "bind" /\ \A p \in Servers : Away(p)
    BY <1>2, StopParts
  <2>1. ASSUME NEW p \in Servers, StartStep(p)
        PROVE  marker' /\ pc'["manual"] # "bind" /\ \A q \in Servers : Away(q)'
    <3>1. pc[p] \in {"begin", "mark", "bind"}
      BY <2>0, <2>1 DEF StartStep, Begin, CheckMarker, Bind, OpensLog, Recover, OpenOutput, Away, Quitting
    <3>2. CASE Begin(p)
      BY <1>0, <2>0, <3>2, MoveAway, Order DEF Begin, Quitting
    <3>3. CASE CheckMarker(p)
      <4>1. p = "task" /\ StaysAway(p) /\ ~Clears(p) /\ pc[p] = "mark"
        BY <2>0, <3>3, Names DEF CheckMarker, StaysAway, Clears
      <4>2. End({p}) /\ marker'
        BY <2>0, <3>3, <4>1 DEF CheckMarker
      <4>3. \A q \in Servers : pc[q] = "bind" => q \in {p} \/ port \notin {p}
        BY <2>0, <4>1 DEF Away, Quitting
      <4>4. QED BY <1>0, <2>0, <4>2, <4>3, EndAway
    <3>4. CASE Bind(p)
      <4>1. pc[p] = "bind" /\ port # "free" /\ port # p
        BY <2>0, <3>4, Names DEF Bind, Away, Quitting
      <4>2. End({p}) /\ marker'
        BY <2>0, <3>4, <4>1 DEF Bind
      <4>3. QED BY <1>0, <2>0, <4>1, <4>2, EndAway
    <3>5. QED
      BY <2>1, <3>1, <3>2, <3>3, <3>4 DEF StartStep, OpensLog, Recover, OpenOutput
  <2>2. ASSUME NEW p \in Servers,
               Activate(p) \/ Restore(p) \/ TrayQuit(p) \/ Shutdown(p) \/ ServeEnds(p)
        PROVE  marker' /\ pc'["manual"] # "bind" /\ \A q \in Servers : Away(q)'
    <3>1. pc[p] # "serving"
      BY <2>0 DEF Away, Quitting
    <3>2. CASE ShutdownRestores(p)
      BY <1>0, <2>0, <3>2, MoveAway DEF ShutdownRestores, Quitting
    <3>3. CASE Exit(p)
      <4>1. \A q \in Servers : pc[q] # "bind"
        BY <3>3 DEF Exit, Outlasts, Quitting
      <4>2. QED BY <1>0, <2>0, <3>3, <4>1, EndAway DEF Exit
    <3>4. QED
      BY <2>2, <3>1, <3>2, <3>3 DEF Shutdown, Activate, Restore, TrayQuit, ServeEnds
  <2>3. ASSUME NEW p \in Procs, Kill(p)
        PROVE  marker' /\ pc'["manual"] # "bind" /\ \A q \in Servers : Away(q)'
    <3>1. \A q \in Servers : pc[q] = "bind" => q \in {p} \/ port \notin {p}
      <4>1. SUFFICES ASSUME NEW q \in Servers, pc[q] = "bind", port = p PROVE FALSE
        OBVIOUS
      <4>2. pc[p] \in Quitting
        BY <2>0, <4>1 DEF Away, Quitting
      <4>3. QED BY <2>3, <4>1, <4>2 DEF Kill, Outlasts
    <3>2. QED BY <1>0, <2>0, <2>3, <3>1, EndAway DEF Kill
  <2>4. CASE Watchdog \/ ManualStart \/ StartInstalled \/ InstallFails
    <3>1. marker'
      BY <2>0, <2>4 DEF Watchdog, ManualStart, StartInstalled, InstallFails
    <3>2. \/ UNCHANGED procVars
          \/ \E p \in Servers : pc[p] = "none" /\ pc' = [pc EXCEPT ![p] = "begin"] /\ UNCHANGED port
      BY <2>4, Names DEF Watchdog, ManualStart, Launch, StartInstalled, InstallFails, StartTask, Running
    <3>3. CASE UNCHANGED procVars
      BY <2>0, <3>1, <3>3 DEF procVars, Away
    <3>4. QED BY <1>0, <2>0, <3>1, <3>2, <3>3, MoveAway DEF Quitting
  <2>5. CASE RestoreMic \/ StartRestoreMic
    <3>1. /\ marker' /\ UNCHANGED port
          /\ \E v : pc' = [pc EXCEPT !["oneshot"] = v]
      BY <2>0, <2>5 DEF RestoreMic, StartRestoreMic
    <3>2. QED BY <1>0, <2>0, <3>1, Names, MoveAway
  <2>6. CASE OtherTakesPort \/ OtherLeavesPort
    BY <2>0, <2>6, Names DEF OtherTakesPort, OtherLeavesPort, StaysSame, Away
  <2>7. CASE EndTask \/ StopCouchMic
    <3>1. PICK ps \in {{"task"}, Servers} : End(ps) /\ marker'
      BY <2>0, <2>7 DEF EndTask, StopCouchMic
    <3>2. \A q \in Servers : pc[q] = "bind" => q \in ps
      BY <2>0, Names
    <3>3. QED BY <1>0, <2>0, <3>1, <3>2, Names, EndAway
  <2>8. CASE Interrupt \/ SignOut \/ Forget \/ Unmark
    <3>1. pc["manual"] # "serving"
      BY <2>0, Names DEF Away, Quitting
    <3>2. QED BY <2>8, <3>1 DEF Interrupt, SignOut, Forget, Unmark
  <2>9. CASE \/ SignOn \/ Install \/ Uninstall \/ ScriptBreaks \/ DisableTask \/ CopyExe \/ Register
             \/ Answered \/ Unregister \/ RestoreMicEnded \/ DeleteExe
    <3>1. UNCHANGED <<pc, port, marker>>
      BY <2>9 DEF SignOn, Install, Uninstall, RunScript, ScriptBreaks, DisableTask, CopyExe, Register,
         Answered, Unregister, RestoreMicEnded, DeleteExe, procVars
    <3>2. QED BY <2>0, <3>1 DEF Away
  <2>10. QED
    BY <2>1, <2>2, <2>3, <2>4, <2>5, <2>6, <2>7, <2>8, <2>9
    DEF Next, ScriptStep, InstallStep, UninstallStep
<1>3. QED BY <1>0, <1>1, <1>2

\* A Quit that could be written down lasts until the user signs out, starts CouchMic or installs it:
\* no other process gets through to the microphone (app.rs:1064-1067, README.md:79).
THEOREM StopLasts == Spec => []StopWins
<1>1. Init => StopInv
  BY DEF Init, StopInv, StopWins
<1>2. IInv /\ StopInv /\ [Next]_vars => StopInv'
  <2>1. ASSUME StopInv, UNCHANGED vars PROVE StopInv'
    BY <2>1 DEF StopInv, StopWins, vars, procVars, ghost
  <2>2. QED BY <2>1, NextStop
<1>3. StopInv => StopWins
  BY DEF StopInv
<1>4. QED BY <1>1, <1>2, <1>3, Inductive, PTL DEF Spec
=============================================================================
