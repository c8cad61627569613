--------------------------- MODULE SenderPageProofs ---------------------------
(***************************************************************************)
(* Proofs about SenderPage for every environment, both settings of "force  *)
(* PCM" and any number of events: no peer connection is out of reach of    *)
(* stop(), a stopped page is silent, and nobody waits for a replaced       *)
(* socket.                                                                 *)
(***************************************************************************)
EXTENDS SenderPage, FiniteSetTheorems, TLAPS

Awaits == {"off", "audio", "ws"} \cup InRtc
ConnStates == {"none", "new", "local", "remote", "connected", "lost", "failed", "closed"}

(***************************************************************************)
(* The inductive invariant                                                 *)
(***************************************************************************)

\* A socket that has not opened yet is promised to a coroutine that waits for it.
Promised ==
  /\ waiter # None => At(waiter, "ws") /\ ws \in {"connecting", "closing"}
  /\ ws = "connecting" => waiter # None

\* While start() waits for the microphone the page counts as stopped, and until its socket is open
\* there is no peer connection, not even one of a reconnect of the session before.
NothingYet ==
  /\ At("start", "audio") => ~running
  /\ At("start", "ws") => pc = None

\* A timer whose promise has not settled belongs to a coroutine that waits for its answer.
TimersWait == \A f \in armed : At(f, "answer")

PeersKnown == \A f \in Flows : flow[f] \in {"remote", "connect"} => peer[f] \in Flows

\* What the PC owes this socket, and the offers that may still be sent on it.
ToSend(f) == IF flow[f] \in {"ws", "offer", "gather"} THEN 1 ELSE 0
OneOfferEach == replies + ToSend("start") + ToSend("reconnect") <= 2

IInv ==
  /\ NoForgottenPeer /\ StoppedIsSilent /\ WaitersServed
  /\ Promised /\ NothingYet /\ TimersWait /\ PeersKnown /\ OneOfferEach

LEMMA TwoFlows == Cardinality(Flows) = 2 /\ None \notin Flows
<1>1. Cardinality({"start"}) = 1 /\ IsFiniteSet({"start"})
  BY FS_Singleton
<1>2. Cardinality({"start"} \cup {"reconnect"}) = 2
  BY <1>1, FS_AddElement
<1>3. Flows = {"start"} \cup {"reconnect"}
  BY DEF Flows
<1>4. QED BY <1>2, <1>3, ConstantsOK DEF Flows

LEMMA ToSendType ==
  /\ {ToSend("start"), ToSend("reconnect")} \subseteq 0..1
  /\ {ToSend("start")', ToSend("reconnect")'} \subseteq 0..1
BY DEF ToSend

LEMMA Initially == Init => IInv
<1> SUFFICES ASSUME Init PROVE IInv
  OBVIOUS
<1>1. TypeOK
  <2>1. events \in 0..MaxEvents BY ConstantsOK DEF Init
  <2>2. replies \in 0..Cardinality(Flows) BY TwoFlows DEF Init
  <2>3. QED BY <2>1, <2>2 DEF Init, TypeOK, InRtc
<1>2. NoForgottenPeer /\ StoppedIsSilent /\ WaitersServed /\ Promised
  BY <1>1 DEF Init, NoForgottenPeer, StoppedIsSilent, WaitersServed, Promised, At
<1>3. NothingYet /\ TimersWait /\ PeersKnown
  BY DEF Init, NothingYet, TimersWait, PeersKnown, At, Flows
<1>4. OneOfferEach
  BY DEF Init, OneOfferEach, ToSend, Flows
<1>5. QED BY <1>2, <1>3, <1>4 DEF IInv

(***************************************************************************)
(* Steps that many actions take                                            *)
(***************************************************************************)

LEMMA Moved ==
  ASSUME TypeOK, NEW f \in Flows, NEW a \in Awaits, Goto(f, a)
  PROVE  /\ flow' \in [Flows -> Awaits] /\ flow'[f] = a
         /\ \A g \in Flows : g # f => flow'[g] = flow[g]
BY DEF TypeOK, Goto, Awaits

\* The catch of startRtc() closes the current peer connection, so that none is left.
LEMMA PeerClosed ==
  ASSUME TypeOK, ClosePeer
  PROVE  /\ pc' = None /\ conn' \in [Flows -> ConnStates]
         /\ \A g \in Flows : conn'[g] = IF g = pc THEN "closed" ELSE conn[g]
BY TwoFlows DEF TypeOK, ClosePeer, ConnStates

LEMMA PcmStarted ==
  ASSUME TypeOK, StartPcmPath
  PROVE  /\ audio' = audio /\ node' \in {"none", "current", "stale"}
         /\ path' \in {"-", "PCM", "WebRTC"}
BY DEF TypeOK, StartPcmPath

\* A coroutine that gives up, at whichever await, keeps the invariant.
LEMMA FailSafe ==
  ASSUME IInv, NEW f \in Flows, flow[f] \in InRtc, Fail(f),
         UNCHANGED <<env, events, running, ws, waiter, retry>>,
         replies' \in 0..replies, armed' \subseteq armed, flow[f] = "answer" => f \notin armed',
         pendingOffer' \in Flows \cup {None}, leftover' \in Nat
  PROVE  IInv'
<1> USE DEF IInv, NoForgottenPeer
<1>1. /\ flow' \in [Flows -> Awaits] /\ flow'[f] = "off"
      /\ \A g \in Flows : g # f => flow'[g] = flow[g]
  BY Moved DEF Fail, Awaits
<1>2. /\ pc' = None /\ conn' \in [Flows -> ConnStates]
      /\ \A g \in Flows : conn'[g] = IF g = pc THEN "closed" ELSE conn[g]
  BY PeerClosed DEF Fail
<1>3. /\ audio' = audio /\ node' \in {"none", "current", "stale"}
      /\ path' \in {"-", "PCM", "WebRTC"} /\ peer' = peer
  BY PcmStarted DEF Fail
<1>4. TypeOK'
  BY <1>1, <1>2, <1>3, TwoFlows DEF TypeOK, Awaits, ConnStates
<1>5. \A g \in Flows : conn'[g] \notin {"none", "closed"} => pc' = g
  BY <1>2 DEF TypeOK
<1>6. StoppedIsSilent'
  BY <1>2, <1>3 DEF StoppedIsSilent
<1>7. WaitersServed' /\ Promised'
  BY <1>1, TwoFlows DEF TypeOK, WaitersServed, Promised, At, InRtc
<1>8. NothingYet' /\ TimersWait'
  <2>1. NothingYet'
    BY <1>1, <1>2 DEF NothingYet, At, Flows
  <2>2. ASSUME NEW g \in armed' PROVE flow'[g] = "answer"
    BY <1>1, <2>2 DEF TypeOK, TimersWait, At
  <2>3. QED BY <2>1, <2>2 DEF TimersWait, At
<1>9. PeersKnown'
  BY <1>1, <1>3 DEF PeersKnown
<1>10. OneOfferEach'
  <2>1. ToSend("start")' <= ToSend("start") /\ ToSend("reconnect")' <= ToSend("reconnect")
    BY <1>1 DEF ToSend, Flows
  <2>2. replies \in Nat /\ replies' \in Nat /\ replies' <= replies
    BY TwoFlows DEF TypeOK
  <2>3. QED BY <2>1, <2>2, ToSendType DEF OneOfferEach
<1>11. QED BY <1>4, <1>5, <1>6, <1>7, <1>8, <1>9, <1>10

\* A new socket takes the promise of the old one over, whoever waited for that.
LEMMA OpenSafe ==
  ASSUME IInv, NEW f \in Flows, flow[f] \in {"off", "audio"}, OpenWs(f), running', audio' \in {"on", audio},
         audio' \in {"none", "opening", "on", "closed"},
         f = "start" => ~running, f = "reconnect" => running,
         events' \in 0..MaxEvents, retry' \in Nat,
         UNCHANGED <<env, node, path, session, offer>>
  PROVE  IInv'
<1> USE DEF IInv, NoForgottenPeer
<1>1. /\ flow' \in [Flows -> Awaits] /\ flow'[f] = "ws"
      /\ \A g \in Flows : g # f => flow'[g] = IF g = waiter THEN "off" ELSE flow[g]
  BY DEF OpenWs, TypeOK, Awaits
<1>2. ws' = "connecting" /\ waiter' = f /\ replies' = 0
  BY DEF OpenWs
<1>3. TypeOK'
  BY <1>1, <1>2, TwoFlows DEF TypeOK, Awaits, session, offer
<1>4. \A g \in Flows : conn'[g] \notin {"none", "closed"} => pc' = g
  BY DEF session
<1>5. StoppedIsSilent'
  BY DEF StoppedIsSilent
<1>6. WaitersServed' /\ Promised'
  BY <1>1, <1>2, TwoFlows DEF TypeOK, WaitersServed, Promised, At
<1>7. NothingYet'
  <2>1. ~At("start", "audio")'
    BY <1>1 DEF NothingYet, At, Flows
  <2>2. At("start", "ws")' => pc' = None
    BY <1>1 DEF NothingYet, StoppedIsSilent, WaitersServed, At, Flows, session
  <2>3. QED BY <2>1, <2>2 DEF NothingYet
<1>8. TimersWait'
  <2>1. ASSUME NEW g \in armed PROVE flow'[g] = "answer"
    <3>1. g \in Flows /\ flow[g] = "answer"
      BY <2>1 DEF TypeOK, TimersWait, At
    <3>2. g # f /\ g # waiter
      BY <3>1, TwoFlows DEF TypeOK, Promised, At
    <3>3. QED BY <1>1, <3>1, <3>2
  <2>2. QED BY <2>1 DEF TimersWait, At, offer
<1>9. PeersKnown'
  BY <1>1 DEF PeersKnown, session
<1>10. OneOfferEach'
  BY <1>2, ToSendType DEF OneOfferEach
<1>11. QED BY <1>3, <1>4, <1>5, <1>6, <1>7, <1>8, <1>9, <1>10

\* The coroutine whose socket has opened takes its old peer connection down, if there can be one,
\* before it makes a new one or falls back to PCM.
LEMMA BeginSafe ==
  ASSUME IInv, NEW f \in Flows, flow[f] = "ws", running, BeginRtc(f),
         ws' = "open", waiter' = None,
         UNCHANGED <<env, events, running, replies, offer, retry>>
  PROVE  IInv'
<1> USE DEF IInv, NoForgottenPeer
<1>1. PICK a \in {"off", "offer"} : Goto(f, a)
  BY DEF BeginRtc
<1>2. /\ flow' \in [Flows -> Awaits] /\ flow'[f] = a
      /\ \A g \in Flows : g # f => flow'[g] = flow[g]
  BY <1>1, Moved DEF Awaits, InRtc
<1>3. audio' = audio /\ node' \in {"none", "current", "stale"} /\ path' \in {"-", "PCM", "WebRTC"}
  <2>1. CASE StartPcmPath BY <2>1, PcmStarted
  <2>2. CASE UNCHANGED sound BY <2>2 DEF sound, TypeOK
  <2>3. QED BY <2>1, <2>2 DEF BeginRtc
<1>4. waiter = f /\ pc \in Flows \cup {None} /\ conn \in [Flows -> ConnStates]
  BY DEF TypeOK, WaitersServed, At, ConnStates
<1>5. f = "start" => pc = None
  BY DEF NothingYet, At
<1>6. /\ pc' \in {f, None} /\ conn' \in [Flows -> ConnStates] /\ peer' = peer
      /\ \A g \in Flows : conn'[g] \notin {"none", "closed"} => pc' = g
  <2> DEFINE old == IF f = "reconnect" /\ pc # None THEN [conn EXCEPT ![pc] = "closed"] ELSE conn
  <2>1. old \in [Flows -> ConnStates] /\ \A g \in Flows : old[g] \in {"none", "closed"}
    <3>1. CASE f = "reconnect" /\ pc # None
      <4>1. pc \in Flows /\ old = [conn EXCEPT ![pc] = "closed"] BY <1>4, <3>1
      <4>2. old \in [Flows -> ConnStates] /\ old[pc] = "closed" BY <1>4, <4>1 DEF ConnStates
      <4>3. \A g \in Flows : g # pc => old[g] = conn[g] BY <1>4, <4>1
      <4>4. QED BY <4>2, <4>3
    <3>2. CASE ~(f = "reconnect" /\ pc # None)
      <4>1. pc = None /\ old = conn BY <1>5, <3>2 DEF Flows
      <4>2. QED BY <1>4, <4>1, TwoFlows
    <3>3. QED BY <3>1, <3>2
  <2>2. CASE /\ conn' = old /\ pc' = (IF f = "reconnect" THEN None ELSE pc) /\ UNCHANGED peer
    BY <2>1, <2>2, <1>5 DEF Flows
  <2>3. CASE pc' = f /\ conn' = [old EXCEPT ![f] = "new"] /\ UNCHANGED peer
    <3>1. conn' \in [Flows -> ConnStates] /\ \A g \in Flows : g # f => conn'[g] = old[g]
      BY <2>1, <2>3 DEF ConnStates
    <3>2. QED BY <2>1, <2>3, <3>1
  <2>4. QED BY <2>2, <2>3 DEF BeginRtc
<1>7. TypeOK'
  BY <1>2, <1>3, <1>6 DEF TypeOK, Awaits, ConnStates, offer
<1>8. StoppedIsSilent'
  BY DEF StoppedIsSilent
<1>9. WaitersServed' /\ Promised'
  BY <1>1, <1>2, <1>4 DEF TypeOK, WaitersServed, Promised, At
<1>10. NothingYet'
  <2>1. ~At("start", "audio")' BY <1>2 DEF NothingYet, At, Flows
  <2>2. ~At("start", "ws")' BY <1>2, <1>4 DEF WaitersServed, At, Flows
  <2>3. QED BY <2>1, <2>2 DEF NothingYet
<1>11. TimersWait'
  <2>1. ASSUME NEW g \in armed PROVE flow'[g] = "answer"
    BY <1>2, <2>1 DEF TypeOK, TimersWait, At
  <2>2. QED BY <2>1 DEF TimersWait, At, offer
<1>12. PeersKnown'
  BY <1>2, <1>6 DEF PeersKnown
<1>13. OneOfferEach'
  <2>1. ToSend("start")' <= ToSend("start") /\ ToSend("reconnect")' <= ToSend("reconnect")
    BY <1>2 DEF ToSend, Flows
  <2>2. replies \in Nat /\ replies' = replies
    BY TwoFlows DEF TypeOK
  <2>3. QED BY <2>1, <2>2, ToSendType DEF OneOfferEach
<1>14. QED BY <1>6, <1>7, <1>8, <1>9, <1>10, <1>11, <1>12, <1>13

\* A coroutine that goes on in startRtc() from an open socket, without a new offer.
LEMMA GoOnSafe ==
  ASSUME IInv, NEW f \in Flows, flow[f] \in InRtc, NEW a \in {"off"} \cup InRtc, Goto(f, a),
         UNCHANGED <<env, events, running, ws, waiter, pc, audio, node, retry>>,
         path' \in {path, "WebRTC"},
         replies' \in 0..2, replies' + ToSend("start")' + ToSend("reconnect")' <= 2,
         conn' \in [Flows -> ConnStates],
         \A g \in Flows : conn'[g] # conn[g] => pc = g,
         peer' \in [Flows -> Flows \cup {None}],
         \A g \in Flows : g # f => peer'[g] = peer[g],
         a \in {"remote", "connect"} => peer'[f] \in Flows,
         armed' \subseteq armed \cup {f}, f \in armed' => a = "answer",
         pendingOffer' \in Flows \cup {None}, leftover' \in Nat
  PROVE  IInv'
<1> USE DEF IInv, NoForgottenPeer
<1>1. /\ flow' \in [Flows -> Awaits] /\ flow'[f] = a
      /\ \A g \in Flows : g # f => flow'[g] = flow[g]
  BY Moved DEF Awaits, InRtc
<1>2. TypeOK'
  BY <1>1, TwoFlows DEF TypeOK, Awaits, ConnStates
<1>3. \A g \in Flows : conn'[g] \notin {"none", "closed"} => pc' = g
  OBVIOUS
<1>4. StoppedIsSilent'
  BY DEF StoppedIsSilent
<1>5. WaitersServed' /\ Promised'
  BY <1>1, TwoFlows DEF TypeOK, WaitersServed, Promised, At, InRtc
<1>6. NothingYet'
  BY <1>1 DEF NothingYet, At, Flows, InRtc
<1>7. TimersWait'
  <2>1. ASSUME NEW g \in armed' PROVE flow'[g] = "answer"
    BY <1>1, <2>1 DEF TypeOK, TimersWait, At
  <2>2. QED BY <2>1 DEF TimersWait, At
<1>8. PeersKnown'
  BY <1>1 DEF PeersKnown
<1>9. OneOfferEach'
  BY DEF OneOfferEach
<1>10. QED BY <1>2, <1>3, <1>4, <1>5, <1>6, <1>7, <1>8, <1>9

(***************************************************************************)
(* The actions                                                             *)
(***************************************************************************)

LEMMA StartSafe == ASSUME IInv, Start PROVE IInv'
<1> USE DEF IInv, NoForgottenPeer
<1>1. /\ flow' \in [Flows -> Awaits] /\ flow'["start"] = "audio"
      /\ \A g \in Flows : g # "start" => flow'[g] = flow[g]
  BY Moved DEF Start, Awaits, Flows
<1>2. flow["start"] = "off" /\ ~running /\ UNCHANGED <<running, socket, session, offer>>
  BY DEF Start, starting
<1>3. TypeOK'
  <2>1. events' \in 0..MaxEvents BY ConstantsOK DEF Start, Event, TypeOK
  <2>2. QED BY <1>1, <2>1 DEF Start, TypeOK, Awaits, socket, session, offer
<1>4. StoppedIsSilent' /\ \A g \in Flows : conn'[g] \notin {"none", "closed"} => pc' = g
  BY DEF Start, StoppedIsSilent, socket, session
<1>5. WaitersServed' /\ Promised'
  BY <1>1, <1>2 DEF TypeOK, WaitersServed, Promised, At, socket
<1>6. NothingYet' /\ PeersKnown'
  BY <1>1, <1>2 DEF NothingYet, PeersKnown, At, session, Flows
<1>7. TimersWait'
  <2>1. ASSUME NEW g \in armed PROVE flow'[g] = "answer"
    BY <1>1, <1>2, <2>1 DEF TypeOK, TimersWait, At
  <2>2. QED BY <1>2, <2>1 DEF TimersWait, At, offer
<1>8. OneOfferEach'
  <2>1. ToSend("start")' <= ToSend("start") /\ ToSend("reconnect")' <= ToSend("reconnect")
    BY <1>1 DEF ToSend, Flows
  <2>2. replies \in Nat /\ replies' = replies
    BY <1>2, TwoFlows DEF TypeOK, socket
  <2>3. QED BY <2>1, <2>2, ToSendType DEF OneOfferEach
<1>9. QED BY <1>3, <1>4, <1>5, <1>6, <1>7, <1>8

LEMMA AudioReadySafe == ASSUME IInv, AudioReady PROVE IInv'
<1>1. "start" \in Flows /\ flow["start"] = "audio" /\ ~running
  BY DEF AudioReady, At, Flows, IInv, NothingYet
<1>2. events' \in 0..MaxEvents /\ retry' \in Nat /\ UNCHANGED <<env, node, path, session, offer>>
  BY DEF AudioReady, IInv, NoForgottenPeer, TypeOK
<1>3. OpenWs("start") /\ running' /\ audio' = "on"
  BY DEF AudioReady
<1>4. QED BY <1>1, <1>2, <1>3, OpenSafe

LEMMA AudioDeniedSafe == ASSUME IInv, AudioDenied PROVE IInv'
<1> USE DEF IInv, NoForgottenPeer
<1>1. /\ flow' \in [Flows -> Awaits] /\ flow'["start"] = "off"
      /\ \A g \in Flows : g # "start" => flow'[g] = flow[g]
  BY Moved DEF AudioDenied, Awaits, Flows
<1>2. flow["start"] = "audio" /\ UNCHANGED <<running, socket, session, offer>>
  BY DEF AudioDenied, At
<1>3. TypeOK'
  BY <1>1 DEF AudioDenied, TypeOK, Awaits, socket, session, offer
<1>4. StoppedIsSilent' /\ \A g \in Flows : conn'[g] \notin {"none", "closed"} => pc' = g
  BY DEF AudioDenied, StoppedIsSilent, socket, session
<1>5. WaitersServed' /\ Promised'
  BY <1>1, <1>2 DEF TypeOK, WaitersServed, Promised, At, socket
<1>6. NothingYet' /\ PeersKnown'
  BY <1>1, <1>2 DEF NothingYet, PeersKnown, At, session, Flows
<1>7. TimersWait'
  <2>1. ASSUME NEW g \in armed PROVE flow'[g] = "answer"
    BY <1>1, <1>2, <2>1 DEF TypeOK, TimersWait, At
  <2>2. QED BY <1>2, <2>1 DEF TimersWait, At, offer
<1>8. OneOfferEach'
  <2>1. ToSend("start")' <= ToSend("start") /\ ToSend("reconnect")' <= ToSend("reconnect")
    BY <1>1 DEF ToSend, Flows
  <2>2. replies \in Nat /\ replies' = replies
    BY <1>2, TwoFlows DEF TypeOK, socket
  <2>3. QED BY <2>1, <2>2, ToSendType DEF OneOfferEach
<1>9. QED BY <1>3, <1>4, <1>5, <1>6, <1>7, <1>8

LEMMA StopSafe == ASSUME IInv, Stop PROVE IInv'
<1> USE DEF IInv, NoForgottenPeer
<1>1. /\ pc' = None /\ conn' \in [Flows -> ConnStates]
      /\ \A g \in Flows : conn'[g] = IF g = pc THEN "closed" ELSE conn[g]
  BY PeerClosed DEF Stop
<1>2. TypeOK'
  <2>1. events' \in 0..MaxEvents BY ConstantsOK DEF Stop, Event, TypeOK
  <2>2. QED BY <1>1, <2>1 DEF Stop, TypeOK, ConnStates, offer
<1>3. \A g \in Flows : conn'[g] \notin {"none", "closed"} => pc' = g
  BY <1>1 DEF TypeOK
<1>4. StoppedIsSilent' /\ NothingYet'
  BY <1>1 DEF Stop, StoppedIsSilent, NothingYet, At, TypeOK
<1>5. WaitersServed' /\ Promised'
  BY DEF Stop, TypeOK, WaitersServed, Promised, At
<1>6. TimersWait' /\ PeersKnown' /\ OneOfferEach'
  BY DEF Stop, TimersWait, PeersKnown, OneOfferEach, ToSend, At, offer
<1>7. QED BY <1>2, <1>3, <1>4, <1>5, <1>6

LEMMA WsOpensSafe == ASSUME IInv, WsOpens PROVE IInv'
<1>1. waiter \in Flows /\ flow[waiter] = "ws" /\ running
  BY DEF WsOpens, IInv, NoForgottenPeer, TypeOK, Promised, StoppedIsSilent, At
<1>2. BeginRtc(waiter) /\ ws' = "open" /\ waiter' = None
      /\ UNCHANGED <<env, events, running, replies, offer, retry>>
  BY <1>1 DEF WsOpens
<1>3. QED BY <1>1, <1>2, BeginSafe

\* The socket closes; whoever waited for it ends.
LEMMA WsGoneSafe ==
  ASSUME IInv, WsGone, ws \in {"connecting", "open", "closing"}, events' \in 0..MaxEvents
  PROVE  IInv'
<1> USE DEF IInv, NoForgottenPeer
<1>1. /\ flow' \in [Flows -> Awaits]
      /\ \A g \in Flows : flow'[g] = IF g = waiter THEN "off" ELSE flow[g]
  BY DEF WsGone, TypeOK, Awaits
<1>2. ws' = "closed" /\ waiter' = None /\ replies' = 0 /\ UNCHANGED <<running, session, offer, sound>>
  BY DEF WsGone
<1>3. TypeOK'
  <2>1. retry' \in Nat BY DEF WsGone, TypeOK
  <2>2. QED BY <1>1, <1>2, <2>1, TwoFlows DEF WsGone, TypeOK, Awaits, session, offer, sound
<1>4. StoppedIsSilent' /\ \A g \in Flows : conn'[g] \notin {"none", "closed"} => pc' = g
  BY <1>2 DEF StoppedIsSilent, session, sound
<1>5. WaitersServed' /\ Promised'
  BY <1>1, <1>2 DEF WaitersServed, Promised, At
<1>6. NothingYet' /\ PeersKnown'
  BY <1>1, <1>2 DEF NothingYet, PeersKnown, At, session, Flows
<1>7. TimersWait'
  <2>1. ASSUME NEW g \in armed PROVE flow'[g] = "answer"
    BY <1>1, <2>1, TwoFlows DEF TypeOK, TimersWait, Promised, At
  <2>2. QED BY <1>2, <2>1 DEF TimersWait, At, offer
<1>8. OneOfferEach'
  BY <1>2, ToSendType DEF OneOfferEach
<1>9. QED BY <1>3, <1>4, <1>5, <1>6, <1>7, <1>8

LEMMA WsEndsSafe == ASSUME IInv, WsDrops \/ WsCloses PROVE IInv'
<1>1. events' \in 0..MaxEvents
  BY ConstantsOK DEF WsDrops, WsCloses, Event, IInv, NoForgottenPeer, TypeOK
<1>2. QED BY <1>1, WsGoneSafe DEF WsDrops, WsCloses

\* What leaves coroutines, socket, offers and the current peer connection alone.
LEMMA QuietSafe ==
  ASSUME IInv, UNCHANGED <<env, running, flow, sound, socket, pc, peer>>,
         events' \in 0..MaxEvents, retry' \in Nat,
         conn' \in [Flows -> ConnStates],
         \A g \in Flows : conn'[g] # conn[g] => pc = g,
         armed' \subseteq armed, pendingOffer' \in Flows \cup {None}, leftover' \in Nat
  PROVE  IInv'
<1> USE DEF IInv, NoForgottenPeer
<1>1. UNCHANGED <<audio, node, path, ws, waiter, replies>>
  BY DEF sound, socket
<1>2. TypeOK'
  BY <1>1 DEF TypeOK, ConnStates
<1>3. StoppedIsSilent' /\ \A g \in Flows : conn'[g] \notin {"none", "closed"} => pc' = g
  BY <1>1 DEF StoppedIsSilent
<1>4. WaitersServed' /\ Promised' /\ NothingYet' /\ TimersWait' /\ PeersKnown'
  BY <1>1 DEF WaitersServed, Promised, NothingYet, TimersWait, PeersKnown, At
<1>5. OneOfferEach'
  BY <1>1 DEF OneOfferEach, ToSend
<1>6. QED BY <1>2, <1>3, <1>4, <1>5

LEMMA ReconnectSafe ==
  ASSUME IInv, running, Reconnect, events' \in 0..MaxEvents, retry' \in Nat,
         UNCHANGED <<env, running, session, offer, sound>>
  PROVE  IInv'
<1>1. CASE reconnecting
  <2>1. UNCHANGED <<flow, socket>> /\ conn' = conn /\ pc' = pc /\ peer' = peer
    BY <1>1 DEF Reconnect, session
  <2>2. /\ armed' \subseteq armed /\ pendingOffer' \in Flows \cup {None} /\ leftover' \in Nat
        /\ conn' \in [Flows -> ConnStates]
    BY <2>1 DEF offer, IInv, NoForgottenPeer, TypeOK, ConnStates
  <2>3. QED BY <2>1, <2>2, QuietSafe
<1>2. CASE ~reconnecting
  <2>1. "reconnect" \in Flows /\ flow["reconnect"] = "off" /\ OpenWs("reconnect")
    BY <1>2 DEF Reconnect, reconnecting, Flows
  <2>2. audio' = audio /\ audio' \in {"none", "opening", "on", "closed"}
        /\ UNCHANGED <<node, path>> /\ running'
    BY DEF sound, IInv, NoForgottenPeer, TypeOK
  <2>3. QED BY <2>1, <2>2, OpenSafe
<1>3. QED BY <1>1, <1>2

LEMMA TriesAgainSafe == ASSUME IInv, RetryFires \/ ComesBack PROVE IInv'
<1>1. events' \in 0..MaxEvents /\ retry' \in Nat /\ UNCHANGED <<env, running, session, offer, sound>>
  BY ConstantsOK DEF RetryFires, ComesBack, Event, IInv, NoForgottenPeer, TypeOK
<1>2. CASE running
  <2>1. Reconnect BY <1>2 DEF RetryFires, ComesBack
  <2>2. QED BY <1>1, <1>2, <2>1, ReconnectSafe
<1>3. CASE ~running
  <2>1. UNCHANGED <<flow, socket>> /\ conn' = conn /\ pc' = pc /\ peer' = peer
    BY <1>1, <1>3 DEF RetryFires, ComesBack, session
  <2>2. /\ armed' \subseteq armed /\ pendingOffer' \in Flows \cup {None} /\ leftover' \in Nat
        /\ conn' \in [Flows -> ConnStates]
    BY <1>1, <2>1 DEF offer, IInv, NoForgottenPeer, TypeOK, ConnStates
  <2>3. QED BY <1>1, <2>1, <2>2, QuietSafe
<1>4. QED BY <1>2, <1>3

LEMMA PeerDropsSafe == ASSUME IInv, PeerDrops PROVE IInv'
<1>1. events' \in 0..MaxEvents /\ retry' \in Nat
  BY ConstantsOK DEF PeerDrops, Event, IInv, NoForgottenPeer, TypeOK
<1>2. pc \in Flows /\ conn \in [Flows -> ConnStates]
  BY DEF PeerDrops, IInv, NoForgottenPeer, TypeOK, ConnStates
<1>3. PICK v \in {"lost", "failed"} : conn' = [conn EXCEPT ![pc] = v]
  BY <1>2 DEF PeerDrops
<1>4. conn' \in [Flows -> ConnStates] /\ \A g \in Flows : conn'[g] # conn[g] => pc = g
  BY <1>2, <1>3 DEF ConnStates
<1>5. /\ UNCHANGED <<env, running, flow, sound, socket, pc, peer>>
      /\ armed' \subseteq armed /\ pendingOffer' \in Flows \cup {None} /\ leftover' \in Nat
  BY DEF PeerDrops, offer, IInv, NoForgottenPeer, TypeOK
<1>6. QED BY <1>1, <1>4, <1>5, QuietSafe

LEMMA LeftoverTimerSafe == ASSUME IInv, LeftoverTimer PROVE IInv'
<1>1. /\ UNCHANGED <<env, running, flow, sound, socket, pc, peer>>
      /\ events' \in 0..MaxEvents /\ retry' \in Nat
      /\ conn' = conn /\ conn' \in [Flows -> ConnStates]
      /\ armed' \subseteq armed /\ pendingOffer' \in Flows \cup {None} /\ leftover' \in Nat
  BY DEF LeftoverTimer, session, IInv, NoForgottenPeer, TypeOK, ConnStates
<1>2. QED BY <1>1, QuietSafe

\* An answer or an error: whoever waits for it gets it, or nobody does.
LEMMA ReplySafe == ASSUME IInv, AnswerArrives \/ ErrorArrives PROVE IInv'
<1> USE DEF IInv, NoForgottenPeer
<1>1. /\ UNCHANGED <<env, events, running, ws, waiter, retry>>
      /\ replies \in Nat /\ replies > 0 /\ replies' = replies - 1
      /\ pendingOffer' \in Flows \cup {None}
  BY TwoFlows DEF AnswerArrives, ErrorArrives, TypeOK
<1>2. replies' \in 0..replies /\ replies' \in 0..2
  BY <1>1, TwoFlows DEF TypeOK
<1>3. CASE pendingOffer # None /\ flow[pendingOffer] = "answer"
  <2> DEFINE f == pendingOffer
  <2>1. f \in Flows /\ flow[f] = "answer" /\ flow[f] \in InRtc /\ Settled(f)
    BY <1>3 DEF AnswerArrives, ErrorArrives, TypeOK, InRtc
  <2>2. armed' \subseteq armed /\ f \notin armed' /\ leftover' \in Nat
    BY <2>1 DEF Settled, TypeOK
  <2>3. CASE Fail(f)
    BY <1>1, <1>2, <2>1, <2>2, <2>3, FailSafe
  <2>4. CASE /\ AnswerArrives /\ pc # None /\ Goto(f, "remote")
             /\ peer' = [peer EXCEPT ![f] = pc] /\ UNCHANGED <<pc, conn, sound>>
    <3>1. pc \in Flows /\ conn' = conn /\ conn' \in [Flows -> ConnStates]
          /\ UNCHANGED <<pc, audio, node, path>>
      BY <2>4 DEF TypeOK, ConnStates, sound
    <3>2. /\ peer' \in [Flows -> Flows \cup {None}] /\ peer'[f] \in Flows
          /\ \A g \in Flows : g # f => peer'[g] = peer[g]
      BY <2>1, <2>4, <3>1 DEF TypeOK
    <3>3. ToSend("start")' <= ToSend("start") /\ ToSend("reconnect")' <= ToSend("reconnect")
      BY <2>1, <2>4, Moved DEF ToSend, Flows, Awaits, InRtc
    <3>4. replies' + ToSend("start")' + ToSend("reconnect")' <= 2
      BY <1>1, <3>3, ToSendType DEF OneOfferEach
    <3>5. "remote" \in {"off"} \cup InRtc /\ path' \in {path, "WebRTC"} /\ Goto(f, "remote")
      BY <2>4, <3>1 DEF InRtc
    <3>6. QED BY <1>1, <1>2, <2>1, <2>2, <3>1, <3>2, <3>4, <3>5, GoOnSafe
  <2>5. QED BY <1>3, <2>3, <2>4 DEF AnswerArrives, ErrorArrives
<1>4. CASE ~(pendingOffer # None /\ flow[pendingOffer] = "answer")
  <2>1. UNCHANGED <<flow, session, sound, armed, leftover>>
    BY <1>4 DEF AnswerArrives, ErrorArrives
  <2>2. TypeOK'
    BY <1>1, <1>2, <2>1, TwoFlows DEF TypeOK, session, sound
  <2>3. /\ StoppedIsSilent' /\ \A g \in Flows : conn'[g] \notin {"none", "closed"} => pc' = g
        /\ WaitersServed' /\ Promised' /\ NothingYet' /\ TimersWait' /\ PeersKnown'
    BY <1>1, <2>1 DEF StoppedIsSilent, WaitersServed, Promised, NothingYet, TimersWait,
       PeersKnown, At, session, sound
  <2>4. ToSend("start")' = ToSend("start") /\ ToSend("reconnect")' = ToSend("reconnect")
    BY <2>1 DEF ToSend
  <2>5. OneOfferEach'
    BY <1>1, <2>4, ToSendType DEF OneOfferEach
  <2>6. QED BY <2>2, <2>3, <2>5
<1>5. QED BY <1>3, <1>4

LEMMA GatheredSafe == ASSUME IInv, NEW f \in Flows, Gathered(f) PROVE IInv'
<1> USE DEF IInv, NoForgottenPeer
<1>1. /\ flow[f] = "gather" /\ flow[f] \in InRtc /\ pendingOffer' = f
      /\ UNCHANGED <<env, events, running, ws, waiter, leftover, retry>>
      /\ leftover' \in Nat /\ replies \in Nat /\ replies <= 2
  BY TwoFlows DEF Gathered, At, InRtc, TypeOK
<1>2. CASE CanSend
  <2>1. /\ Goto(f, "answer") /\ armed' = armed \cup {f}
        /\ replies' = (IF ws = "open" THEN replies + 1 ELSE replies)
        /\ UNCHANGED <<session, sound>>
    BY <1>2 DEF Gathered
  <2>2. /\ UNCHANGED <<pc, conn, peer, audio, node, path>>
        /\ conn' \in [Flows -> ConnStates] /\ peer' \in [Flows -> Flows \cup {None}]
    BY <2>1 DEF session, sound, TypeOK, ConnStates
  <2>3. /\ flow'[f] = "answer" /\ \A g \in Flows : g # f => flow'[g] = flow[g]
    BY <2>1, Moved DEF Awaits, InRtc
  <2>4. CASE f = "start"
    <3>1. ToSend("start") = 1 /\ ToSend("start")' = 0 /\ ToSend("reconnect")' = ToSend("reconnect")
      BY <1>1, <2>3, <2>4 DEF ToSend, Flows
    <3>2. replies' \in 0..2 /\ replies' + ToSend("start")' + ToSend("reconnect")' <= 2
      BY <1>1, <2>1, <3>1, ToSendType DEF OneOfferEach
    <3>3. "answer" \in {"off"} \cup InRtc BY DEF InRtc
    <3>4. QED BY <1>1, <2>1, <2>2, <3>2, <3>3, GoOnSafe
  <2>5. CASE f = "reconnect"
    <3>1. ToSend("reconnect") = 1 /\ ToSend("reconnect")' = 0 /\ ToSend("start")' = ToSend("start")
      BY <1>1, <2>3, <2>5 DEF ToSend, Flows
    <3>2. replies' \in 0..2 /\ replies' + ToSend("start")' + ToSend("reconnect")' <= 2
      BY <1>1, <2>1, <3>1, ToSendType DEF OneOfferEach
    <3>3. "answer" \in {"off"} \cup InRtc BY DEF InRtc
    <3>4. QED BY <1>1, <2>1, <2>2, <3>2, <3>3, GoOnSafe
  <2>6. QED BY <2>4, <2>5 DEF Flows
<1>3. CASE ~CanSend
  <2>1. Fail(f) /\ armed' = armed /\ replies' = replies
    BY <1>3 DEF Gathered
  <2>2. replies' \in 0..replies BY <1>1, <2>1
  <2>3. QED BY <1>1, <2>1, <2>2, FailSafe
<1>4. QED BY <1>2, <1>3

LEMMA OfferTimerSafe == ASSUME IInv, NEW f \in Flows, OfferTimer(f) PROVE IInv'
<1> USE DEF IInv, NoForgottenPeer
<1>1. /\ flow[f] = "answer" /\ flow[f] \in InRtc
      /\ armed' \subseteq armed /\ f \notin armed' /\ pendingOffer' = None
      /\ UNCHANGED <<env, events, running, socket, leftover, retry>>
      /\ events' \in 0..MaxEvents /\ retry' \in Nat /\ leftover' \in Nat
  BY DEF OfferTimer, TimersWait, TypeOK, At, InRtc
<1>2. CASE Fail(f)
  <2>1. UNCHANGED <<ws, waiter>> /\ replies' \in 0..replies
    BY <1>1, TwoFlows DEF socket, TypeOK
  <2>2. QED BY <1>1, <1>2, <2>1, FailSafe
<1>3. CASE UNCHANGED <<flow, session, sound>>
  <2>1. conn' = conn /\ pc' = pc /\ peer' = peer /\ conn' \in [Flows -> ConnStates]
    BY <1>3 DEF session, TypeOK, ConnStates
  <2>2. QED BY <1>1, <1>3, <2>1, QuietSafe
<1>4. QED BY <1>2, <1>3 DEF OfferTimer

\* The other steps of startRtc() send nothing and leave the offers alone.
LEMMA GoesOnSafe ==
  ASSUME IInv, NEW f \in Flows, OfferCreated(f) \/ RemoteSet(f) \/ Connected(f), ~Fail(f)
  PROVE  IInv'
<1> USE DEF IInv, NoForgottenPeer
<1>1. /\ flow[f] \in {"offer", "remote", "connect"} /\ flow[f] \in InRtc
      /\ UNCHANGED <<env, events, running, ws, waiter, audio, node, retry, pc>>
      /\ UNCHANGED <<replies, armed, pendingOffer, leftover>>
  BY DEF OfferCreated, RemoteSet, Connected, At, InRtc, socket, offer, sound
<1>2. f \notin armed /\ armed' \subseteq armed \cup {f} /\ pendingOffer' \in Flows \cup {None}
      /\ leftover' \in Nat
  BY <1>1 DEF TimersWait, At, TypeOK
<1>3. PICK a \in {"gather", "connect", "off"} :
        Goto(f, a) /\ (a = "gather" => flow[f] = "offer")
  BY DEF OfferCreated, RemoteSet, Connected, At
<1>4. a \in {"off"} \cup InRtc /\ path' \in {path, "WebRTC"}
  BY <1>3 DEF OfferCreated, RemoteSet, Connected, InRtc, sound
<1>5. PICK g \in Flows, v \in {"local", "remote", "connected"} :
        /\ conn' = [conn EXCEPT ![g] = v] /\ g = pc
  <2>1. CASE OfferCreated(f)
    BY <2>1 DEF OfferCreated
  <2>2. CASE RemoteSet(f)
    <3>1. flow[f] = "remote" BY <2>2 DEF RemoteSet, At
    <3>2. peer[f] \in Flows BY <3>1 DEF PeersKnown
    <3>3. conn[peer[f]] = "local" /\ conn' = [conn EXCEPT ![peer[f]] = "remote"]
      BY <2>2 DEF RemoteSet
    <3>4. peer[f] = pc BY <3>2, <3>3
    <3>5. QED BY <3>2, <3>3, <3>4
  <2>3. CASE Connected(f)
    <3>1. peer[f] \in Flows /\ pc = peer[f] BY <2>3 DEF Connected, PeersKnown, At
    <3>2. QED BY <2>3, <3>1 DEF Connected
  <2>4. QED BY <2>1, <2>2, <2>3
<1>6. conn' \in [Flows -> ConnStates] /\ \A h \in Flows : conn'[h] # conn[h] => pc = h
  BY <1>5 DEF TypeOK, ConnStates
<1>7. /\ peer' \in [Flows -> Flows \cup {None}]
      /\ \A h \in Flows : h # f => peer'[h] = peer[h]
      /\ a \in {"remote", "connect"} => peer'[f] \in Flows
  <2>1. peer' \in {peer, [peer EXCEPT ![f] = pc]} /\ pc \in Flows
    BY <1>5 DEF OfferCreated, RemoteSet, Connected
  <2>2. a = "connect" => peer' = [peer EXCEPT ![f] = pc]
    <3>1. CASE OfferCreated(f) \/ Connected(f)
      <4>1. Goto(f, "gather") \/ Goto(f, "off") BY <3>1 DEF OfferCreated, Connected
      <4>2. a # "connect" BY <4>1, <1>3, Moved DEF Awaits, InRtc
      <4>3. QED BY <4>2
    <3>2. CASE RemoteSet(f) BY <3>2 DEF RemoteSet
    <3>3. QED BY <3>1, <3>2
  <2>3. QED BY <2>1, <2>2, <1>3 DEF TypeOK
<1>8. replies' \in 0..2 /\ replies' + ToSend("start")' + ToSend("reconnect")' <= 2
  <2>1. ToSend("start")' <= ToSend("start") /\ ToSend("reconnect")' <= ToSend("reconnect")
    BY <1>3, Moved DEF ToSend, Flows, Awaits, InRtc
  <2>2. replies' = replies /\ replies \in 0..2 BY <1>1, TwoFlows DEF TypeOK
  <2>3. QED BY <2>1, <2>2, ToSendType DEF OneOfferEach
<1>9. f \in armed' => a = "answer"
  BY <1>1, <1>2
<1>10. QED BY <1>1, <1>2, <1>3, <1>4, <1>6, <1>7, <1>8, <1>9, GoOnSafe

LEMMA RtcStepSafe == ASSUME IInv, NEW f \in Flows, RtcStep(f) PROVE IInv'
<1>1. CASE Gathered(f) BY <1>1, GatheredSafe
<1>2. CASE OfferTimer(f) BY <1>2, OfferTimerSafe
<1>3. CASE (OfferCreated(f) \/ RemoteSet(f) \/ Connected(f)) /\ ~Fail(f)
  BY <1>3, GoesOnSafe
<1>4. CASE /\ OfferCreated(f) \/ OfferFails(f) \/ RemoteSet(f) \/ RemoteFails(f) \/ ConnectFails(f)
           /\ Fail(f)
  <2>1. /\ flow[f] \in {"offer", "remote", "connect"} /\ flow[f] \in InRtc
        /\ UNCHANGED <<env, events, running, ws, waiter, retry>>
        /\ UNCHANGED <<replies, armed, pendingOffer, leftover>>
    BY <1>4 DEF OfferCreated, OfferFails, RemoteSet, RemoteFails, ConnectFails, At, InRtc,
       socket, offer
  <2>2. replies' \in 0..replies /\ pendingOffer' \in Flows \cup {None} /\ leftover' \in Nat
    BY <2>1, TwoFlows DEF IInv, NoForgottenPeer, TypeOK
  <2>3. QED BY <1>4, <2>1, <2>2, FailSafe
<1>5. Connected(f) => ~Fail(f)
  BY TwoFlows DEF Connected, Fail, ClosePeer, IInv, PeersKnown, At
<1>6. QED BY <1>1, <1>2, <1>3, <1>4, <1>5 DEF RtcStep, OfferFails, RemoteFails, ConnectFails

LEMMA Inductive == Spec => []IInv
<1>1. ASSUME IInv, [Next]_vars PROVE IInv'
  <2>1. CASE UNCHANGED vars
    BY <1>1, <2>1 DEF vars, session, offer, socket, sound, IInv, NoForgottenPeer, TypeOK,
       StoppedIsSilent, WaitersServed, Promised, NothingYet, TimersWait, PeersKnown,
       OneOfferEach, ToSend, At
  <2>2. CASE Start \/ AudioReady \/ AudioDenied \/ Stop
    BY <1>1, <2>2, StartSafe, AudioReadySafe, AudioDeniedSafe, StopSafe
  <2>3. CASE WsOpens \/ WsDrops \/ WsCloses
    BY <1>1, <2>3, WsOpensSafe, WsEndsSafe
  <2>4. CASE RetryFires \/ ComesBack \/ PeerDrops
    BY <1>1, <2>4, TriesAgainSafe, PeerDropsSafe
  <2>5. CASE AnswerArrives \/ ErrorArrives \/ LeftoverTimer
    BY <1>1, <2>5, ReplySafe, LeftoverTimerSafe
  <2>6. CASE \E f \in Flows : RtcStep(f)
    BY <1>1, <2>6, RtcStepSafe
  <2>7. QED BY <1>1, <2>1, <2>2, <2>3, <2>4, <2>5, <2>6 DEF Next
<1>2. QED BY Initially, <1>1, PTL DEF Spec

(***************************************************************************)
(* The theorems                                                            *)
(***************************************************************************)

\* Whatever coroutines of several starts, stops and reconnects do in whichever order, every peer
\* connection that is not closed is the one stop() and the next reconnect will close
\* (index.html:430, 457, 569), and no socket ever owes more than one answer per coroutine.
THEOREM NoPeerForgotten == Spec => []NoForgottenPeer
<1>1. IInv => NoForgottenPeer
  BY DEF IInv
<1>2. QED BY <1>1, Inductive, PTL

\* After stop() no coroutine that was waiting at that moment brings the microphone, a socket or a
\* peer connection back (index.html:567-573).
THEOREM StopsForGood == Spec => []StoppedIsSilent
<1>1. IInv => StoppedIsSilent
  BY DEF IInv
<1>2. QED BY <1>1, Inductive, PTL

\* Nobody waits for a socket that has been replaced (index.html:402-406).
THEOREM NoWaiterForgotten == Spec => []WaitersServed
<1>1. IInv => WaitersServed
  BY DEF IInv
<1>2. QED BY <1>1, Inductive, PTL

=============================================================================
