----------------------------- MODULE SenderPage -----------------------------
(***************************************************************************)
(* The script of the sender page (src/src/web/index.html): one event loop, *)
(* whose tasks end at the awaits.  Two coroutines set a session up, the    *)
(* one of start() and the one of reconnect(); each is at most once active, *)
(* but they can be active together.  They share the globals ws, pc,        *)
(* pendingOffer, node and path, and read them again after every await.     *)
(*                                                                         *)
(* One action is one task: a coroutine runs on from the event that wakes   *)
(* it to its next await.  Peer connections are named after the coroutine   *)
(* that created them, since an earlier one of the same coroutine is closed *)
(* by then (NoForgottenPeer).                                              *)
(***************************************************************************)
EXTENDS Naturals, FiniteSets

CONSTANTS
  None,
  Envs,       \* kinds of environment, a subset of {"calm", "wild"}
  ForcePcm,   \* values the switch "force PCM" may have
  MaxEvents   \* BOUND: events of user and network in a behaviour

ASSUME ConstantsOK ==
  /\ Envs \subseteq {"calm", "wild"} /\ Envs # {}
  /\ ForcePcm \subseteq BOOLEAN /\ ForcePcm # {}
  /\ MaxEvents \in Nat
  /\ None \notin {"start", "reconnect"}

Flows == {"start", "reconnect"}

VARIABLES
  env,          \* which kind of environment this behaviour has
  events,       \* events so far
  running,
  flow,         \* [Flows -> the await the coroutine is at]; starting and reconnecting are
                \* "not off"
  audio,        \* ctx and stream
  node,         \* the AudioWorkletNode: of the current ctx, of an earlier one, or none
  path,
  ws,           \* state of the current socket; a replaced one has no handlers and is closed
  waiter,       \* the coroutine openWs() has promised this socket to
  replies,      \* offers the PC has not answered on this socket
  pc,           \* the current peer connection
  conn,         \* [Flows -> state of the peer connection the coroutine created last]
  peer,         \* [Flows -> the peer connection the coroutine waits for]
  pendingOffer, \* the coroutine whose resolver is stored
  armed,        \* coroutines whose 6 s timer for the answer they wait for is running
  leftover,     \* 6 s timers of answers that nobody waits for any more
  retry         \* timers (1 s or 0.8 s) that will call reconnect()

session == <<pc, conn, peer>>
offer == <<pendingOffer, armed, leftover>>
socket == <<ws, waiter, replies>>
sound == <<audio, node, path>>
vars == <<env, events, running, flow, sound, socket, session, offer, retry>>

\* A coroutine waits in startRtc() at: createOffer and setLocalDescription, gathering, the answer,
\* setRemoteDescription, the connection.
InRtc == {"offer", "gather", "answer", "remote", "connect"}

\* The types.  Each coroutine has at most one offer on a socket.
TypeOK ==
  /\ env \in Envs
  /\ events \in 0..MaxEvents
  /\ running \in BOOLEAN
  /\ flow \in [Flows -> {"off", "audio", "ws"} \cup InRtc]
  /\ audio \in {"none", "opening", "on", "closed"}
  /\ node \in {"none", "current", "stale"}
  /\ path \in {"-", "PCM", "WebRTC"}
  /\ ws \in {"none", "connecting", "open", "closing", "closed"}
  /\ waiter \in Flows \cup {None}
  /\ replies \in 0..Cardinality(Flows)
  /\ pc \in Flows \cup {None}
  /\ conn \in [Flows -> {"none", "new", "local", "remote", "connected", "lost", "failed", "closed"}]
  /\ peer \in [Flows -> Flows \cup {None}]
  /\ pendingOffer \in Flows \cup {None}
  /\ armed \subseteq Flows
  /\ leftover \in Nat
  /\ retry \in Nat

Init ==
  /\ env \in Envs /\ events = 0
  /\ running = FALSE
  /\ flow = [f \in Flows |-> "off"]
  /\ audio = "none" /\ node = "none" /\ path = "-"
  /\ ws = "none" /\ waiter = None /\ replies = 0
  /\ pc = None /\ conn = [f \in Flows |-> "none"] /\ peer = [f \in Flows |-> None]
  /\ pendingOffer = None /\ armed = {} /\ leftover = 0
  /\ retry = 0

starting == flow["start"] # "off"
reconnecting == flow["reconnect"] # "off"

At(f, a) == flow[f] = a
Goto(f, a) == flow' = [flow EXCEPT ![f] = a]

\* In a calm environment nothing happens to a page, and none of its reconnect timers runs out,
\* while it negotiates a session or within 6 s of an offer.
Undisturbed == env = "calm" => leftover = 0 /\ \A f \in Flows : flow[f] \notin InRtc

\* An event of the user or the network.
Event ==
  /\ Undisturbed
  /\ events < MaxEvents
  /\ events' = events + 1

(***************************************************************************)
(* What follows the negotiation                                            *)
(***************************************************************************)

\* The end of a coroutine that fell back to PCM.  startPcmPath makes a node unless there is one:
\* without the module loaded the constructor throws, on a closed context it may.
StartPcmPath ==
  /\ path' = "PCM"
  /\ \/ node # "none" /\ UNCHANGED node
     \/ node = "none" /\ audio \in {"on", "closed"} /\ node' = "current"
     \/ node = "none" /\ audio # "on" /\ UNCHANGED node
  /\ UNCHANGED audio

\* startRtc() returns false after an exception: the catch closes whatever pc is by then.
ClosePeer ==
  /\ conn' = IF pc = None THEN conn ELSE [conn EXCEPT ![pc] = "closed"]
  /\ pc' = None

Fail(f) ==
  /\ ClosePeer
  /\ StartPcmPath
  /\ Goto(f, "off")
  /\ UNCHANGED peer

\* Mutant of BeginRtc: the reconnect forgets the old peer connection.
BeginRtc_KeepsOld(f) ==
  \/ /\ TRUE \in ForcePcm
     /\ StartPcmPath /\ Goto(f, "off")
     /\ UNCHANGED session
  \/ /\ FALSE \in ForcePcm
     /\ pc' = f
     /\ conn' = [conn EXCEPT ![f] = "new"]
     /\ Goto(f, "offer")
     /\ UNCHANGED <<peer, sound>>

\* startRtc() up to its first await; reconnectInner() closes the old peer connection before.
BeginRtc(f) ==
  LET old == IF f = "reconnect" /\ pc # None THEN [conn EXCEPT ![pc] = "closed"] ELSE conn IN
  \/ /\ TRUE \in ForcePcm
     /\ conn' = old
     /\ pc' = IF f = "reconnect" THEN None ELSE pc
     /\ StartPcmPath /\ Goto(f, "off")
     /\ UNCHANGED peer
  \/ /\ FALSE \in ForcePcm
     /\ pc' = f
     /\ conn' = [old EXCEPT ![f] = "new"]
     /\ Goto(f, "offer")
     /\ UNCHANGED <<peer, sound>>

(***************************************************************************)
(* The socket                                                              *)
(***************************************************************************)

\* Mutant of OpenWs: whoever waits for the old socket is not told.
OpenWs_NoSettle(f) ==
  /\ ws' = "connecting" /\ waiter' = f /\ replies' = 0
  /\ Goto(f, "ws")

\* Mutant of OpenWs: the old socket keeps its handlers, and its answers still arrive.
OpenWs_KeepsHandlers(f) ==
  /\ ws' = "connecting" /\ waiter' = f /\ UNCHANGED replies
  /\ flow' = [g \in Flows |-> IF g = f THEN "ws" ELSE IF g = waiter THEN "off" ELSE flow[g]]

\* openWs(): the old socket loses its handlers and is closed, and its waiter gets false, which
\* ends it.
OpenWs(f) ==
  /\ ws' = "connecting" /\ waiter' = f /\ replies' = 0
  /\ flow' = [g \in Flows |-> IF g = f THEN "ws" ELSE IF g = waiter THEN "off" ELSE flow[g]]

\* onopen: reconnectInner() looks at running again, startInner() does not.
WsOpens ==
  /\ ws = "connecting"
  /\ ws' = "open" /\ waiter' = None
  /\ IF waiter = "reconnect" /\ ~running
       THEN Goto(waiter, "off") /\ UNCHANGED <<session, sound>>
       ELSE BeginRtc(waiter)
  /\ UNCHANGED <<env, events, running, replies, offer, retry>>

\* onerror, if the socket was still connecting (its waiter gets false and ends), then onclose.
WsGone ==
  /\ ws' = "closed" /\ waiter' = None /\ replies' = 0
  /\ flow' = [g \in Flows |-> IF g = waiter THEN "off" ELSE flow[g]]
  /\ retry' = IF running THEN retry + 1 ELSE retry
  /\ UNCHANGED <<env, running, session, offer, sound>>

\* The PC is not reachable, or the connection breaks.
WsDrops == ws \in {"connecting", "open"} /\ Event /\ WsGone

\* The close event after stop().
WsCloses == ws = "closing" /\ WsGone /\ UNCHANGED events

(***************************************************************************)
(* reconnect()                                                             *)
(***************************************************************************)
Reconnect ==
  IF reconnecting
    THEN UNCHANGED <<flow, socket>>
    ELSE OpenWs("reconnect")

RetryFires ==
  /\ retry > 0
  /\ Undisturbed
  /\ retry' = retry - 1
  /\ IF running THEN Reconnect ELSE UNCHANGED <<flow, socket>>
  /\ UNCHANGED <<env, events, running, session, offer, sound>>

\* The device is online again, or the page visible.
ComesBack ==
  /\ running /\ ws # "open"
  /\ Event
  /\ Reconnect
  /\ UNCHANGED <<env, running, session, offer, sound, retry>>

(***************************************************************************)
(* startRtc()                                                              *)
(***************************************************************************)

\* createOffer and setLocalDescription; both reject on a closed peer connection.
OfferCreated(f) ==
  /\ At(f, "offer")
  /\ IF pc = f /\ conn[f] = "new"
       THEN /\ conn' = [conn EXCEPT ![f] = "local"]
            /\ Goto(f, "gather")
            /\ UNCHANGED <<pc, peer, sound>>
       ELSE Fail(f)
  /\ UNCHANGED <<env, events, running, socket, offer, retry>>

OfferFails(f) ==
  /\ At(f, "offer")
  /\ Fail(f)
  /\ UNCHANGED <<env, events, running, socket, offer, retry>>

\* Gathering is complete, or 2.5 s are over.  The resolver is stored before the offer is put
\* together and sent, which throws without a local description or on a connecting socket; a
\* closed socket swallows it.
CanSend == pc # None /\ conn[pc] # "new" /\ ws # "connecting"
Gathered(f) ==
  /\ At(f, "gather")
  /\ pendingOffer' = f
  /\ IF CanSend
       THEN /\ Goto(f, "answer")
            /\ armed' = armed \cup {f}
            /\ replies' = IF ws = "open" THEN replies + 1 ELSE replies
            /\ UNCHANGED <<session, sound>>
       ELSE Fail(f) /\ UNCHANGED <<armed, replies>>
  /\ UNCHANGED <<env, events, running, ws, waiter, leftover, retry>>

\* The promise of f settles before its timer fires; nobody clears the timer.
Settled(f) ==
  /\ armed' = armed \ {f}
  /\ leftover' = leftover + 1

\* An answer: setRemoteDescription on whatever pc is by now.
AnswerArrives ==
  /\ ws = "open" /\ replies > 0
  /\ replies' = replies - 1
  /\ pendingOffer' = None
  /\ LET f == pendingOffer IN
     IF f # None /\ flow[f] = "answer"
       THEN /\ Settled(f)
            /\ IF pc = None
                 THEN Fail(f)
                 ELSE /\ Goto(f, "remote")
                      /\ peer' = [peer EXCEPT ![f] = pc]
                      /\ UNCHANGED <<pc, conn, sound>>
       ELSE UNCHANGED <<flow, session, sound, armed, leftover>>
  /\ UNCHANGED <<env, events, running, ws, waiter, retry>>

\* The PC rejected an offer.
ErrorArrives ==
  /\ ws = "open" /\ replies > 0
  /\ replies' = replies - 1
  /\ pendingOffer' = None
  /\ LET f == pendingOffer IN
     IF f # None /\ flow[f] = "answer"
       THEN Settled(f) /\ Fail(f)
       ELSE UNCHANGED <<flow, session, sound, armed, leftover>>
  /\ UNCHANGED <<env, events, running, ws, waiter, retry>>

\* Mutant of OfferTimer: the resolver is dropped and not called.
OfferTimer_OnlyNull(f) ==
  /\ f \in armed
  /\ armed' = armed \ {f}
  /\ pendingOffer' = None
  /\ UNCHANGED <<flow, session, sound>>
  /\ UNCHANGED <<env, events, running, socket, leftover, retry>>

\* 6 s after the offer of f: whichever resolver is stored is dropped, and f gets null; with
\* none stored nothing happens, not even for f.
OfferTimer(f) ==
  /\ f \in armed
  /\ armed' = armed \ {f}
  /\ pendingOffer' = None
  /\ IF pendingOffer # None
       THEN Fail(f)
       ELSE UNCHANGED <<flow, session, sound>>
  /\ UNCHANGED <<env, events, running, socket, leftover, retry>>

\* The same timer when f has its answer already.
LeftoverTimer ==
  /\ leftover > 0
  /\ leftover' = leftover - 1
  /\ pendingOffer' = None
  /\ UNCHANGED <<env, events, running, flow, sound, socket, session, armed, retry>>

\* An answer is accepted once; then the coroutine listens to whatever pc is by now.
RemoteSet(f) ==
  /\ At(f, "remote")
  /\ IF conn[peer[f]] = "local" /\ pc # None
       THEN /\ conn' = [conn EXCEPT ![peer[f]] = "remote"]
            /\ peer' = [peer EXCEPT ![f] = pc]
            /\ Goto(f, "connect")
            /\ UNCHANGED <<pc, sound>>
       ELSE Fail(f)
  /\ UNCHANGED <<env, events, running, socket, offer, retry>>

RemoteFails(f) ==
  /\ At(f, "remote")
  /\ Fail(f)
  /\ UNCHANGED <<env, events, running, socket, offer, retry>>

Connected(f) ==
  /\ At(f, "connect")
  /\ pc = peer[f] /\ conn[pc] = "remote"
  /\ conn' = [conn EXCEPT ![pc] = "connected"]
  /\ path' = "WebRTC"
  /\ Goto(f, "off")
  /\ UNCHANGED <<env, events, running, audio, node, socket, pc, peer, offer, retry>>

\* ICE failed, or 8 s are over.
ConnectFails(f) ==
  /\ At(f, "connect")
  /\ Fail(f)
  /\ UNCHANGED <<env, events, running, socket, offer, retry>>

\* "disconnected", then "failed"; both may fire for one outage.
PeerDrops ==
  /\ pc # None
  /\ conn[pc] \in {"connected", "lost"}
  /\ Event
  /\ conn' = [conn EXCEPT ![pc] = IF @ = "connected" THEN "lost" ELSE "failed"]
  /\ retry' = IF running THEN retry + 1 ELSE retry
  /\ UNCHANGED <<env, running, flow, sound, socket, pc, peer, offer>>

(***************************************************************************)
(* start() and stop()                                                      *)
(***************************************************************************)

\* A new context.
Start ==
  /\ ~running /\ ~starting
  /\ Event
  /\ audio' = "opening"
  /\ node' = IF node = "none" THEN "none" ELSE "stale"
  /\ Goto("start", "audio")
  /\ UNCHANGED <<env, running, path, socket, session, offer, retry>>

\* The context runs, the microphone is granted and the module loaded.
AudioReady ==
  /\ At("start", "audio")
  /\ audio' = "on"
  /\ running' = TRUE
  /\ OpenWs("start")
  /\ UNCHANGED <<env, events, node, path, session, offer, retry>>

AudioDenied ==
  /\ At("start", "audio")
  /\ audio' = "closed"
  /\ Goto("start", "off")
  /\ UNCHANGED <<env, events, running, node, path, socket, session, offer, retry>>

\* Mutant of Stop: the node of the closed context is kept.
Stop_KeepsNode ==
  /\ running /\ Event
  /\ running' = FALSE
  /\ ClosePeer
  /\ ws' = IF ws \in {"connecting", "open"} THEN "closing" ELSE ws
  /\ audio' = "closed"
  /\ UNCHANGED <<env, flow, node, path, waiter, replies, peer, offer, retry>>

\* Mutant of Stop: the peer connection is left to the PC, which closes it with the socket.
Stop_KeepsPeer ==
  /\ running /\ Event
  /\ running' = FALSE
  /\ ws' = IF ws \in {"connecting", "open"} THEN "closing" ELSE ws
  /\ audio' = "closed" /\ node' = "none"
  /\ UNCHANGED <<env, flow, path, waiter, replies, session, offer, retry>>

\* The button, or another tab's "stop".  Coroutines are not told.
Stop ==
  /\ running /\ Event
  /\ running' = FALSE
  /\ ClosePeer
  /\ ws' = IF ws \in {"connecting", "open"} THEN "closing" ELSE ws
  /\ audio' = "closed" /\ node' = "none"
  /\ UNCHANGED <<env, flow, path, waiter, replies, peer, offer, retry>>

RtcStep(f) ==
  \/ OfferCreated(f) \/ OfferFails(f) \/ Gathered(f) \/ OfferTimer(f)
  \/ RemoteSet(f) \/ RemoteFails(f) \/ Connected(f) \/ ConnectFails(f)

Next ==
  \/ Start \/ AudioReady \/ AudioDenied \/ Stop
  \/ WsOpens \/ WsDrops \/ WsCloses
  \/ RetryFires \/ ComesBack \/ PeerDrops
  \/ AnswerArrives \/ ErrorArrives \/ LeftoverTimer
  \/ \E f \in Flows : RtcStep(f)

Spec == Init /\ [][Next]_vars

\* Sockets open or close, timers fire, calls on a peer connection return.  The user owes
\* nothing, and the PC no answer.
Fairness ==
  /\ WF_vars(WsOpens) /\ WF_vars(WsCloses)
  /\ WF_vars(RetryFires) /\ WF_vars(LeftoverTimer)
  /\ \A f \in Flows : WF_vars(RtcStep(f))

FairSpec == Spec /\ Fairness

(***************************************************************************)
(* Properties                                                              *)
(***************************************************************************)

\* Every peer connection that is not closed is the current one, so that stop() and the next
\* reconnect reach it (index.html:430, 457, 569).
NoForgottenPeer ==
  /\ TypeOK
  /\ \A f \in Flows : conn[f] \notin {"none", "closed"} => pc = f

\* After stop() the microphone, the socket and the peer connection are given up at once, whatever
\* a coroutine does that was waiting at that moment, until the next start (index.html:567-573).
StoppedIsSilent ==
  ~running => audio # "on" /\ ws \notin {"connecting", "open"} /\ pc = None

\* A coroutine that waits for a socket waits for the current one, which still opens or closes:
\* nobody waits for a replaced socket for ever (index.html:402-406).
WaitersServed ==
  \A f \in Flows : At(f, "ws") => waiter = f /\ ws \in {"connecting", "closing"}

\* The PC gets audio.
Sending ==
  /\ ws = "open"
  /\ \/ path = "PCM" /\ node = "current"
     \/ path = "WebRTC" /\ pc # None /\ conn[pc] = "connected"

\* After every outage a page that was started sends again or is stopped, as long as the user and
\* the network leave it alone while it negotiates (index.html:301 "Retrying in a moment").
Recovers == (env = "calm" /\ running) ~> (Sending \/ ~running)

\* In such an environment no negotiation lasts for ever (index.html:404, 420).
SetupFinishes ==
  \A f \in Flows : (env = "calm" /\ flow[f] \in InRtc \cup {"ws"}) ~> At(f, "off")
=============================================================================
