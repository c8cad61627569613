----------------------------- MODULE SourceGate -----------------------------
(***************************************************************************)
(* Which connection plays (src/src/audio.rs SourceGate, app.rs handle_ws,  *)
(* webrtc_rx.rs).  Every connection is a WebSocket task that receives PCM  *)
(* blocks and offers; every accepted offer adds a decode loop, a task of   *)
(* its own that receives RTP packets until its peer connection is closed.  *)
(* All of them share one atomic, the id of the active connection, and push *)
(* into one jitter buffer.  Closing a connection does not wait for the     *)
(* decode loop: a packet it has already polled is still processed.         *)
(***************************************************************************)
EXTENDS Naturals, FiniteSets

CONSTANTS
  Conns,           \* connections; ids are never reused
  None,            \* the id 0: no source
  MAX_CONNECTIONS, \* slots
  MaxOffers,       \* BOUND: accepted offers of a behaviour
  MaxPackets,      \* BOUND: RTP packets of a behaviour
  LateLoops        \* may a session be closed while its loop is working on a packet?

ASSUME ConstantsOK ==
  /\ None \notin Conns /\ IsFiniteSet(Conns)
  /\ MAX_CONNECTIONS \in Nat /\ MaxOffers \in Nat /\ MaxPackets \in Nat
  /\ LateLoops \in BOOLEAN

Loops == Conns \X (1..MaxOffers)
Owner(l) == l[1]

VARIABLES
  ws,         \* [Conns -> phase of the connection]
  slots,      \* AppState.connections
  active,     \* AppState.active_source
  pcmStarted, \* [Conns -> first PCM block seen]
  offers,     \* [Conns -> offers accepted so far]; the last one is the current session
  session,    \* [Conns -> is there a current session?]
  loop,       \* [Loops -> phase of the decode loop]
  claimed,    \* [Loops -> first packet seen]
  pcOpen,     \* [Loops -> the peer connection is open]
  connected,  \* RtcStats.connected
  packets,    \* RtcStats.packets
  seen,       \* [Conns -> last_rtc_packets]
  rtp         \* RTP packets so far

stats == <<connected, packets>>
sockets == <<ws, slots, pcmStarted, offers, session, seen>>
loops == <<loop, claimed, pcOpen>>
vars == <<sockets, active, loops, stats, rtp>>

\* The order in which a connection goes: a slot, the upgrade, the message loop ("open",
\* "offer" while it answers one), and the steps after it.
Live == {"open", "offer"}
Ending == {"closing", "release", "clear", "drop"}
Holding == {"upgrade"} \cup Live \cup Ending

TypeOK ==
  /\ ws \in [Conns -> Holding \cup {"new", "refused", "gone"}]
  /\ slots \in 0..Cardinality(Conns)
  /\ active \in Conns \cup {None}
  /\ pcmStarted \in [Conns -> BOOLEAN]
  /\ offers \in [Conns -> 0..MaxOffers]
  /\ session \in [Conns -> BOOLEAN]
  /\ loop \in [Loops -> {"none", "poll", "got", "stats", "play", "ended"}]
  /\ claimed \in [Loops -> BOOLEAN] /\ pcOpen \in [Loops -> BOOLEAN]
  /\ connected \in BOOLEAN
  /\ packets \in 0..MaxPackets
  /\ seen \in [Conns -> 0..MaxPackets]
  /\ rtp \in 0..MaxPackets

Init ==
  /\ ws = [c \in Conns |-> "new"] /\ slots = 0 /\ active = None
  /\ pcmStarted = [c \in Conns |-> FALSE]
  /\ offers = [c \in Conns |-> 0] /\ session = [c \in Conns |-> FALSE]
  /\ loop = [l \in Loops |-> "none"]
  /\ claimed = [l \in Loops |-> FALSE] /\ pcOpen = [l \in Loops |-> FALSE]
  /\ connected = FALSE /\ packets = 0 /\ rtp = 0
  /\ seen = [c \in Conns |-> 0]

At(c, l) == ws[c] = l
WsGoto(c, l) == ws' = [ws EXCEPT ![c] = l]
LoopGoto(l, s) == loop' = [loop EXCEPT ![l] = s]

(***************************************************************************)
(* The gate                                                                *)
(***************************************************************************)
TakeOver(c) == active' = c

\* Mutant of MayPlay: whoever sends plays.
MayPlay_Always(c) == TRUE

MayPlay(c) == active \in {None, c}

\* allowed(): a compare-and-swap from 0.
Allowed(c) == MayPlay(c) /\ active' = c

(***************************************************************************)
(* Slots: ws_upgrade and ConnSlot                                          *)
(***************************************************************************)
\* Mutant of SlotFree: one connection too many.
SlotFree_OffByOne == slots <= MAX_CONNECTIONS

SlotFree == slots < MAX_CONNECTIONS

\* fetch_add first, so the cap holds under a burst; one too many is taken back in a second step.
Reserve(c) ==
  /\ At(c, "new")
  /\ slots' = slots + 1
  /\ WsGoto(c, IF SlotFree THEN "upgrade" ELSE "refused")
  /\ UNCHANGED <<pcmStarted, offers, session, seen, active, loops, stats, rtp>>

\* The task ends and its locals with it.
GiveSlotBack(c) ==
  /\ slots' = slots - 1
  /\ WsGoto(c, "gone")
  /\ pcmStarted' = [pcmStarted EXCEPT ![c] = FALSE]
  /\ seen' = [seen EXCEPT ![c] = 0]
  /\ UNCHANGED <<offers, session, active, loops, stats, rtp>>

Refuse(c) == At(c, "refused") /\ GiveSlotBack(c)
UpgradeFails(c) == At(c, "upgrade") /\ GiveSlotBack(c)
DropSlot(c) == At(c, "drop") /\ GiveSlotBack(c)

Upgraded(c) ==
  /\ At(c, "upgrade")
  /\ WsGoto(c, "open")
  /\ UNCHANGED <<slots, pcmStarted, offers, session, seen, active, loops, stats, rtp>>

(***************************************************************************)
(* Messages                                                                *)
(***************************************************************************)

\* The first block takes over; a later one plays only while the gate allows it, else it is dropped.
\* Then it goes into the buffer (AudioPath.tla).
PcmBlock(c) ==
  /\ At(c, "open")
  /\ \/ ~pcmStarted[c] /\ TakeOver(c)
     \/ pcmStarted[c] /\ Allowed(c)
  /\ pcmStarted' = [pcmStarted EXCEPT ![c] = TRUE]
  /\ UNCHANGED <<ws, slots, offers, session, seen, loops, stats, rtp>>

\* Close the peer connection of c, if there is one.  Nobody waits for its decode loop.
SessionQuiet(c) ==
  LateLoops \/ \A l \in Loops : Owner(l) = c /\ pcOpen[l] => loop[l] = "poll"
CloseSession(c) ==
  /\ SessionQuiet(c)
  /\ session' = [session EXCEPT ![c] = FALSE]
  /\ pcOpen' = [l \in Loops |-> pcOpen[l] /\ Owner(l) # c]

\* An offer closes the old session first ...
OfferArrives(c) ==
  /\ At(c, "open")
  /\ Cardinality({l \in Loops : loop[l] # "none"}) < MaxOffers
  /\ CloseSession(c)
  /\ WsGoto(c, "offer")
  /\ UNCHANGED <<slots, pcmStarted, offers, seen, active, loop, claimed, stats, rtp>>

\* ... then accept_offer builds a new one, whose track starts a decode loop,
OfferAccepted(c) ==
  LET l == <<c, offers[c] + 1>> IN
  /\ At(c, "offer")
  /\ offers' = [offers EXCEPT ![c] = @ + 1]
  /\ session' = [session EXCEPT ![c] = TRUE]
  /\ pcOpen' = [pcOpen EXCEPT ![l] = TRUE]
  /\ LoopGoto(l, "poll")
  /\ WsGoto(c, "open")
  /\ UNCHANGED <<slots, pcmStarted, seen, active, claimed, stats, rtp>>

\* or fails and leaves the connection without one.
OfferRejected(c) ==
  /\ At(c, "offer")
  /\ WsGoto(c, "open")
  /\ UNCHANGED <<slots, pcmStarted, offers, session, seen, active, loops, stats, rtp>>

\* The socket closes, an error, or the reply cannot be sent.
SocketCloses(c) ==
  /\ At(c, "open")
  /\ WsGoto(c, "closing")
  /\ UNCHANGED <<slots, pcmStarted, offers, session, seen, active, loops, stats, rtp>>

\* Nothing on the WebSocket for IDLE_TIMEOUT: RTP audio of the active source also counts.
HeardRtp(c) == active = c /\ packets # seen[c]

IdleStays(c) ==
  /\ At(c, "open")
  /\ HeardRtp(c)
  /\ seen' = [seen EXCEPT ![c] = packets]
  /\ UNCHANGED <<ws, slots, pcmStarted, offers, session, active, loops, stats, rtp>>

IdleCloses(c) ==
  /\ At(c, "open")
  /\ ~HeardRtp(c)
  /\ WsGoto(c, "closing")
  /\ UNCHANGED <<slots, pcmStarted, offers, session, seen, active, loops, stats, rtp>>

(***************************************************************************)
(* The end of handle_ws                                                    *)
(***************************************************************************)
EndSession(c) ==
  /\ At(c, "closing")
  /\ CloseSession(c)
  /\ WsGoto(c, "release")
  /\ UNCHANGED <<slots, pcmStarted, offers, seen, active, loop, claimed, stats, rtp>>

\* Mutant of Release: the gate is released on the PCM path only.
Release_OnlyPcm(c) ==
  /\ At(c, "release")
  /\ IF active = c /\ pcmStarted[c]
       THEN active' = None /\ WsGoto(c, "clear")
       ELSE active' = active /\ WsGoto(c, "drop")
  /\ UNCHANGED <<slots, pcmStarted, offers, session, seen, loops, stats, rtp>>

\* release(): a compare-and-swap to 0, which succeeds only for the active source.
Release(c) ==
  /\ At(c, "release")
  /\ IF active = c
       THEN active' = None /\ WsGoto(c, "clear")
       ELSE active' = active /\ WsGoto(c, "drop")
  /\ UNCHANGED <<slots, pcmStarted, offers, session, seen, loops, stats, rtp>>

\* connected = false, then buffer.source_disconnected() (AudioPath.tla)
ClearRtc(c) ==
  /\ At(c, "clear")
  /\ connected' = FALSE
  /\ WsGoto(c, "drop")
  /\ UNCHANGED <<slots, pcmStarted, offers, session, seen, active, loops, packets, rtp>>

(***************************************************************************)
(* A decode loop and the events of its peer connection                     *)
(***************************************************************************)
PacketPolled(l) ==
  /\ loop[l] = "poll"
  /\ pcOpen[l]
  /\ rtp < MaxPackets
  /\ rtp' = rtp + 1
  /\ LoopGoto(l, "got")
  /\ UNCHANGED <<sockets, active, claimed, pcOpen, stats>>

\* Only the first packet of a loop takes over.
LoopClaims(l) ==
  /\ loop[l] = "got"
  /\ ~claimed[l]
  /\ claimed' = [claimed EXCEPT ![l] = TRUE]
  /\ TakeOver(Owner(l))
  /\ LoopGoto(l, "stats")
  /\ UNCHANGED <<sockets, pcOpen, stats, rtp>>

\* *s = RtcStats::default(); s.connected = true
ResetStats(l) ==
  /\ loop[l] = "stats"
  /\ connected' = TRUE
  /\ packets' = 0
  /\ LoopGoto(l, "play")
  /\ UNCHANGED <<sockets, active, claimed, pcOpen, rtp>>

LoopAllowed(l) ==
  /\ loop[l] = "got"
  /\ claimed[l]
  /\ Allowed(Owner(l))
  /\ LoopGoto(l, "play")
  /\ UNCHANGED <<sockets, claimed, pcOpen, stats, rtp>>

\* Superseded: the packet is dropped (AudioPath.tla has its number).
LoopSuperseded(l) ==
  /\ loop[l] = "got"
  /\ claimed[l]
  /\ ~MayPlay(Owner(l))
  /\ LoopGoto(l, "poll")
  /\ UNCHANGED <<sockets, active, claimed, pcOpen, stats, rtp>>

\* Mutant of LoopPlays: a frame recovered by FEC counts as a packet, too.
LoopPlays_CountsFec(l) ==
  /\ loop[l] = "play"
  /\ packets' = packets + 2
  /\ LoopGoto(l, "poll")
  /\ UNCHANGED <<sockets, active, claimed, pcOpen, connected, rtp>>

\* Decoded, pushed and counted; an empty payload or a decode error is not counted.
LoopPlays(l) ==
  /\ loop[l] = "play"
  /\ packets' \in {packets, packets + 1}
  /\ LoopGoto(l, "poll")
  /\ UNCHANGED <<sockets, active, claimed, pcOpen, connected, rtp>>

LoopEnds(l) ==
  /\ loop[l] = "poll"
  /\ ~pcOpen[l]
  /\ LoopGoto(l, "ended")
  /\ claimed' = [claimed EXCEPT ![l] = FALSE]
  /\ UNCHANGED <<sockets, active, pcOpen, stats, rtp>>

\* on_connection_state_change: only the active source reports.
StateChanges(l) ==
  /\ pcOpen[l]
  /\ active = Owner(l)
  /\ connected' \in BOOLEAN
  /\ UNCHANGED <<sockets, active, loops, packets, rtp>>

Upgrade(c) == Refuse(c) \/ Upgraded(c)
Message(c) == OfferAccepted(c) \/ OfferRejected(c)
End(c) == EndSession(c) \/ Release(c) \/ ClearRtc(c) \/ DropSlot(c)
LoopStep(l) ==
  \/ LoopClaims(l) \/ ResetStats(l) \/ LoopAllowed(l)
  \/ LoopSuperseded(l) \/ LoopPlays(l) \/ LoopEnds(l)

Next ==
  \/ \E c \in Conns :
       \/ Reserve(c) \/ UpgradeFails(c) \/ Upgrade(c)
       \/ PcmBlock(c) \/ OfferArrives(c) \/ Message(c)
       \/ SocketCloses(c) \/ IdleStays(c) \/ IdleCloses(c) \/ End(c)
  \/ \E l \in Loops : PacketPolled(l) \/ LoopStep(l) \/ StateChanges(l)

Spec == Init /\ [][Next]_vars

\* Tasks run; a device that has started to send PCM keeps sending until its socket closes.
Fairness ==
  /\ \A c \in Conns : /\ WF_vars(Upgrade(c)) /\ WF_vars(Message(c)) /\ WF_vars(End(c))
                      /\ SF_vars(pcmStarted[c] /\ PcmBlock(c))
  /\ \A l \in Loops : WF_vars(LoopStep(l))

FairSpec == Spec /\ Fairness

(***************************************************************************)
(* Properties                                                              *)
(***************************************************************************)

\* At most MAX_CONNECTIONS sockets exist, whatever burst arrives, and no slot is ever lost:
\* the counter is the number of slots in use plus those about to be taken back (app.rs:331-355).
SlotsHold ==
  /\ TypeOK
  /\ Cardinality({c \in Conns : ws[c] \in Holding}) <= MAX_CONNECTIONS
  /\ slots = Cardinality({c \in Conns : ws[c] \in Holding \cup {"refused"}})

\* The gate is never held by a connection that is gone: nobody would ever release it
\* (app.rs:17-18).
ActiveIsAlive == active # None => ws[active] \in Live \cup {"closing", "release"}

\* A playing source loses the gate only when it releases it itself or when another connection
\* sends its first block or packet; a superseded one cannot take it back (PROTOCOL.md:79-82).
OnlyStartsTakeOver ==
  [][active # None /\ active' # active =>
       \/ active' = None /\ ws'[active] = "clear"
       \/ active' # None /\ (pcmStarted' # pcmStarted \/ claimed' # claimed)]_vars

Sending(c) == pcmStarted[c] /\ ws[c] \in Live

\* As long as a device keeps sending PCM, some connection that still exists plays
\* (PROTOCOL.md:81-82, app.rs:17-18).
SomebodyPlays ==
  \A c \in Conns : Sending(c) ~> (~Sending(c) \/ (active # None /\ ws[active] \in Live))
=============================================================================
