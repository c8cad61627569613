------------------------------ MODULE AudioPath ------------------------------
(***************************************************************************)
(* From the network into the jitter buffer (src/src/webrtc_rx.rs           *)
(* decode_loop, the PCM path of handle_ws and the audio callback).  An RTP *)
(* track with numbered packets and a PCM connection share the buffer; the  *)
(* decode loop conceals lost packets in several steps, and every other     *)
(* task may come in between two of them.                                   *)
(*                                                                         *)
(* SourceGate.tla has the gate and the connections step by step; here a    *)
(* connection is only on or off.                                           *)
(***************************************************************************)
EXTENDS JitterBuffer

CONSTANTS
  None,        \* no packet expected, no source active
  SEQ,         \* sequence numbers: 0 .. SEQ - 1 (2^16)
  SMALL_GAP,   \* gaps below it are concealed (10)
  MAX_PLC,     \* packet-loss-concealment frames for one gap (5)
  FRAME,       \* ms of one packet
  PCM_MS,      \* ms of one PCM block
  PCM_RATE,    \* its sample rate
  PULL_MS,     \* ms of one audio callback
  MaxLost,     \* BOUND: packets the network loses in a behaviour
  MaxLate      \* BOUND: packets that arrive late

ASSUME PathConstantsOK ==
  /\ {SEQ, SMALL_GAP, FRAME, PCM_MS, PCM_RATE, PULL_MS} \subseteq Nat \ {0}
  /\ {MAX_PLC, MaxLost, MaxLate} \subseteq Nat
  /\ SMALL_GAP <= SEQ \div 2 /\ MaxLost < SEQ \div 2
  /\ None \notin Nat

VARIABLES
  step,      \* where the decode loop is
  expected,  \* the next sequence number, or None
  claimed,   \* the first packet of the track was seen
  seq,       \* the packet in work
  gap,       \* packets found missing before it
  plc,       \* concealment frames still to make for it
  active,    \* the active source: the track, the PCM connection or None
  pcm,       \* the PCM connection is there
  net,       \* the sequence number the sender uses next
  skipped,   \* ghost: packets lost on the network since the last one arrived
  made,      \* ghost: frames pushed for the packet in work
  late,      \* ghost: a late packet moved `expected` since the last one in order
  lostSoFar, lateSoFar

loopVars == <<step, expected, claimed, seq, gap, plc>>
netVars == <<net, skipped, late, lostSoFar, lateSoFar>>
vars == <<buffer, loopVars, active, pcm, made, netVars>>

Numbers == 0..(SEQ - 1)
After(s) == (s + 1) % SEQ

TypeOK ==
  /\ BufferTypeOK
  /\ step \in {"new", "poll", "note", "resync", "fec", "plc", "play"}
  /\ expected \in Numbers \cup {None} /\ claimed \in BOOLEAN
  /\ seq \in Numbers /\ gap \in Numbers /\ plc \in 0..MAX_PLC
  /\ active \in {"track", "pcm", None} /\ pcm \in BOOLEAN
  /\ net \in Numbers
  /\ skipped \in 0..MaxLost /\ made \in Nat /\ late \in BOOLEAN
  /\ lostSoFar \in 0..MaxLost /\ lateSoFar \in 0..MaxLate

Init ==
  /\ BufferInit
  /\ step = "new" /\ expected = None /\ claimed = FALSE
  /\ seq = 0 /\ gap = 0 /\ plc = 0
  /\ active = None /\ pcm = FALSE
  /\ net \in Numbers
  /\ skipped = 0 /\ made = 0 /\ late = FALSE /\ lostSoFar = 0 /\ lateSoFar = 0

(***************************************************************************)
(* The network                                                             *)
(***************************************************************************)
PacketLost ==
  /\ step = "poll"
  /\ lostSoFar < MaxLost
  /\ net' = After(net)
  /\ skipped' = skipped + 1 /\ lostSoFar' = lostSoFar + 1
  /\ UNCHANGED <<buffer, loopVars, active, pcm, made, late, lateSoFar>>

(***************************************************************************)
(* The decode loop                                                         *)
(***************************************************************************)
\* The loop starts with a new track.
TrackStarts ==
  /\ step = "new"
  /\ SetInputRate(TRACK_RATE)
  /\ step' = "poll"
  /\ UNCHANGED <<expected, claimed, seq, gap, plc, active, pcm, made, netVars>>

\* seq.wrapping_sub(exp)
Gap(s) == IF expected = None THEN 0 ELSE (s - expected) % SEQ

Concealed(g) == 1 <= g /\ g < SMALL_GAP
Resynced(g) == SMALL_GAP <= g /\ g < SEQ \div 2

\* The packet is done with: `expected` is the number after it.
Done(s) ==
  /\ step' = "poll"
  /\ expected' = After(s)
  /\ seq' = 0 /\ gap' = 0 /\ plc' = 0

\* Mutant of Pause: `expected` stays where it was.
Pause_KeepsExpected(s) ==
  /\ claimed
  /\ active = "pcm"
  /\ UNCHANGED <<buffer, loopVars, active>>

\* Superseded by the PCM connection: only the number is followed.
Pause(s) ==
  /\ claimed
  /\ active = "pcm"
  /\ Done(s)
  /\ UNCHANGED <<buffer, claimed, active>>

\* The first packet takes over, a later one plays while the gate allows it.
MayPlay == ~claimed \/ active \in {"track", None}

EmptyPayload(s) ==
  /\ MayPlay
  /\ claimed' = TRUE /\ active' = "track"
  /\ Done(s)
  /\ UNCHANGED buffer

Audio(s) ==
  /\ MayPlay
  /\ claimed' = TRUE /\ active' = "track"
  /\ seq' = s /\ gap' = Gap(s)
  /\ step' = IF Concealed(Gap(s)) THEN "note" ELSE IF Resynced(Gap(s)) THEN "resync" ELSE "play"
  /\ UNCHANGED <<expected, plc, buffer>>

\* The end of the ghosts' view of a packet in order; the loop polls again.
InOrderDone == skipped' = 0 /\ late' = FALSE

\* The next packet that was not lost.
PacketArrives ==
  /\ step = "poll"
  /\ net' = After(net)
  /\ \/ Pause(net) /\ InOrderDone
     \/ EmptyPayload(net) /\ InOrderDone
     \/ Audio(net) /\ UNCHANGED <<skipped, late>>
  /\ UNCHANGED <<pcm, made, lostSoFar, lateSoFar>>

\* A packet that comes again, or after its successor.
LatePacket ==
  /\ step = "poll"
  /\ expected # None
  /\ lateSoFar < MaxLate
  /\ lateSoFar' = lateSoFar + 1
  /\ late' = TRUE
  /\ \E back \in {1, 2} :
       LET s == (net - back) % SEQ IN Pause(s) \/ EmptyPayload(s) \/ Audio(s)
  /\ UNCHANGED <<pcm, made, net, skipped, lostSoFar>>

Noted ==
  /\ step = "note"
  /\ NoteLoss(gap)
  /\ step' = "fec"
  /\ UNCHANGED <<expected, claimed, seq, gap, plc, active, pcm, made, netVars>>

ResyncNoted ==
  /\ step = "resync"
  /\ NoteLoss(3)
  /\ step' = "play"
  /\ UNCHANGED <<expected, claimed, seq, gap, plc, active, pcm, made, netVars>>

\* Mutants of PlcNeeded: the frame that FEC rebuilt is made again; a large gap makes a storm.
PlcNeeded_ForgetsFec(fecOk) == AtMost(gap, MAX_PLC)
PlcNeeded_Storm(fecOk) == IF fecOk THEN gap - 1 ELSE gap

PlcNeeded(fecOk) == AtMost(IF fecOk THEN gap - 1 ELSE gap, MAX_PLC)

\* One frame goes into the buffer, or the decoder fails.
Frame(ok) ==
  IF ok THEN PushI16(FRAME) /\ made' = made + 1
        ELSE UNCHANGED <<buffer, made>>

\* The first missing packet is rebuilt from this one.
Fec ==
  /\ step = "fec"
  /\ \E ok \in BOOLEAN :
       /\ Frame(ok)
       /\ plc' = PlcNeeded(ok)
  /\ step' = IF plc' = 0 THEN "play" ELSE "plc"
  /\ UNCHANGED <<expected, claimed, seq, gap, active, pcm, netVars>>

Plc ==
  /\ step = "plc"
  /\ \E ok \in BOOLEAN : Frame(ok)
  /\ plc' = plc - 1
  /\ step' = IF plc' = 0 THEN "play" ELSE "plc"
  /\ UNCHANGED <<expected, claimed, seq, gap, active, pcm, netVars>>

\* After the packet itself; `made` starts again with the next one.
PacketDone ==
  /\ step = "play"
  /\ Done(seq)
  /\ made' = 0
  /\ IF After(seq) = net THEN InOrderDone ELSE UNCHANGED <<skipped, late>>
  /\ UNCHANGED <<claimed, active, pcm, net, lostSoFar, lateSoFar>>

Play == PacketDone /\ PushI16(FRAME)
DecodeError == PacketDone /\ UNCHANGED buffer

\* The connection of the track ends, between two packets.
TrackEnds ==
  /\ step = "poll"
  /\ IF active = "track"
       THEN active' = None /\ SourceDisconnected
       ELSE UNCHANGED <<active, buffer>>
  /\ step' = "new" /\ expected' = None /\ claimed' = FALSE
  /\ skipped' = 0 /\ late' = FALSE
  /\ UNCHANGED <<seq, gap, plc, pcm, made, net, lostSoFar, lateSoFar>>

(***************************************************************************)
(* The PCM connection                                                      *)
(***************************************************************************)
\* The first block takes over the source; a later one needs the gate.
PcmBlock ==
  /\ pcm => active \in {"pcm", None}
  /\ pcm' = TRUE
  /\ active' = "pcm"
  /\ PushAtRate(PCM_RATE, PCM_MS)
  /\ UNCHANGED <<loopVars, made, netVars>>

PcmEnds ==
  /\ pcm
  /\ pcm' = FALSE
  /\ IF active = "pcm"
       THEN active' = None /\ SourceDisconnected
       ELSE UNCHANGED <<active, buffer>>
  /\ UNCHANGED <<loopVars, made, netVars>>

\* The audio callback and the clock.
Callback ==
  /\ Pull(PULL_MS) \/ Tick
  /\ UNCHANGED <<loopVars, active, pcm, made, netVars>>

LoopStep == Noted \/ ResyncNoted \/ Fec \/ Plc \/ Play \/ DecodeError

Next ==
  \/ PacketLost \/ PacketArrives \/ LatePacket
  \/ TrackStarts \/ LoopStep \/ TrackEnds
  \/ PcmBlock \/ PcmEnds \/ Callback

Spec == Init /\ [][Next]_vars

\* Time passes and the decode loop runs; nobody has to send or to connect.
FairSpec == Spec /\ WF_vars(LoopStep) /\ WF_vars(Callback /\ Tick)

(***************************************************************************)
(* Properties                                                              *)
(***************************************************************************)

\* In a stream in order, the gap before a packet is what the network lost since the last packet,
\* across the wrap of the numbers and after a pause in which another source played
\* (webrtc_rx.rs:99-100, 123-126).
LossIsCounted ==
  /\ TypeOK
  /\ step \notin {"new", "poll"} /\ expected # None /\ ~late => gap = skipped

\* Concealment never adds more audio than the network lost: latency does not grow with loss
\* (webrtc_rx.rs:78-79, audio.rs:15).
NoExtraAudio == ~late => made <= skipped

\* A source that keeps playing is heard: silence after an underrun ends even when losses have
\* raised the target above max_ms, because the target shrinks again (audio.rs:17-18).
Pushes == Play \/ PcmBlock
Goodbye == TrackEnds \/ PcmEnds
SilenceEnds ==
  ([]<><<Pushes>>_vars /\ <>[][~Goodbye]_vars) => []<>primed
=============================================================================
