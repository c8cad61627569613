-------------------------- MODULE JitterBufferProofs --------------------------
(***************************************************************************)
(* Proofs about the jitter buffer: whoever calls it, with whatever blocks  *)
(* and losses, in whatever order, its latency and its target stay bounded  *)
(* and every underrun it reports is a gap.  AudioPath calls it in no other *)
(* way, so the same holds there for all constants.  The last part is about *)
(* the losses the decode loop counts and the frames that conceal them.     *)
(***************************************************************************)
EXTENDS AudioPath, TLAPS

\* A buffer that is primed has had a block since its last underrun.
Gaps == UnderrunsAreGaps /\ (primed => tail = 0)

\* The inductive invariant: the underrun in Bounded's last conjunct remembers a target of the
\* range, and the second conjunct of Gaps keeps one underrun from hiding another.
BufferInv == BufferTypeOK /\ Bounded /\ Gaps

LEMMA ModBelow == \A n \in Nat, d \in Nat \ {0} : n % d \in 0..(d - 1) /\ n % d <= n
<1>1. SUFFICES ASSUME NEW n \in Nat, NEW d \in Nat \ {0}
               PROVE  n % d \in 0..(d - 1) /\ n % d <= n
  OBVIOUS
<1>2. n = d * (n \div d) + (n % d) /\ n \div d \in Nat
  OBVIOUS
<1>3. d * (n \div d) \in Nat
  BY <1>2
<1>4. n % d \in 0..(d - 1)
  OBVIOUS
<1>5. QED BY <1>2, <1>3, <1>4

LEMMA ConstantTypes ==
  /\ BaseMs \in Nat /\ BaseMs > 0 /\ CHUNK \in Nat /\ CHUNK > 0
  /\ CALM_AFTER \in Nat /\ MaxMs \in Nat /\ TARGET_MAX_MS \in Nat
BY ConstantsOK

LEMMA CapRange == TargetCap \in Nat /\ BaseMs <= TargetCap
BY ConstantTypes DEF TargetCap, AtLeast

LEMMA BufferInitInv == ASSUME BufferInit PROVE BufferInv
<1>1. BufferTypeOK
  <2>0. inputRate \in Nat
    BY SMT DEF BufferInit, TRACK_RATE
  <2>1. pending \in Nat /\ queue \in Nat /\ target \in Nat
    BY ConstantTypes DEF BufferInit
  <2>2. primed \in BOOLEAN
    BY DEF BufferInit
  <2>3. /\ quiet \in 0..CALM_AFTER /\ unshrunk \in 0..CALM_AFTER
        /\ tail \in Nat /\ underruns \in Nat /\ dried \in Nat
    BY ConstantTypes DEF BufferInit
  <2>4. QED BY <2>0, <2>1, <2>2, <2>3 DEF BufferTypeOK
<1>2. Bounded
  <2>1. queue <= MaxMs /\ pending < CHUNK
    BY ConstantTypes DEF BufferInit
  <2>2. target = BaseMs /\ tail = 0
    BY DEF BufferInit
  <2>3. QED BY <2>1, <2>2, CapRange, ConstantTypes DEF Bounded
<1>3. Gaps
  BY DEF BufferInit, Gaps, UnderrunsAreGaps
<1>4. QED BY <1>1, <1>2, <1>3 DEF BufferInv

\* A grown target stays in the range and does not fall below the old one.
LEMMA GrowRange ==
  ASSUME BufferInv, NEW add \in Nat, GrowBy(add)
  PROVE  /\ target' \in Nat /\ target <= target' /\ target' <= TargetCap
         /\ quiet' \in 0..CALM_AFTER /\ unshrunk' \in 0..CALM_AFTER
BY ConstantTypes, CapRange DEF BufferInv, BufferTypeOK, Bounded, GrowBy, AtMost

LEMMA NoteLossInv == ASSUME BufferInv, NEW n \in Nat, NoteLoss(n) PROVE BufferInv'
<1>1. 10 * AtMost(n, 3) \in Nat
  BY DEF AtMost
<1>2. GrowBy(10 * AtMost(n, 3))
  BY DEF NoteLoss
<1>3. BufferTypeOK'
  BY <1>1, <1>2, GrowRange DEF NoteLoss, BufferInv, BufferTypeOK
<1>4. Bounded'
  <2>1. /\ target' \in Nat /\ target <= target' /\ target' <= TargetCap
        /\ target \in Nat /\ tail \in Nat
    BY <1>1, <1>2, GrowRange DEF BufferInv, BufferTypeOK
  <2>2. queue' = queue /\ pending' = pending /\ tail' = tail
    BY DEF NoteLoss
  <2>3. QED BY <2>1, <2>2, CapRange, ConstantTypes DEF BufferInv, Bounded
<1>5. Gaps'
  BY DEF NoteLoss, BufferInv, Gaps, UnderrunsAreGaps
<1>6. QED BY <1>3, <1>4, <1>5 DEF BufferInv

\* A shrunk target stays in the range.
LEMMA ShrunkRange ==
  ASSUME BufferInv PROVE Shrunk \in Nat /\ BaseMs <= Shrunk /\ Shrunk <= target
BY ConstantTypes DEF BufferInv, BufferTypeOK, Bounded, Shrunk, AtLeast

LEMMA PushInv ==
  ASSUME BufferInv, NEW w \in Nat, NEW ms \in Nat, PushAfter(w, ms), inputRate' \in Nat
  PROVE  BufferInv'
<1> DEFINE filled == w + ms
<1>1. pending' \in 0..(CHUNK - 1) /\ pending' <= filled
  <2>1. filled \in Nat /\ CHUNK \in Nat \ {0}
    BY ConstantTypes
  <2>2. filled % CHUNK \in 0..(CHUNK - 1) /\ filled % CHUNK <= filled
    <3> HIDE DEF filled
    <3> QED BY <2>1, ModBelow, Zenon
  <2>3. QED BY <2>2 DEF PushAfter
<1>2. queue' \in Nat /\ queue' <= MaxMs
  BY <1>1, ConstantTypes DEF PushAfter, Kept, AtMost, BufferInv, BufferTypeOK
<1>3. target' \in Nat /\ BaseMs <= target' /\ target' <= TargetCap /\ unshrunk' \in 0..CALM_AFTER
  BY ShrunkRange, CapRange, ConstantTypes DEF PushAfter, BufferInv, BufferTypeOK, Bounded
<1>4. tail' = 0 /\ dried' \in Nat /\ underruns' = dried'
  BY DEF PushAfter, BufferInv, BufferTypeOK, Gaps, UnderrunsAreGaps
<1>5. primed' \in BOOLEAN /\ quiet' = quiet /\ underruns' = underruns
  BY DEF PushAfter, BufferInv, BufferTypeOK
<1>6. QED
  BY <1>1, <1>2, <1>3, <1>4, <1>5, ConstantTypes
  DEF BufferInv, BufferTypeOK, Bounded, Gaps, UnderrunsAreGaps

LEMMA SetInputRateInv ==
  ASSUME BufferInv, NEW rate \in Nat, SetInputRate(rate) PROVE BufferInv'
<1>1. pending' \in Nat /\ pending' < CHUNK
  BY ConstantTypes DEF SetInputRate, Waiting, BufferInv, BufferTypeOK, Bounded
<1>2. inputRate' \in Nat
  BY DEF SetInputRate
<1>3. UNCHANGED <<queue, target, primed, quiet, unshrunk, tail, underruns, dried>>
  BY DEF SetInputRate
<1>4. BufferTypeOK'
  BY <1>1, <1>2, <1>3 DEF BufferInv, BufferTypeOK
<1>5. Bounded'
  BY <1>1, <1>3 DEF BufferInv, Bounded, TargetCap
<1>6. Gaps'
  BY <1>3 DEF BufferInv, Gaps, UnderrunsAreGaps
<1>7. QED BY <1>4, <1>5, <1>6 DEF BufferInv

LEMMA PushAtRateInv ==
  ASSUME BufferInv, NEW rate \in Nat, NEW ms \in Nat, PushAtRate(rate, ms) PROVE BufferInv'
<1>1. Waiting(rate) \in Nat
  BY DEF Waiting, BufferInv, BufferTypeOK
<1>2. PushAfter(Waiting(rate), ms) /\ inputRate' \in Nat
  BY DEF PushAtRate
<1>3. QED BY <1>1, <1>2, PushInv

LEMMA PushI16Inv == ASSUME BufferInv, NEW ms \in Nat, PushI16(ms) PROVE BufferInv'
<1>1. pending \in Nat /\ inputRate' \in Nat /\ PushAfter(pending, ms)
  BY DEF PushI16, BufferInv, BufferTypeOK
<1>2. QED BY <1>1, PushInv

\* Taking the last underrun back: it was counted, and its target was in the range.
LEMMA SourceDisconnectedInv == ASSUME BufferInv, SourceDisconnected PROVE BufferInv'
<1>1. /\ queue' = 0 /\ pending' = 0 /\ tail' = 0 /\ primed' = FALSE
      /\ UNCHANGED <<inputRate, unshrunk, dried>>
  BY DEF SourceDisconnected
<1>2. /\ target' \in Nat /\ BaseMs <= target' /\ target' <= TargetCap
      /\ quiet' \in 0..CALM_AFTER
  <2>1. CASE Forgiven
    BY <2>1, CapRange, ConstantTypes
    DEF SourceDisconnected, Forgiven, BufferInv, BufferTypeOK, Bounded
  <2>2. CASE ~Forgiven
    BY <2>2 DEF SourceDisconnected, BufferInv, BufferTypeOK, Bounded
  <2>3. QED BY <2>1, <2>2
<1>3. underruns' = dried
  BY DEF SourceDisconnected, Forgiven, BufferInv, BufferTypeOK, Gaps, UnderrunsAreGaps
<1>4. BufferTypeOK'
  BY <1>1, <1>2, <1>3, ConstantTypes DEF BufferInv, BufferTypeOK
<1>5. Bounded'
  BY <1>1, <1>2, ConstantTypes DEF Bounded, TargetCap
<1>6. Gaps'
  BY <1>1, <1>3 DEF Gaps, UnderrunsAreGaps
<1>7. QED BY <1>4, <1>5, <1>6 DEF BufferInv

LEMMA PullAudioInv == ASSUME BufferInv, NEW ms \in Nat, PullAudio(ms) PROVE BufferInv'
<1>1. queue' \in Nat /\ queue' <= queue
  BY DEF PullAudio, BufferInv, BufferTypeOK
<1>2. UNCHANGED <<inputRate, pending, target, primed, quiet, unshrunk, tail, underruns, dried>>
  BY DEF PullAudio
<1>3. BufferTypeOK'
  BY <1>1, <1>2 DEF BufferInv, BufferTypeOK
<1>4. Bounded'
  BY <1>1, <1>2, ConstantTypes DEF BufferInv, BufferTypeOK, Bounded, TargetCap
<1>5. Gaps'
  BY <1>2 DEF BufferInv, Gaps, UnderrunsAreGaps
<1>6. QED BY <1>3, <1>4, <1>5 DEF BufferInv

\* The target before the underrun is the one to come back to.
LEMMA UnderrunInv == ASSUME BufferInv, NEW ms \in Nat, Underrun(ms) PROVE BufferInv'
<1> DEFINE add == AtLeast(target \div 2, 10)
<1>1. /\ queue' = 0 /\ primed' = FALSE /\ underruns' = underruns + 1 /\ tail' = target
      /\ UNCHANGED <<inputRate, pending, dried>>
  BY DEF Underrun
<1>2. add \in Nat
  BY DEF AtLeast, BufferInv, BufferTypeOK
<1>3. GrowBy(add)
  BY DEF Underrun
<1>4. /\ target' \in Nat /\ target <= target' /\ target' <= TargetCap
      /\ quiet' \in 0..CALM_AFTER /\ unshrunk' \in 0..CALM_AFTER
  <2> HIDE DEF add
  <2> QED BY <1>2, <1>3, GrowRange
<1>5. target \in Nat /\ BaseMs <= target /\ pending < CHUNK
  BY DEF BufferInv, BufferTypeOK, Bounded
<1>6. underruns = dried
  BY DEF Underrun, BufferInv, Gaps, UnderrunsAreGaps
<1>7. BufferTypeOK'
  <2>1. primed' \in BOOLEAN
    BY <1>1
  <2>2. queue' \in Nat /\ underruns' \in Nat /\ tail' \in Nat
    BY <1>1, <1>5 DEF BufferInv, BufferTypeOK
  <2>3. inputRate' \in Nat /\ pending' \in Nat /\ dried' \in Nat
    BY <1>1 DEF BufferInv, BufferTypeOK
  <2>4. QED BY <1>4, <2>1, <2>2, <2>3 DEF BufferTypeOK
<1>8. Bounded'
  <2>1. TargetCap' = TargetCap
    BY DEF TargetCap
  <2>2. BaseMs <= target' /\ 0 <= MaxMs
    BY <1>4, <1>5, ConstantTypes
  <2>3. QED BY <1>1, <1>4, <1>5, <2>1, <2>2 DEF Bounded
<1>9. Gaps'
  BY <1>1, <1>5, <1>6, ConstantTypes DEF Gaps, UnderrunsAreGaps
<1>10. QED BY <1>7, <1>8, <1>9 DEF BufferInv

LEMMA TickInv == ASSUME BufferInv, Tick PROVE BufferInv'
<1>1. quiet' \in 0..CALM_AFTER /\ unshrunk' \in 0..CALM_AFTER
  BY ConstantTypes DEF Tick, AtMost, BufferInv, BufferTypeOK
<1>2. UNCHANGED <<inputRate, pending, queue, target, primed, tail, underruns, dried>>
  BY DEF Tick
<1>3. BufferTypeOK'
  BY <1>1, <1>2 DEF BufferInv, BufferTypeOK
<1>4. Bounded'
  BY <1>2 DEF BufferInv, Bounded, TargetCap
<1>5. Gaps'
  BY <1>2 DEF BufferInv, Gaps, UnderrunsAreGaps
<1>6. QED BY <1>3, <1>4, <1>5 DEF BufferInv

LEMMA StutterInv == ASSUME BufferInv, UNCHANGED buffer PROVE BufferInv'
<1>1. UNCHANGED <<inputRate, pending, queue, target, primed, quiet, unshrunk, tail,
                  underruns, dried>>
  BY DEF buffer
<1>2. QED
  BY <1>1 DEF BufferInv, BufferTypeOK, Bounded, TargetCap, Gaps, UnderrunsAreGaps

LEMMA BufferStep == ASSUME BufferInv, [BufferNext]_buffer PROVE BufferInv'
<1>1. ASSUME NEW rate \in Nat, NEW ms \in Nat,
             SetInputRate(rate) \/ PushAtRate(rate, ms) \/ PushI16(ms)
      PROVE  BufferInv'
  BY <1>1, SetInputRateInv, PushAtRateInv, PushI16Inv
<1>2. ASSUME NEW n \in Nat, NoteLoss(n) \/ Pull(n) PROVE BufferInv'
  BY <1>2, NoteLossInv, PullAudioInv, UnderrunInv DEF Pull
<1>3. CASE SourceDisconnected
  BY <1>3, SourceDisconnectedInv
<1>4. CASE Tick
  BY <1>4, TickInv
<1>5. CASE UNCHANGED buffer
  BY <1>5, StutterInv
<1>6. QED BY <1>1, <1>2, <1>3, <1>4, <1>5 DEF BufferNext

\* Whatever its callers do, and in whatever order: the latency of the buffer is at most max_ms
\* and a partial block, and its target stays between the configured one and the upper bound
\* (audio.rs push_i16, grow_target, maybe_shrink_target).
THEOREM BufferBounded == BufferSpec => []Bounded
<1>1. BufferInit => BufferInv
  BY BufferInitInv
<1>2. BufferInv /\ [BufferNext]_buffer => BufferInv'
  BY BufferStep
<1>3. BufferInv => Bounded
  BY DEF BufferInv
<1>4. QED BY <1>1, <1>2, <1>3, PTL DEF BufferSpec

\* Whatever its callers do: every underrun in the statistics was followed by more audio, except
\* for the one a goodbye may still take back (audio.rs underrun, source_disconnected).
THEOREM BufferGaps == BufferSpec => []UnderrunsAreGaps
<1>1. BufferInit => BufferInv
  BY BufferInitInv
<1>2. BufferInv /\ [BufferNext]_buffer => BufferInv'
  BY BufferStep
<1>3. BufferInv => UnderrunsAreGaps
  BY DEF BufferInv, Gaps
<1>4. QED BY <1>1, <1>2, <1>3, PTL DEF BufferSpec

(***************************************************************************)
(* The network tasks, the decode loop and the callback use the buffer only *)
(* through its operations.                                                 *)
(***************************************************************************)
\* What a step needs to know of the decode loop: the numbers it works on are numbers.
LoopInv ==
  /\ net \in Numbers /\ seq \in Numbers /\ gap \in Nat
  /\ expected \in Numbers \cup {None}

LEMMA PathConstantTypes ==
  /\ SEQ \in Nat \ {0} /\ FRAME \in Nat /\ PCM_MS \in Nat /\ PCM_RATE \in Nat /\ PULL_MS \in Nat
BY PathConstantsOK

LEMMA ZeroIsNumber == 0 \in Numbers
BY PathConstantTypes DEF Numbers

LEMMA IntMod == \A i \in Int, d \in Nat \ {0} : i % d \in 0..(d - 1)
OBVIOUS

LEMMA AfterRange == ASSUME NEW s \in Numbers PROVE After(s) \in Numbers
<1>1. s + 1 \in Int
  BY PathConstantTypes DEF Numbers
<1>2. (s + 1) % SEQ \in 0..(SEQ - 1)
  BY <1>1, IntMod, PathConstantTypes, Zenon
<1>3. QED BY <1>2 DEF After, Numbers

LEMMA GapRange == ASSUME LoopInv, NEW s \in Numbers PROVE Gap(s) \in Nat
<1>1. CASE expected = None
  BY <1>1 DEF Gap
<1>2. CASE expected # None
  <2>1. s - expected \in Int
    BY <1>2, PathConstantTypes DEF LoopInv, Numbers
  <2>2. (s - expected) % SEQ \in 0..(SEQ - 1)
    BY <2>1, IntMod, PathConstantTypes, Zenon
  <2>3. QED BY <1>2, <2>2, PathConstantTypes DEF Gap
<1>3. QED BY <1>1, <1>2

\* Whatever a packet does to the loop, the numbers stay numbers, and the buffer is not touched.
LEMMA PacketInv ==
  ASSUME LoopInv, NEW s \in Numbers, Pause(s) \/ EmptyPayload(s) \/ Audio(s)
  PROVE  /\ seq' \in Numbers /\ gap' \in Nat /\ expected' \in Numbers \cup {None}
         /\ UNCHANGED buffer
<1>1. CASE Pause(s) \/ EmptyPayload(s)
  BY <1>1, AfterRange, ZeroIsNumber DEF Pause, EmptyPayload, Done
<1>2. CASE Audio(s)
  BY <1>2, GapRange DEF Audio, LoopInv
<1>3. QED BY <1>1, <1>2

LEMMA FrameStep ==
  ASSUME NEW ok \in BOOLEAN, Frame(ok) PROVE [BufferNext]_buffer
BY PathConstantTypes DEF Frame, BufferNext

LEMMA PathStep ==
  ASSUME LoopInv, [Next]_vars
  PROVE  LoopInv' /\ [BufferNext]_buffer
<1>1. CASE PacketLost
  <2>1. net' \in Numbers
    BY <1>1, AfterRange DEF PacketLost, LoopInv
  <2>2. UNCHANGED <<seq, gap, expected>> /\ UNCHANGED buffer
    BY <1>1 DEF PacketLost, loopVars
  <2>3. QED BY <2>1, <2>2 DEF LoopInv
<1>2. CASE PacketArrives
  <2>1. net \in Numbers /\ (Pause(net) \/ EmptyPayload(net) \/ Audio(net))
    BY <1>2 DEF PacketArrives, LoopInv
  <2>2. net' \in Numbers
    BY <1>2, <2>1, AfterRange DEF PacketArrives
  <2>3. QED BY <2>1, <2>2, PacketInv DEF LoopInv
<1>3. CASE LatePacket
  <2>1. PICK back \in {1, 2} :
          LET s == (net - back) % SEQ IN Pause(s) \/ EmptyPayload(s) \/ Audio(s)
    BY <1>3 DEF LatePacket
  <2>2. net - back \in Int
    BY PathConstantTypes DEF LoopInv, Numbers
  <2>3. (net - back) % SEQ \in Numbers
    BY <2>2, IntMod, PathConstantTypes, Zenon DEF Numbers
  <2>4. net' = net
    BY <1>3 DEF LatePacket
  <2>5. QED BY <2>1, <2>3, <2>4, PacketInv DEF LoopInv
<1>4. CASE TrackStarts
  <2>1. SetInputRate(TRACK_RATE) /\ TRACK_RATE \in Nat
    BY <1>4, SMT DEF TrackStarts, TRACK_RATE
  <2>2. LoopInv'
    BY <1>4 DEF TrackStarts, netVars, LoopInv
  <2>3. QED BY <2>1, <2>2 DEF BufferNext
<1>5. CASE LoopStep
  <2>1. CASE Noted
    BY <2>1 DEF Noted, netVars, LoopInv, BufferNext
  <2>2. CASE ResyncNoted
    BY <2>2 DEF ResyncNoted, netVars, LoopInv, BufferNext
  <2>3. CASE Fec
    <3>1. [BufferNext]_buffer
      BY <2>3, FrameStep DEF Fec
    <3>2. QED BY <2>3, <3>1 DEF Fec, netVars, LoopInv
  <2>4. CASE Plc
    <3>1. [BufferNext]_buffer
      BY <2>4, FrameStep DEF Plc
    <3>2. QED BY <2>4, <3>1 DEF Plc, netVars, LoopInv
  <2>5. CASE Play \/ DecodeError
    <3>1. [BufferNext]_buffer
      BY <2>5, PathConstantTypes DEF Play, DecodeError, BufferNext
    <3>2. QED
      BY <2>5, <3>1, AfterRange, ZeroIsNumber
      DEF Play, DecodeError, PacketDone, Done, LoopInv
  <2>6. QED BY <1>5, <2>1, <2>2, <2>3, <2>4, <2>5 DEF LoopStep
<1>6. CASE TrackEnds
  BY <1>6 DEF TrackEnds, LoopInv, BufferNext
<1>7. CASE PcmBlock
  BY <1>7, PathConstantTypes DEF PcmBlock, loopVars, netVars, LoopInv, BufferNext
<1>8. CASE PcmEnds
  BY <1>8 DEF PcmEnds, loopVars, netVars, LoopInv, BufferNext
<1>9. CASE Callback
  BY <1>9, PathConstantTypes DEF Callback, loopVars, netVars, LoopInv, BufferNext
<1>10. CASE UNCHANGED vars
  BY <1>10 DEF vars, loopVars, netVars, LoopInv
<1>11. QED
  BY <1>1, <1>2, <1>3, <1>4, <1>5, <1>6, <1>7, <1>8, <1>9, <1>10 DEF Next

\* Every behaviour of the audio path is a behaviour of the buffer under arbitrary calls.
THEOREM UsesBuffer == Spec => BufferSpec
<1>1. Init => BufferInit /\ LoopInv
  BY ZeroIsNumber DEF Init, LoopInv
<1>2. LoopInv /\ [Next]_vars => LoopInv' /\ [BufferNext]_buffer
  BY PathStep
<1>3. QED BY <1>1, <1>2, PTL DEF Spec, BufferSpec

\* On the way from the network to the speaker, with any loss, any order of the packets and any
\* change between the sources, latency and headroom stay bounded and the underruns reported are
\* gaps (webrtc_rx.rs decode_loop, app.rs handle_ws, start_output).
THEOREM PathSafe == Spec => [](Bounded /\ UnderrunsAreGaps)
BY UsesBuffer, BufferBounded, BufferGaps, PTL

(***************************************************************************)
(* The losses of a stream and the frames that conceal them.                *)
(***************************************************************************)
LoopTypes ==
  /\ step \in {"new", "poll", "note", "resync", "fec", "plc", "play"}
  /\ expected \in Numbers \cup {None} /\ claimed \in BOOLEAN
  /\ seq \in Numbers /\ gap \in Numbers /\ plc \in 0..MAX_PLC
  /\ active \in {"track", "pcm", None} /\ pcm \in BOOLEAN
  /\ net \in Numbers
  /\ skipped \in 0..MaxLost /\ made \in Nat /\ late \in BOOLEAN
  /\ lostSoFar \in 0..MaxLost /\ lateSoFar \in 0..MaxLate

AtWork == step \notin {"new", "poll"}

\* Between two packets of a stream in order, the packets lost since the last one are those
\* between the number expected and the one the sender uses next.
Counting ==
  ~AtWork => /\ made = 0 /\ plc = 0
             /\ expected # None /\ ~late => skipped = Gap(net)

\* While the loop works on a packet in order, the sender is one number ahead of it.
Following ==
  AtWork /\ ~late => /\ net = After(seq)
                     /\ expected # None => gap = skipped

\* What was made and what is still to be made for a packet is no more than its gap.
Concealing ==
  /\ AtWork => made + plc <= gap /\ (expected = None => gap = 0)
  /\ step \in {"note", "fec"} => Concealed(gap) /\ made = 0
  /\ step = "plc" => plc >= 1

LossInv == LoopTypes /\ Counting /\ Following /\ Concealing /\ skipped <= lostSoFar

IInv == BufferInv /\ LossInv

LEMMA LossConstants ==
  /\ SMALL_GAP \in Nat /\ MAX_PLC \in Nat /\ MaxLost \in Nat /\ MaxLate \in Nat
  /\ SMALL_GAP <= SEQ \div 2 /\ MaxLost < SEQ \div 2 /\ None \notin Numbers
BY PathConstantsOK DEF Numbers

LEMMA HalfBelow == \A n \in Nat : n \div 2 \in Nat /\ n \div 2 <= n
OBVIOUS

LEMMA MaxLostBelow == MaxLost < SEQ
BY LossConstants, PathConstantTypes, HalfBelow

LEMMA Division ==
  ASSUME NEW x \in Int, NEW d \in Nat \ {0}
  PROVE  x % d \in 0..(d - 1) /\ x \div d \in Int /\ x = d * (x \div d) + (x % d)
OBVIOUS

LEMMA Multiples ==
  ASSUME NEW d \in Nat \ {0}, NEW q \in Int
  PROVE  /\ d * q \in Int /\ d * 0 = 0 /\ d * (-1) = -d
         /\ q >= 1 => d * q >= d
         /\ q <= -2 => d * q <= -d - d
OBVIOUS

LEMMA SelfMod == ASSUME NEW d \in Nat \ {0} PROVE d % d = 0
OBVIOUS

\* The remainder of a number at most one divisor away.
LEMMA NearMod ==
  ASSUME NEW x \in Int, NEW d \in Nat \ {0}, -d <= x, x < d
  PROVE  x % d = IF x < 0 THEN x + d ELSE x
<1> DEFINE q == x \div d
<1> DEFINE r == x % d
<1>1. r \in 0..(d - 1) /\ q \in Int /\ x = d * q + r
  BY Division
<1> HIDE DEF q
<1>2. /\ d * q \in Int /\ d * 0 = 0 /\ d * (-1) = -d
      /\ q >= 1 => d * q >= d
      /\ q <= -2 => d * q <= -d - d
  BY <1>1, Multiples
<1>3. r = IF x < 0 THEN x + d ELSE x
  <2> HIDE DEF r
  <2>1. q = 0 \/ q = -1
    BY <1>1, <1>2
  <2>2. QED BY <1>1, <1>2, <2>1
<1>4. QED BY <1>3

\* Numbers that wrap: the next one, and the way from one to another.
LEMMA AfterIs == ASSUME NEW s \in Numbers PROVE After(s) = IF s + 1 = SEQ THEN 0 ELSE s + 1
<1>1. s \in Int /\ 0 <= s /\ s < SEQ /\ SEQ \in Nat \ {0}
  BY PathConstantTypes DEF Numbers
<1>2. CASE s + 1 < SEQ
  <2>. DEFINE n == s + 1
  <2>0. n \in Int /\ -SEQ <= n /\ n < SEQ /\ 0 <= n /\ SEQ \in Nat \ {0}
    BY <1>1, <1>2
  <2>1. n % SEQ = n
    <3>. HIDE DEF n
    <3>1. n % SEQ = IF n < 0 THEN n + SEQ ELSE n
      BY <2>0, NearMod
    <3>2. QED BY <2>0, <3>1
  <2>2. QED BY <1>1, <1>2, <2>1 DEF After
<1>3. CASE s + 1 = SEQ
  <2>1. SEQ % SEQ = 0
    BY <1>1, SelfMod
  <2>2. After(s) = SEQ % SEQ
    BY <1>3, Zenon DEF After
  <2>3. QED BY <1>3, <2>1, <2>2
<1>4. QED BY <1>1, <1>2, <1>3

LEMMA WayIs ==
  ASSUME NEW a \in Numbers, NEW b \in Numbers
  PROVE  (a - b) % SEQ = IF a < b THEN a - b + SEQ ELSE a - b
<1>1. /\ a \in Int /\ 0 <= a /\ a < SEQ /\ b \in Int /\ 0 <= b /\ b < SEQ
      /\ SEQ \in Nat \ {0}
  BY PathConstantTypes DEF Numbers
<1>2. a - b \in Int /\ -SEQ <= a - b /\ a - b < SEQ
  BY <1>1
<1>3. (a - b) % SEQ = IF a - b < 0 THEN (a - b) + SEQ ELSE a - b
  BY <1>1, <1>2, NearMod
<1>4. QED BY <1>1, <1>3

LEMMA WayOneFurther ==
  ASSUME NEW a \in Numbers, NEW b \in Numbers, ((a - b) % SEQ) + 1 < SEQ
  PROVE  (After(a) - b) % SEQ = ((a - b) % SEQ) + 1
<1>1. a \in 0..(SEQ - 1) /\ b \in 0..(SEQ - 1) /\ SEQ \in Nat
  BY PathConstantTypes DEF Numbers
<1>2. After(a) \in Numbers /\ After(a) = IF a + 1 = SEQ THEN 0 ELSE a + 1
  BY AfterRange, AfterIs
<1>3. (After(a) - b) % SEQ = IF After(a) < b THEN After(a) - b + SEQ ELSE After(a) - b
  BY <1>2, WayIs
<1>4. (a - b) % SEQ = IF a < b THEN a - b + SEQ ELSE a - b
  BY WayIs
<1>5. QED BY <1>1, <1>2, <1>3, <1>4

LEMMA NoWay == ASSUME NEW a \in Numbers PROVE (a - a) % SEQ = 0
<1>1. a - a = 0
  BY PathConstantTypes DEF Numbers
<1>2. (a - a) % SEQ = IF a < a THEN a - a + SEQ ELSE a - a
  BY WayIs
<1>3. QED BY <1>1, <1>2, PathConstantTypes DEF Numbers

LEMMA GapIsNumber == ASSUME LoopTypes, NEW s \in Numbers PROVE Gap(s) \in Numbers
<1>1. CASE expected = None
  BY <1>1, ZeroIsNumber DEF Gap
<1>2. CASE expected # None
  <2>1. s - expected \in Int
    BY <1>2, PathConstantTypes DEF LoopTypes, Numbers
  <2>2. (s - expected) % SEQ \in 0..(SEQ - 1)
    BY <2>1, IntMod, PathConstantTypes, Zenon
  <2>3. QED BY <1>2, <2>2 DEF Gap, Numbers
<1>3. QED BY <1>1, <1>2

LEMMA InitLossInv == ASSUME Init PROVE LossInv
<1>1. LoopTypes
  <2>1. 0 \in Numbers /\ 0 \in 0..MAX_PLC /\ 0 \in 0..MaxLost /\ 0 \in 0..MaxLate /\ 0 \in Nat
    BY ZeroIsNumber, LossConstants
  <2>2. QED BY <2>1, Zenon DEF Init, LoopTypes
<1>2. QED BY <1>1 DEF Init, LossInv, Counting, Following, Concealing, AtWork

\* Other tasks do not touch the loop.
LEMMA LoopUntouched ==
  ASSUME LossInv, UNCHANGED <<loopVars, made, netVars>>,
         active' \in {"track", "pcm", None}, pcm' \in BOOLEAN
  PROVE  LossInv'
<1>1. /\ UNCHANGED <<step, expected, claimed, seq, gap, plc, made>>
      /\ UNCHANGED <<net, skipped, late, lostSoFar, lateSoFar>>
  BY DEF loopVars, netVars
<1>2. Gap(net)' = Gap(net)
  BY <1>1 DEF Gap
<1>3. LoopTypes'
  BY <1>1 DEF LossInv, LoopTypes
<1>4. Counting' /\ Following' /\ Concealing'
  BY <1>1, <1>2 DEF LossInv, Counting, Following, Concealing, Concealed, AtWork, After
<1>5. QED BY <1>1, <1>3, <1>4 DEF LossInv

\* One more packet lost is one number further.
LEMMA PacketLostStep == ASSUME LossInv, PacketLost PROVE LossInv'
<1>1. /\ step = "poll" /\ lostSoFar < MaxLost /\ net' = After(net)
      /\ skipped' = skipped + 1 /\ lostSoFar' = lostSoFar + 1
      /\ UNCHANGED <<step, expected, claimed, seq, gap, plc, active, pcm, made, late, lateSoFar>>
  BY DEF PacketLost, loopVars
<1>2. skipped' \in 0..MaxLost /\ lostSoFar' \in 0..MaxLost /\ skipped' <= lostSoFar'
  BY <1>1, LossConstants DEF LossInv, LoopTypes
<1>3. LoopTypes'
  BY <1>1, <1>2, AfterRange DEF LossInv, LoopTypes
<1>4. ASSUME expected # None, ~late PROVE skipped' = Gap(net)'
  <2>1. /\ expected \in Numbers /\ net \in Numbers
        /\ skipped = (net - expected) % SEQ
    BY <1>1, <1>4 DEF LossInv, LoopTypes, Counting, AtWork, Gap
  <2>2. ((net - expected) % SEQ) + 1 < SEQ
    BY <1>1, <1>2, <2>1, MaxLostBelow, LossConstants, PathConstantTypes
  <2>3. (After(net) - expected) % SEQ = skipped + 1
    BY <2>1, <2>2, WayOneFurther
  <2>4. QED BY <1>1, <1>4, <2>3 DEF Gap
<1>5. Counting' /\ Following' /\ Concealing'
  BY <1>1, <1>4 DEF LossInv, Counting, Following, Concealing, AtWork
<1>6. QED BY <1>2, <1>3, <1>5 DEF LossInv

\* A packet that makes no audio: the loop waits for the number after it.
LEMMA DoneAtOnce ==
  ASSUME LossInv, step = "poll", NEW s \in Numbers, Pause(s) \/ EmptyPayload(s),
         net' \in Numbers, pcm' = pcm, made' = made,
         skipped' \in 0..MaxLost, late' \in BOOLEAN, lostSoFar' = lostSoFar,
         lateSoFar' \in 0..MaxLate, skipped' <= lostSoFar',
         late' \/ (net' = After(s) /\ skipped' = 0)
  PROVE  LossInv'
<1>1. /\ step' = "poll" /\ expected' = After(s) /\ seq' = 0 /\ gap' = 0 /\ plc' = 0
      /\ claimed' \in BOOLEAN /\ active' \in {"track", "pcm", None}
  BY DEF Pause, EmptyPayload, Done, LossInv, LoopTypes
<1>2. After(s) \in Numbers
  BY AfterRange
<1>3. 0 \in Numbers /\ 0 \in 0..MAX_PLC
  BY ZeroIsNumber, LossConstants
<1>4. LoopTypes'
  BY <1>1, <1>2, <1>3 DEF LossInv, LoopTypes
<1>5. ~late' => skipped' = Gap(net)'
  BY <1>1, <1>2, NoWay DEF Gap
<1>6. made = 0
  BY DEF LossInv, Counting, AtWork
<1>7. Counting' /\ Following' /\ Concealing'
  BY <1>1, <1>5, <1>6 DEF Counting, Following, Concealing, AtWork
<1>8. QED BY <1>4, <1>7 DEF LossInv

\* A packet with audio: the loop knows its gap.
LEMMA AudioStarts ==
  ASSUME LossInv, step = "poll", NEW s \in Numbers, Audio(s),
         net' \in Numbers, pcm' = pcm, made' = made, skipped' = skipped,
         late' \in BOOLEAN, lostSoFar' = lostSoFar, lateSoFar' \in 0..MaxLate,
         late' \/ (~late /\ s = net /\ net' = After(s))
  PROVE  LossInv'
<1>1. /\ seq' = s /\ gap' = Gap(s) /\ UNCHANGED <<expected, plc>>
      /\ step' \in {"note", "resync", "play"}
      /\ step' = "note" => Concealed(Gap(s))
      /\ claimed' \in BOOLEAN /\ active' \in {"track", "pcm", None}
  BY DEF Audio
<1>2. Gap(s) \in Numbers /\ made = 0 /\ plc = 0
  BY GapIsNumber DEF LossInv, Counting, AtWork
<1>3. LoopTypes'
  BY <1>1, <1>2 DEF LossInv, LoopTypes
<1>4. Following'
  BY <1>1 DEF LossInv, Counting, Following, AtWork
<1>5. Concealing'
  <2>1. 0 + 0 <= gap'
    BY <1>1, <1>2, PathConstantTypes DEF Numbers
  <2>2. expected' = None => gap' = 0
    BY <1>1 DEF Gap
  <2>3. QED BY <1>1, <1>2, <2>1, <2>2 DEF Concealing, Concealed
<1>6. Counting'
  BY <1>1 DEF Counting, AtWork
<1>7. QED BY <1>3, <1>4, <1>5, <1>6 DEF LossInv

LEMMA PacketArrivesStep == ASSUME LossInv, PacketArrives PROVE LossInv'
<1>1. /\ step = "poll" /\ net' = After(net) /\ net \in Numbers /\ net' \in Numbers
      /\ UNCHANGED <<pcm, made, lostSoFar, lateSoFar>>
      /\ late \in BOOLEAN /\ lateSoFar \in 0..MaxLate /\ skipped \in 0..MaxLost
      /\ skipped <= lostSoFar
  BY AfterRange DEF PacketArrives, LossInv, LoopTypes
<1>2. CASE (Pause(net) \/ EmptyPayload(net)) /\ InOrderDone
  <2>1. skipped' = 0 /\ late' = FALSE
    BY <1>2 DEF InOrderDone
  <2>2. 0 \in 0..MaxLost /\ 0 <= lostSoFar
    BY LossConstants DEF LossInv, LoopTypes
  <2>3. QED BY <1>1, <1>2, <2>1, <2>2, DoneAtOnce
<1>3. CASE Audio(net) /\ UNCHANGED <<skipped, late>>
  <2>1. late' = late /\ skipped' = skipped
    BY <1>3
  <2>2. late' \in BOOLEAN /\ (late' \/ (~late /\ net = net /\ net' = After(net)))
    BY <1>1, <2>1, Zenon
  <2>3. QED BY <1>1, <1>3, <2>1, <2>2, AudioStarts
<1>4. QED BY <1>2, <1>3 DEF PacketArrives

\* Late packets may be about any number; nothing is promised until a packet is in order again.
LEMMA LatePacketStep == ASSUME LossInv, LatePacket PROVE LossInv'
<1>1. /\ step = "poll" /\ late' = TRUE /\ lateSoFar' \in 0..MaxLate
      /\ UNCHANGED <<pcm, made, net, skipped, lostSoFar>>
      /\ net \in Numbers /\ skipped \in 0..MaxLost /\ skipped <= lostSoFar
  BY LossConstants DEF LatePacket, LossInv, LoopTypes
<1>2. PICK back \in {1, 2} :
        LET s == (net - back) % SEQ IN Pause(s) \/ EmptyPayload(s) \/ Audio(s)
  BY DEF LatePacket
<1>. DEFINE s == (net - back) % SEQ
<1>3. s \in Numbers
  <2>1. net - back \in Int
    BY <1>1, PathConstantTypes DEF Numbers
  <2>2. QED BY <2>1, IntMod, PathConstantTypes, Zenon DEF Numbers
<1>4. Pause(s) \/ EmptyPayload(s) \/ Audio(s)
  BY <1>2
<1>. HIDE DEF s
<1>5. QED BY <1>1, <1>3, <1>4, DoneAtOnce, AudioStarts

LEMMA NotedStep == ASSUME LossInv, Noted \/ ResyncNoted PROVE LossInv'
<1>1. /\ step \in {"note", "resync"} /\ step' = IF step = "note" THEN "fec" ELSE "play"
      /\ UNCHANGED <<expected, claimed, seq, gap, plc, active, pcm, made>>
      /\ UNCHANGED <<net, skipped, late, lostSoFar, lateSoFar>>
  BY DEF Noted, ResyncNoted, netVars
<1>2. LoopTypes'
  BY <1>1 DEF LossInv, LoopTypes
<1>3. Counting' /\ Following' /\ Concealing'
  BY <1>1 DEF LossInv, Counting, Following, Concealing, Concealed, AtWork, After
<1>4. QED BY <1>1, <1>2, <1>3 DEF LossInv

\* After FEC there is at most one frame for every packet of the gap.
LEMMA PlcFits ==
  ASSUME LossInv, step = "fec", NEW ok \in BOOLEAN
  PROVE  /\ PlcNeeded(ok) \in 0..MAX_PLC
         /\ (IF ok THEN 1 ELSE 0) + PlcNeeded(ok) <= gap
<1>1. gap \in Nat /\ 1 <= gap
  BY PathConstantTypes DEF LossInv, LoopTypes, Concealing, Concealed, Numbers
<1>2. CASE ok
  BY <1>1, <1>2, LossConstants DEF PlcNeeded, AtMost
<1>3. CASE ~ok
  BY <1>1, <1>3, LossConstants DEF PlcNeeded, AtMost
<1>4. QED BY <1>2, <1>3

LEMMA FecStep == ASSUME LossInv, Fec PROVE LossInv'
<1>1. PICK ok \in BOOLEAN : Frame(ok) /\ plc' = PlcNeeded(ok)
  BY DEF Fec
<1>2. /\ step = "fec" /\ step' = IF plc' = 0 THEN "play" ELSE "plc"
      /\ UNCHANGED <<expected, claimed, seq, gap, active, pcm>>
      /\ UNCHANGED <<net, skipped, late, lostSoFar, lateSoFar>>
  BY DEF Fec, netVars
<1>3. made' = IF ok THEN 1 ELSE 0
  BY <1>1, <1>2 DEF Frame, LossInv, Concealing
<1>4. plc' \in 0..MAX_PLC /\ made' + plc' <= gap /\ made' \in Nat
  <2>1. plc' = PlcNeeded(ok) /\ PlcNeeded(ok) \in 0..MAX_PLC
    BY <1>1, <1>2, PlcFits
  <2>2. (IF ok THEN 1 ELSE 0) + PlcNeeded(ok) <= gap
    BY <1>2, PlcFits
  <2>3. QED BY <1>3, <2>1, <2>2
<1>5. plc' # 0 => plc' >= 1
  BY <1>4, LossConstants
<1>6. LoopTypes'
  BY <1>2, <1>4 DEF LossInv, LoopTypes
<1>7. Counting' /\ Following'
  BY <1>2 DEF LossInv, Counting, Following, AtWork, After
<1>8. Concealing'
  BY <1>2, <1>4, <1>5 DEF LossInv, Concealing, AtWork
<1>9. QED BY <1>2, <1>6, <1>7, <1>8 DEF LossInv

LEMMA PlcStep == ASSUME LossInv, Plc PROVE LossInv'
<1>1. PICK ok \in BOOLEAN : Frame(ok)
  BY DEF Plc
<1>2. /\ step = "plc" /\ plc' = plc - 1 /\ step' = IF plc' = 0 THEN "play" ELSE "plc"
      /\ UNCHANGED <<expected, claimed, seq, gap, active, pcm>>
      /\ UNCHANGED <<net, skipped, late, lostSoFar, lateSoFar>>
  BY DEF Plc, netVars
<1>3. made' \in {made, made + 1}
  BY <1>1 DEF Frame
<1>4. plc \in 0..MAX_PLC /\ plc >= 1 /\ made \in Nat /\ gap \in Nat /\ made + plc <= gap
  BY <1>2, PathConstantTypes DEF LossInv, LoopTypes, Concealing, AtWork, Numbers
<1>5. /\ plc' \in 0..MAX_PLC /\ made' \in Nat /\ made' + plc' <= gap
      /\ plc' # 0 => plc' >= 1
  <2>1. MAX_PLC \in Nat
    BY LossConstants
  <2>2. plc' = plc - 1 /\ (made' = made \/ made' = made + 1)
    BY <1>2, <1>3
  <2>3. plc' \in 0..MAX_PLC /\ (plc' # 0 => plc' >= 1)
    BY <1>4, <2>1, <2>2
  <2>4. made' \in Nat /\ made' + plc' <= gap
    BY <1>4, <2>2
  <2>5. QED BY <2>3, <2>4
<1>6. LoopTypes'
  BY <1>2, <1>5 DEF LossInv, LoopTypes
<1>7. Counting' /\ Following'
  BY <1>2 DEF LossInv, Counting, Following, AtWork, After
<1>8. Concealing'
  BY <1>2, <1>5 DEF LossInv, Concealing, AtWork
<1>9. QED BY <1>2, <1>6, <1>7, <1>8 DEF LossInv

\* Once the packet is played, the loop expects the number after it; in order, the sender's next.
LEMMA PacketDoneStep == ASSUME LossInv, PacketDone PROVE LossInv'
<1>1. /\ step = "play" /\ step' = "poll" /\ expected' = After(seq)
      /\ seq' = 0 /\ gap' = 0 /\ plc' = 0 /\ made' = 0
      /\ UNCHANGED <<claimed, active, pcm, net, lostSoFar, lateSoFar>>
  BY DEF PacketDone, Done
<1>2. IF After(seq) = net THEN skipped' = 0 /\ late' = FALSE ELSE UNCHANGED <<skipped, late>>
  BY DEF PacketDone, InOrderDone
<1>3. After(seq) \in Numbers /\ seq \in Numbers /\ net \in Numbers
  BY AfterRange DEF LossInv, LoopTypes
<1>4. 0 \in Numbers /\ 0 \in 0..MAX_PLC /\ 0 \in 0..MaxLost /\ 0 \in Nat
  BY ZeroIsNumber, LossConstants
<1>5. skipped' \in 0..MaxLost /\ late' \in BOOLEAN
  BY <1>2, <1>4, Zenon DEF LossInv, LoopTypes
<1>6. skipped' <= lostSoFar'
  BY <1>1, <1>2, LossConstants DEF LossInv, LoopTypes
<1>7. LoopTypes'
  BY <1>1, <1>3, <1>4, <1>5 DEF LossInv, LoopTypes
<1>8. ~late' => skipped' = Gap(net)'
  <2>1. CASE After(seq) = net
    BY <1>1, <1>2, <1>3, <2>1, NoWay DEF Gap
  <2>2. CASE After(seq) # net
    BY <1>1, <1>2, <2>2 DEF LossInv, Following, AtWork
  <2>3. QED BY <2>1, <2>2
<1>9. Counting' /\ Following' /\ Concealing'
  BY <1>1, <1>8 DEF Counting, Following, Concealing, AtWork
<1>10. QED BY <1>6, <1>7, <1>9 DEF LossInv

LEMMA TrackStep == ASSUME LossInv, TrackStarts \/ TrackEnds PROVE LossInv'
<1>1. CASE TrackStarts
  <2>1. /\ step = "new" /\ step' = "poll"
        /\ UNCHANGED <<expected, claimed, seq, gap, plc, active, pcm, made>>
        /\ UNCHANGED <<net, skipped, late, lostSoFar, lateSoFar>>
    BY <1>1 DEF TrackStarts, netVars
  <2>2. LoopTypes'
    BY <2>1 DEF LossInv, LoopTypes
  <2>3. Counting' /\ Following' /\ Concealing'
    BY <2>1 DEF LossInv, Counting, Following, Concealing, AtWork, Gap
  <2>4. QED BY <2>1, <2>2, <2>3 DEF LossInv
<1>2. CASE TrackEnds
  <2>1. /\ step = "poll" /\ step' = "new" /\ expected' = None /\ claimed' = FALSE
        /\ skipped' = 0 /\ late' = FALSE
        /\ UNCHANGED <<seq, gap, plc, pcm, made, net, lostSoFar, lateSoFar>>
        /\ active' \in {"track", "pcm", None}
    BY <1>2 DEF TrackEnds, LossInv, LoopTypes
  <2>2. 0 \in 0..MaxLost /\ 0 <= lostSoFar
    BY LossConstants DEF LossInv, LoopTypes
  <2>3. LoopTypes'
    BY <2>1, <2>2 DEF LossInv, LoopTypes
  <2>4. Counting' /\ Following' /\ Concealing'
    BY <2>1 DEF LossInv, Counting, Following, Concealing, AtWork
  <2>5. QED BY <2>1, <2>2, <2>3, <2>4 DEF LossInv
<1>3. QED BY <1>1, <1>2

LEMMA StepLossInv == ASSUME LossInv, [Next]_vars PROVE LossInv'
<1>1. CASE LoopStep
  BY <1>1, NotedStep, FecStep, PlcStep, PacketDoneStep DEF LoopStep, Play, DecodeError
<1>2. active \in {"track", "pcm", None} /\ pcm \in BOOLEAN
  BY DEF LossInv, LoopTypes
<1>3. CASE PcmBlock \/ PcmEnds
  <2>1. UNCHANGED <<loopVars, made, netVars>>
    BY <1>3 DEF PcmBlock, PcmEnds
  <2>2. active' \in {"track", "pcm", None} /\ pcm' \in BOOLEAN
    BY <1>2, <1>3 DEF PcmBlock, PcmEnds
  <2>3. QED BY <2>1, <2>2, LoopUntouched
<1>4. CASE Callback \/ UNCHANGED vars
  <2>1. UNCHANGED <<loopVars, made, netVars>> /\ active' = active /\ pcm' = pcm
    BY <1>4 DEF Callback, vars
  <2>2. QED BY <1>2, <2>1, LoopUntouched
<1>5. QED
  BY <1>1, <1>3, <1>4, PacketLostStep, PacketArrivesStep, LatePacketStep, TrackStep DEF Next

\* Types, bounds of the buffer and the counting of losses hold together in every state.
LEMMA Inductive == Spec => []IInv
<1>1. Init => IInv
  BY BufferInitInv, InitLossInv DEF Init, IInv
<1>2. IInv /\ [Next]_vars => IInv'
  <2> SUFFICES ASSUME IInv, [Next]_vars PROVE IInv'
    OBVIOUS
  <2>1. LossInv'
    BY StepLossInv DEF IInv
  <2>2. LoopInv
    BY PathConstantTypes DEF IInv, LossInv, LoopTypes, LoopInv, Numbers
  <2>3. [BufferNext]_buffer
    BY <2>2, PathStep
  <2>4. QED BY <2>1, <2>3, BufferStep DEF IInv
<1>3. QED BY <1>1, <1>2, PTL DEF Spec

\* In a stream in order the gap in front of a packet is exactly what the network lost, whatever
\* the size of the sequence numbers, across their wrap and across a pause in which another source
\* played (webrtc_rx.rs:99-100, 123-126).
THEOREM AlwaysCounted == Spec => []LossIsCounted
<1>1. IInv => LossIsCounted
  <2> SUFFICES ASSUME IInv PROVE LossIsCounted
    OBVIOUS
  <2>1. TypeOK
    BY DEF IInv, BufferInv, LossInv, LoopTypes, TypeOK
  <2>2. step \notin {"new", "poll"} /\ expected # None /\ ~late => gap = skipped
    BY DEF IInv, LossInv, Following, AtWork
  <2>3. QED BY <2>1, <2>2 DEF LossIsCounted
<1>2. QED BY <1>1, Inductive, PTL

\* Concealment never makes more audio than the network lost, for any gap, any limit on the
\* concealment frames and whatever the decoder manages (webrtc_rx.rs:78-79, audio.rs:15).
THEOREM NeverExtraAudio == Spec => []NoExtraAudio
<1>1. IInv => NoExtraAudio
  <2> SUFFICES ASSUME IInv, ~late PROVE made <= skipped
    BY DEF NoExtraAudio
  <2>1. /\ made \in Nat /\ plc \in 0..MAX_PLC /\ gap \in Nat /\ skipped \in Nat
        /\ MAX_PLC \in Nat
    BY LossConstants, PathConstantTypes DEF IInv, LossInv, LoopTypes, Numbers
  <2>2. CASE ~AtWork
    BY <2>1, <2>2 DEF IInv, LossInv, Counting
  <2>3. CASE AtWork
    <3>1. made + plc <= gap /\ (expected = None => gap = 0) /\ (expected # None => gap = skipped)
      BY <2>3 DEF IInv, LossInv, Following, Concealing
    <3>2. QED BY <2>1, <3>1
  <2>4. QED BY <2>2, <2>3
<1>2. QED BY <1>1, Inductive, PTL
=============================================================================
