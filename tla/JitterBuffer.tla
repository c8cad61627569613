----------------------------- MODULE JitterBuffer -----------------------------
(***************************************************************************)
(* The jitter buffer (src/src/audio.rs JitterBuffer).  Network tasks push  *)
(* blocks and report losses, the audio callback pulls; every call runs     *)
(* under the mutex of the buffer and is one action here.  Samples are      *)
(* durations in ms; the drift control, which stretches a block by at most  *)
(* half a percent, is left out.  Times are rounded down to whole ms.       *)
(***************************************************************************)
EXTENDS Integers

CONSTANTS
  BaseMs,        \* --target-ms
  MaxMs,         \* --max-ms
  TARGET_MAX_MS, \* upper bound of the adaptive target
  CHUNK,         \* one resampler block
  CALM_AFTER,    \* quiet time before the target shrinks, in ticks of the clock
  MaxUnderruns   \* BOUND: underruns of a behaviour

ASSUME ConstantsOK ==
  /\ {BaseMs, CHUNK, CALM_AFTER} \subseteq Nat \ {0}
  /\ {MaxMs, TARGET_MAX_MS, MaxUnderruns} \subseteq Nat

VARIABLES
  inputRate,    \* rate of the samples in `pending`
  pending,      \* ms waiting for a full resampler block
  queue,        \* ms ready to be played
  target,       \* target_ms
  primed,
  quiet,        \* ticks since last_trouble (CALM_AFTER: long ago or never)
  unshrunk,     \* ticks since last_shrink
  tail,         \* last_underrun: the target before it, 0 if none or a block came since
  underruns,    \* stats.underruns
  dried         \* ghost: underruns that a later block showed to be gaps in a stream

buffer == <<inputRate, pending, queue, target, primed, quiet, unshrunk, tail, underruns, dried>>

AtMost(a, b) == IF a < b THEN a ELSE b
AtLeast(a, b) == IF a > b THEN a ELSE b

\* The input rate at the start, which is the rate of every decoded track.
TRACK_RATE == 48000

\* TARGET_MAX_MS.max(base_target_ms)
TargetCap == AtLeast(TARGET_MAX_MS, BaseMs)

BufferTypeOK ==
  /\ inputRate \in Nat
  /\ pending \in Nat /\ queue \in Nat /\ target \in Nat
  /\ primed \in BOOLEAN
  /\ quiet \in 0..CALM_AFTER /\ unshrunk \in 0..CALM_AFTER
  /\ tail \in Nat /\ underruns \in Nat /\ dried \in Nat

BufferInit ==
  /\ inputRate = TRACK_RATE /\ pending = 0 /\ queue = 0
  /\ target = BaseMs /\ primed = FALSE
  /\ quiet = CALM_AFTER /\ unshrunk = 0
  /\ tail = 0 /\ underruns = 0 /\ dried = 0

(***************************************************************************)
(* The network side                                                        *)
(***************************************************************************)
\* grow_target
GrowBy(add) ==
  /\ target' = AtMost(target + add, TargetCap)
  /\ quiet' = 0
  /\ unshrunk' = 0

NoteLoss(packets) ==
  /\ GrowBy(10 * AtMost(packets, 3))
  /\ UNCHANGED <<inputRate, pending, queue, primed, tail, underruns, dried>>

\* Both the last trouble and the last shrink are long ago.
ShrinkDue == target > BaseMs /\ quiet = CALM_AFTER /\ unshrunk = CALM_AFTER

\* Mutant of Shrunk: the target stays where it is.
Shrunk_Forgotten == target

Shrunk == AtLeast((target * 4) \div 5, BaseMs)

\* Mutant of Kept: the newest audio is dropped only after a whole block too much.
Kept_BlockLate(ms) == AtMost(ms, MaxMs + CHUNK)

\* Above max_ms the oldest samples go.
Kept(ms) == AtMost(ms, MaxMs)

\* The queue has reached the target.
Enough(ms) == ms >= target'

\* push_i16 of a block of ms after `waiting` ms in `pending`: the target may shrink, full
\* blocks move to the queue, the oldest audio is dropped, and the buffer may be primed.
PushAfter(waiting, ms) ==
  LET filled == waiting + ms IN
  /\ target' = IF ShrinkDue THEN Shrunk ELSE target
  /\ unshrunk' = IF ShrinkDue THEN 0 ELSE unshrunk
  /\ pending' = filled % CHUNK
  /\ queue' = Kept(queue + filled - pending')
  /\ primed' = (primed \/ Enough(queue'))
  /\ tail' = 0
  /\ dried' = IF tail # 0 THEN dried + 1 ELSE dried
  /\ UNCHANGED <<quiet, underruns>>

PushI16(ms) == PushAfter(pending, ms) /\ UNCHANGED inputRate

\* A new rate drops the partial block and rebuilds the resampler.  The callers' rates need no clamp.
Waiting(rate) == IF rate = inputRate THEN pending ELSE 0

SetInputRate(rate) ==
  /\ inputRate' = rate
  /\ pending' = Waiting(rate)
  /\ UNCHANGED <<queue, target, primed, quiet, unshrunk, tail, underruns, dried>>

\* handle_ws sets the rate and pushes under one lock.
PushAtRate(rate, ms) == PushAfter(Waiting(rate), ms) /\ inputRate' = rate

\* Mutant of Forgiven: a gap in the stream is taken back, too.
Forgiven_Always == underruns > 0

\* The last underrun came after the last block: the source had simply ended.
Forgiven == tail # 0

SourceDisconnected ==
  /\ IF Forgiven
       THEN /\ underruns' = underruns - 1
            /\ target' = tail
            /\ quiet' = CALM_AFTER
       ELSE UNCHANGED <<underruns, target, quiet>>
  /\ tail' = 0
  /\ queue' = 0 /\ pending' = 0 /\ primed' = FALSE
  /\ UNCHANGED <<inputRate, unshrunk, dried>>

(***************************************************************************)
(* The audio callback                                                      *)
(***************************************************************************)
\* Until the buffer is primed the callback plays silence and changes nothing.
PullAudio(ms) ==
  /\ primed
  /\ queue >= ms
  /\ queue' = queue - ms
  /\ UNCHANGED <<inputRate, pending, target, primed, quiet, unshrunk, tail, underruns, dried>>

\* The buffer ran dry in this callback: prime again, with more headroom.
Underrun(ms) ==
  /\ primed
  /\ queue < ms
  /\ underruns < MaxUnderruns
  /\ queue' = 0
  /\ primed' = FALSE
  /\ underruns' = underruns + 1
  /\ tail' = target
  /\ GrowBy(AtLeast(target \div 2, 10))
  /\ UNCHANGED <<inputRate, pending, dried>>

Pull(ms) == PullAudio(ms) \/ Underrun(ms)

\* Time passes.
Tick ==
  /\ <<quiet, unshrunk>> # <<CALM_AFTER, CALM_AFTER>>
  /\ quiet' = AtMost(quiet + 1, CALM_AFTER)
  /\ unshrunk' = AtMost(unshrunk + 1, CALM_AFTER)
  /\ UNCHANGED <<inputRate, pending, queue, target, primed, tail, underruns, dried>>

\* Any sequence of calls, for callers of whatever kind.
BufferNext ==
  \/ \E rate, ms \in Nat : SetInputRate(rate) \/ PushAtRate(rate, ms) \/ PushI16(ms)
  \/ \E n \in Nat : NoteLoss(n) \/ Pull(n)
  \/ SourceDisconnected
  \/ Tick

BufferSpec == BufferInit /\ [][BufferNext]_buffer

(***************************************************************************)
(* Properties                                                              *)
(***************************************************************************)

\* Latency and headroom stay bounded whatever is pushed, lost, pulled or taken back: at most
\* max_ms and one partial block wait, and the target never leaves the range between the
\* configured target and the upper bound (audio.rs:15, 17-18).
Bounded ==
  /\ queue <= MaxMs /\ pending < CHUNK
  /\ BaseMs <= target /\ target <= TargetCap
  /\ tail # 0 => BaseMs <= tail /\ tail <= target

\* Underruns are gaps in a stream: each one counted was followed by more audio, or is the one
\* after the last block, which is taken back if the source says goodbye (audio.rs:69-70, 120-121).
UnderrunsAreGaps == underruns = IF tail # 0 THEN dried + 1 ELSE dried
=============================================================================
