--------------------------- MODULE ReportingProofs ---------------------------
(***************************************************************************)
(* Proofs about Reporting for every size of the log and of its lines, any  *)
(* number of faults, and processes with a log, a tray, or both: the log    *)
(* stays within its bound and keeps its history, the tray thread sleeps    *)
(* over no update, and the icon turns yellow for losses only.              *)
(***************************************************************************)
EXTENDS Reporting, FiniteSetTheorems, SequenceTheorems, TLAPS

(***************************************************************************)
(* The longest line                                                        *)
(***************************************************************************)
Longer(n, S) == {m \in S : m > n}

\* Sets of numbers above a member shrink as the member grows, and a strictly shrinking chain of
\* finite sets ends: at the longest line.
LEMMA HasLongest ==
  ASSUME NEW N \in Nat, NEW S \in SUBSET (1..N), S # {}
  PROVE  \E n \in S : \A m \in S : m <= n
<1> DEFINE Chain == {Longer(n, S) : n \in S}
<1>1. IsFiniteSet(S)
  <2>1. IsFiniteSet(1..N) BY FS_Interval
  <2>2. QED BY <2>1, FS_Subset
<1>2. \A n \in S : Longer(n, S) \in FiniteSubsetsOf(S)
  BY <1>1, FS_Subset DEF Longer, FiniteSubsetsOf
<1>3. Chain \subseteq FiniteSubsetsOf(S) /\ Chain # {}
  BY <1>2
<1>4. PICK t \in Chain : \A u \in Chain : ~(<<u, t>> \in StrictSubsetOrdering(S))
  <2> HIDE DEF Chain
  <2> QED BY <1>1, <1>3, FS_StrictSubsetOrderingWellFounded, WFMin
<1>5. PICK n \in S : t = Longer(n, S) BY <1>4
<1>6. ASSUME NEW m \in S, ~(m <= n) PROVE FALSE
  <2>1. m \in Int /\ n \in Int /\ m > n /\ S \subseteq Int BY <1>6
  <2>2. m \in Longer(n, S) /\ m \notin Longer(m, S) /\ Longer(m, S) \subseteq Longer(n, S)
    <3>1. \A k \in S : k > m => k > n BY <2>1
    <3>2. ~(m > m) BY <2>1
    <3>3. QED BY <2>1, <3>1, <3>2 DEF Longer
  <2>3. Longer(m, S) \in SUBSET S /\ Longer(n, S) \in SUBSET S
    BY DEF Longer
  <2>4. <<Longer(m, S), Longer(n, S)>> \in StrictSubsetOrdering(S)
    BY <2>2, <2>3 DEF StrictSubsetOrdering
  <2>5. Longer(m, S) \in Chain OBVIOUS
  <2>6. QED BY <2>4, <2>5, <1>4, <1>5
<1>7. QED BY <1>6

LEMMA Sizes ==
  /\ MaxBytes \in Nat /\ MaxBytes >= 1 /\ MaxFaults \in Nat /\ LineSizes \subseteq 1..MaxBytes
  /\ Longest \in 1..MaxBytes /\ \A n \in LineSizes : n <= Longest
  /\ Worth \in 1..MaxBytes /\ Worth = MaxBytes + 1 - Longest
  /\ Cap \in Nat /\ Cap = 2 * MaxBytes
<1>1. \E n \in LineSizes : \A m \in LineSizes : m <= n
  BY LogConstants, HasLongest
<1>2. Longest \in LineSizes /\ \A m \in LineSizes : m <= Longest
  BY <1>1 DEF Longest
<1>3. QED BY <1>2, LogConstants DEF Worth, Cap

\* What a file may reach when the size could not be read b times.
LEMMA Bounds ==
  /\ (1 + 0) * Cap = Cap
  /\ \A b \in Nat : /\ b * Cap \in Nat /\ (1 + b) * Cap \in Nat
                    /\ (1 + b) * Cap = b * Cap + Cap
                    /\ (1 + (b + 1)) * Cap = (1 + b) * Cap + Cap
                    /\ (b + 1) * Cap = b * Cap + Cap
<1> HIDE DEF Cap
<1>1. Cap \in Nat BY Sizes
<1>2. ASSUME NEW b \in Nat, NEW c \in Nat
      PROVE  /\ b * c \in Nat /\ (1 + b) * c \in Nat
             /\ (1 + b) * c = b * c + c
             /\ (1 + (b + 1)) * c = (1 + b) * c + c
             /\ (b + 1) * c = b * c + c
  OBVIOUS
<1>3. QED BY <1>1, <1>2

(***************************************************************************)
(* The log: its inductive invariant                                        *)
(***************************************************************************)

\* A size that cannot be read costs a fault.
BlindCounted == blind + faults <= MaxFaults

\* The writer knows the size of its file, but for what it could not read, except between opening the
\* file and reading its size; without a file it counts nothing.
SizeKnown ==
  /\ open => size # NoFile /\ step \in {"stat", "append", "ready"}
  /\ step = "stat" => open
  /\ open /\ step # "stat" => written <= size /\ size <= written + blind * Cap
  /\ step \in {"append", "ready"} /\ ~open => written = 0

\* A file that is about to be renamed is worth the history it replaces, and replaces none that is
\* still there.
Rotates ==
  /\ step \in {"measure", "remove", "rename"} /\ line # 0 => Bytes(size) >= Worth
  /\ step \in {"remove", "rename"} => Bytes(size) >= Worth
  /\ step = "rename" => old = NoFile
  /\ step = "append" => line # 0

LogInv == LogTypeOK /\ LogBounded /\ HistoryKept /\ BlindCounted /\ SizeKnown /\ Rotates

LEMMA LogStarts == LogInit => LogInv
<1> SUFFICES ASSUME LogInit PROVE LogInv
  OBVIOUS
<1>1. /\ blind = 0 /\ faults = MaxFaults /\ written = 0 /\ line = 0
      /\ step = "down" /\ lastAttempt = "none" /\ open = FALSE /\ heldByOther = FALSE
  BY DEF LogInit
<1>2. /\ size \in Int /\ old \in Int /\ size >= NoFile /\ old >= NoFile
      /\ Bytes(size) \in 0..Cap /\ Bytes(old) \in 0..Cap
  <2>1. MaxBytes \in Nat /\ MaxBytes >= 1 /\ Cap \in Nat /\ MaxBytes + 1 <= Cap /\ MaxBytes <= Cap
    BY Sizes
  <2>2. CASE size = NoFile /\ old = NoFile
    BY <2>1, <2>2 DEF NoFile, Bytes
  <2>3. CASE size \in {1, MaxBytes + 1} /\ old = MaxBytes
    BY <2>1, <2>3 DEF NoFile, Bytes
  <2>4. QED BY <2>2, <2>3 DEF LogInit
<1>3. kept \in 0..Worth /\ HistoryKept
  BY <1>2, Sizes DEF LogInit, Least, HistoryKept
<1>4. LogTypeOK
  <2>1. {heldByOther, open} \subseteq BOOLEAN
    BY <1>1
  <2>2. faults \in 0..MaxFaults /\ blind \in 0..MaxFaults /\ written \in Nat
    BY <1>1, Sizes
  <2>3. lastAttempt \in {"none", "recent", "due"} /\ step \in Steps /\ line \in LineSizes \cup {0}
    BY <1>1 DEF Steps
  <2>4. QED BY <1>2, <1>3, <2>1, <2>2, <2>3 DEF LogTypeOK
<1>5. LogBounded
  BY <1>1, <1>2, Bounds DEF LogBounded
<1>6. BlindCounted /\ SizeKnown /\ Rotates
  BY <1>1, Sizes DEF BlindCounted, SizeKnown, Rotates
<1>7. QED BY <1>3, <1>4, <1>5, <1>6 DEF LogInv

(***************************************************************************)
(* The log: the steps                                                      *)
(***************************************************************************)

\* What the invariant says of numbers, without the definitions that hide it.
LEMMA LogNumbers ==
  ASSUME LogInv
  PROVE  /\ size \in Int /\ old \in Int /\ size >= NoFile /\ old >= NoFile
         /\ Bytes(size) \in Nat /\ Bytes(old) \in Nat /\ kept \in 0..Worth
         /\ written \in Nat /\ blind \in Nat /\ faults \in Nat /\ blind + faults <= MaxFaults
         /\ line \in 0..MaxBytes /\ line <= Longest
         /\ size # NoFile => Bytes(size) = size
<1>1. line \in 0..MaxBytes /\ line <= Longest
  BY Sizes DEF LogInv, LogTypeOK
<1>2. QED BY <1>1, Sizes DEF LogInv, LogTypeOK, BlindCounted, Bytes, NoFile

\* A step that leaves the files as they are and knows no more of them than before.
LEMMA FilesSame ==
  ASSUME LogInv, UNCHANGED <<size, old, blind, kept>>,
         heldByOther' \in BOOLEAN, open' \in BOOLEAN, open' => open,
         written' \in Nat, lastAttempt' \in {"none", "recent", "due"},
         step' \in Steps, line' \in LineSizes \cup {0},
         faults' \in Nat, faults' <= faults,
         open' => step' \in {"stat", "append", "ready"},
         step' = "stat" => open' /\ step = "stat",
         open' /\ step' # "stat" => step # "stat" /\ written' = written,
         step' \in {"append", "ready"} /\ ~open' => written' = 0,
         step' = "append" => line' # 0,
         step' \in {"remove", "rename"} => Bytes(size) >= Worth,
         step' = "measure" /\ line' # 0 => Bytes(size) >= Worth,
         step' = "rename" => old = NoFile
  PROVE  LogInv'
<1>1. faults' \in 0..MaxFaults /\ blind' + faults' <= MaxFaults
  BY LogNumbers, Sizes
<1>2. LogTypeOK'
  BY <1>1 DEF LogInv, LogTypeOK
<1>3. LogBounded' /\ HistoryKept' /\ BlindCounted'
  BY <1>1 DEF LogInv, LogBounded, HistoryKept, BlindCounted
<1>4. SizeKnown' /\ Rotates'
  BY DEF LogInv, SizeKnown, Rotates
<1>5. QED BY <1>2, <1>3, <1>4 DEF LogInv

LEMMA LogIdles ==
  ASSUME LogInv,
         \/ UNCHANGED logVars
         \/ Fault /\ UNCHANGED <<disk, handle, step, line, blind, kept>>
         \/ OtherTakesLog \/ OtherLetsGo \/ RetryPasses
  PROVE  LogInv'
<1>1. /\ UNCHANGED <<size, old, open, written, step, line, blind, kept>>
      /\ faults' \in {faults, faults - 1} /\ (faults' # faults => faults > 0)
      /\ lastAttempt' \in {lastAttempt, "due"}
      /\ heldByOther' \in BOOLEAN
  BY DEF logVars, disk, handle, Fault, OtherTakesLog, OtherLetsGo, RetryPasses, LogInv, LogTypeOK
<1>2. faults' \in Nat /\ faults' <= faults
  BY <1>1, LogNumbers
<1>3. QED BY <1>1, <1>2, FilesSame DEF LogInv, LogTypeOK, SizeKnown, Rotates

LEMMA OpenLogSafe == ASSUME LogInv, OpenLog PROVE LogInv'
<1>1. /\ UNCHANGED <<size, old, heldByOther, open, written, lastAttempt, faults, blind, kept>>
      /\ step' = "measure" /\ line' = 0 /\ ~open
  BY DEF OpenLog, disk, handle, LogInv, SizeKnown
<1>2. faults' \in Nat /\ faults' <= faults
  BY <1>1, LogNumbers
<1>3. QED BY <1>1, <1>2, FilesSame DEF LogInv, LogTypeOK, Steps

LEMMA MeasureSafe == ASSUME LogInv, Measure PROVE LogInv'
<1>1. /\ UNCHANGED <<size, old, heldByOther, open, written, lastAttempt, line, blind, kept>>
      /\ step = "measure" /\ ~open
      /\ faults' \in {faults, faults - 1} /\ (faults' # faults => faults > 0)
  BY DEF Measure, disk, handle, LogInv, SizeKnown, Fault, NoFault
<1>2. faults' \in Nat /\ faults' <= faults
  BY <1>1, LogNumbers
<1>3. step' \in {"reopen", "remove", "rename"} /\ (step' = "rename" => old = NoFile)
  BY DEF Measure
<1>4. step' \in {"remove", "rename"} => Bytes(size) >= Worth
  <2>1. SUFFICES ASSUME step' \in {"remove", "rename"} PROVE Bytes(size) >= Worth
    OBVIOUS
  <2>2. ~(Bytes(size) <= Limit)
    BY <2>1 DEF Measure
  <2>3. CASE line = 0
    BY <2>2, <2>3, LogNumbers, Sizes DEF Limit
  <2>4. CASE line # 0
    BY <1>1, <2>4 DEF LogInv, Rotates
  <2>5. QED BY <2>3, <2>4
<1>5. QED BY <1>1, <1>2, <1>3, <1>4, FilesSame DEF LogInv, LogTypeOK, Steps

LEMMA WriteLineSafe == ASSUME LogInv, NEW n \in LineSizes, WriteLine(n) PROVE LogInv'
<1>1. /\ UNCHANGED <<size, old, heldByOther, written, faults, blind, kept>>
      /\ step = "ready" /\ line' = n
  BY DEF WriteLine, disk
<1>2. faults' \in Nat /\ faults' <= faults /\ n \in Nat /\ n # 0 /\ n <= Longest
  BY <1>1, LogNumbers, Sizes
<1>3. CASE Over(n) /\ MayRetry
  <2>1. lastAttempt' = "recent" /\ open' = FALSE /\ step' = "measure"
    BY <1>3 DEF WriteLine, BeginRotation
  <2>2. written + n > MaxBytes /\ written > 0
    BY <1>3 DEF Over
  <2>3. open /\ written <= size /\ Bytes(size) = size
    BY <1>1, <2>2, LogNumbers DEF LogInv, SizeKnown
  <2>4. Bytes(size) >= Worth
    BY <1>2, <2>2, <2>3, LogNumbers, Sizes
  <2>5. QED BY <1>1, <1>2, <2>1, <2>4, FilesSame DEF LogInv, LogTypeOK, Steps
<1>4. CASE ~(Over(n) /\ MayRetry)
  <2>1. UNCHANGED <<lastAttempt, open>> /\ step' = "append"
    BY <1>4 DEF WriteLine, BeginRotation
  <2>2. QED BY <1>1, <1>2, <2>1, FilesSame DEF LogInv, LogTypeOK, SizeKnown, Steps
<1>5. QED BY <1>3, <1>4

\* The end of the process, with or without a fault.
LEMMA LogClosesSafe ==
  ASSUME LogInv, LogCloses, faults' \in {faults, faults - 1}, faults' # faults => faults > 0
  PROVE  LogInv'
<1>1. /\ UNCHANGED <<size, old, heldByOther, blind, kept>>
      /\ open' = FALSE /\ written' = 0 /\ lastAttempt' = "none" /\ step' = "down" /\ line' = 0
  BY DEF LogCloses, disk
<1>2. faults' \in Nat /\ faults' <= faults
  BY LogNumbers
<1>3. QED BY <1>1, <1>2, FilesSame DEF LogInv, LogTypeOK, Steps

\* The file that goes is worth less than the one that takes its place.
LEMMA RemoveOldSafe == ASSUME LogInv, RemoveOld PROVE LogInv'
<1>1. /\ UNCHANGED <<size, heldByOther, open, written, lastAttempt, line, blind, kept>>
      /\ step = "remove" /\ ~open /\ Bytes(size) >= Worth
      /\ faults' \in {faults, faults - 1} /\ (faults' # faults => faults > 0)
  BY DEF RemoveOld, handle, LogInv, SizeKnown, Rotates, Fault, NoFault
<1>2. faults' \in Nat /\ faults' <= faults
  BY <1>1, LogNumbers
<1>3. CASE old' = NoFile /\ step' = "rename"
  <2>1. Bytes(old') = 0 /\ old' \in Int /\ old' >= NoFile
    BY <1>3 DEF Bytes, NoFile
  <2>2. faults' \in 0..MaxFaults /\ blind' + faults' <= MaxFaults
    BY <1>1, <1>2, LogNumbers, Sizes
  <2>3. LogTypeOK'
    BY <1>1, <1>3, <2>1, <2>2 DEF LogInv, LogTypeOK, Steps
  <2>4. LogBounded'
    BY <1>1, <2>1, LogNumbers, Bounds DEF LogInv, LogBounded
  <2>5. HistoryKept'
    BY <1>1, <2>1, LogNumbers, Sizes DEF HistoryKept
  <2>6. BlindCounted' /\ SizeKnown' /\ Rotates'
    BY <1>1, <1>3, <2>2 DEF BlindCounted, SizeKnown, Rotates
  <2>7. QED BY <2>3, <2>4, <2>5, <2>6 DEF LogInv
<1>4. CASE UNCHANGED old /\ step' = "reopen"
  BY <1>1, <1>2, <1>4, FilesSame DEF LogInv, LogTypeOK, Steps
<1>5. QED BY <1>3, <1>4 DEF RemoveOld

LEMMA RenameSafe == ASSUME LogInv, Rename PROVE LogInv'
<1>1. /\ UNCHANGED <<heldByOther, open, written, lastAttempt, line, faults, blind, kept>>
      /\ step = "rename" /\ ~open /\ step' = "reopen" /\ old = NoFile
  BY DEF Rename, handle, LogInv, SizeKnown, Rotates
<1>2. CASE UNCHANGED <<size, old>>
  <2>1. faults' \in Nat /\ faults' <= faults
    BY <1>1, LogNumbers
  <2>2. QED BY <1>1, <1>2, <2>1, FilesSame DEF LogInv, LogTypeOK, Steps
<1>3. CASE old' = size /\ size' = NoFile
  <2>1. Bytes(size') = 0 /\ Bytes(old) = 0 /\ Bytes(old') = Bytes(size)
    BY <1>1, <1>3 DEF Bytes
  <2>2. /\ old' \in Int /\ old' >= NoFile /\ size' \in Int /\ size' >= NoFile
    BY <1>3, LogNumbers DEF NoFile
  <2>3. LogTypeOK'
    BY <1>1, <2>2 DEF LogInv, LogTypeOK, Steps
  <2>4. LogBounded'
    BY <1>1, <2>1, LogNumbers, Bounds DEF LogInv, LogBounded
  <2>5. HistoryKept'
    BY <1>1, <2>1, LogNumbers DEF LogInv, HistoryKept
  <2>6. BlindCounted' /\ SizeKnown' /\ Rotates'
    BY <1>1 DEF LogInv, BlindCounted, SizeKnown, Rotates
  <2>7. QED BY <2>3, <2>4, <2>5, <2>6 DEF LogInv
<1>4. QED BY <1>2, <1>3 DEF Rename

LEMMA ReopenSafe == ASSUME LogInv, Reopen PROVE LogInv'
<1>1. /\ UNCHANGED <<old, heldByOther, line, blind, kept>>
      /\ step = "reopen" /\ ~open
  BY DEF Reopen, LogInv, SizeKnown
<1>2. CASE /\ NoFault /\ open' = TRUE /\ size' = Bytes(size) /\ step' = "stat"
           /\ UNCHANGED <<written, lastAttempt>>
  <2>1. /\ size' \in Nat /\ size' # NoFile /\ Bytes(size') = Bytes(size)
        /\ size' >= NoFile /\ faults' = faults
    <3>1. size' \in Nat BY <1>2, LogNumbers
    <3>2. size' # NoFile /\ size' >= NoFile BY <3>1 DEF NoFile
    <3>3. Bytes(size') = size' BY <3>2 DEF Bytes
    <3>4. faults' = faults BY <1>2 DEF NoFault
    <3>5. QED BY <1>2, <3>1, <3>2, <3>3, <3>4
  <2>2. LogTypeOK'
    BY <1>1, <1>2, <2>1 DEF LogInv, LogTypeOK, Steps
  <2>3. LogBounded' /\ HistoryKept' /\ BlindCounted'
    BY <1>1, <2>1 DEF LogInv, LogBounded, HistoryKept, BlindCounted
  <2>4. SizeKnown' /\ Rotates'
    BY <1>2, <2>1 DEF SizeKnown, Rotates
  <2>5. QED BY <2>2, <2>3, <2>4 DEF LogInv
<1>3. CASE /\ Fault /\ UNCHANGED <<open, size>>
           /\ written' = 0 /\ lastAttempt' = "none"
           /\ step' = IF line = 0 THEN "ready" ELSE "append"
  <2>1. faults' \in Nat /\ faults' <= faults
    BY <1>3, LogNumbers DEF Fault
  <2>2. step' \in {"ready", "append"} /\ (step' = "append" => line # 0)
    BY <1>3
  <2>3. QED BY <1>1, <1>3, <2>1, <2>2, FilesSame DEF LogInv, LogTypeOK, Steps
<1>4. QED BY <1>2, <1>3 DEF Reopen

\* The only step that loses count of the size, and the bound grows with it.
LEMMA StatSafe == ASSUME LogInv, Stat PROVE LogInv'
<1>1. /\ UNCHANGED <<size, old, heldByOther, open, line, kept>>
      /\ step = "stat" /\ open /\ size # NoFile /\ size \in Nat /\ Bytes(size) = size
  BY LogNumbers DEF Stat, disk, LogInv, SizeKnown, NoFile
<1>2. step' \in {"ready", "append"} /\ (step' = "append" => line # 0)
      /\ lastAttempt' \in {"none", "recent", "due"}
  BY DEF Stat, LogInv, LogTypeOK
<1>3. size <= (1 + blind) * Cap
  BY <1>1 DEF LogInv, LogBounded
<1>4. CASE NoFault /\ written' = size /\ UNCHANGED blind
  <2>1. faults' = faults /\ written' = size /\ blind' = blind
    BY <1>4 DEF NoFault
  <2>2. LogTypeOK'
    BY <1>1, <1>2, <2>1 DEF LogInv, LogTypeOK, Steps
  <2>3. LogBounded' /\ HistoryKept' /\ BlindCounted'
    BY <1>1, <2>1 DEF LogInv, LogBounded, HistoryKept, BlindCounted
  <2>4. written' <= size' /\ size' <= written' + blind' * Cap
    <3>1. blind * Cap \in Nat BY LogNumbers, Bounds
    <3>2. QED BY <1>1, <2>1, <3>1
  <2>5. SizeKnown' /\ Rotates'
    BY <1>1, <1>2, <2>4 DEF SizeKnown, Rotates
  <2>6. QED BY <2>2, <2>3, <2>5 DEF LogInv
<1>5. CASE Fault /\ written' = 0 /\ blind' = blind + 1
  <2>1. /\ faults' \in 0..MaxFaults /\ blind' \in 0..MaxFaults /\ blind' + faults' <= MaxFaults
    BY <1>5, LogNumbers, Sizes DEF Fault
  <2>2. LogTypeOK'
    BY <1>1, <1>2, <1>5, <2>1 DEF LogInv, LogTypeOK, Steps
  <2>3. (1 + blind') * Cap = (1 + blind) * Cap + Cap /\ (1 + blind) * Cap \in Nat /\ Cap \in Nat
        /\ blind' * Cap = (1 + blind) * Cap
    BY <1>5, LogNumbers, Bounds, Sizes
  <2>4. LogBounded'
    BY <1>1, <2>3, LogNumbers DEF LogInv, LogBounded
  <2>5. HistoryKept' /\ BlindCounted'
    BY <1>1, <2>1 DEF LogInv, HistoryKept, BlindCounted
  <2>6. written' <= size' /\ size' <= written' + blind' * Cap
    BY <1>1, <1>3, <1>5, <2>3
  <2>7. SizeKnown' /\ Rotates'
    BY <1>1, <1>2, <2>6 DEF SizeKnown, Rotates
  <2>8. QED BY <2>2, <2>4, <2>5, <2>7 DEF LogInv
<1>6. QED BY <1>4, <1>5 DEF Stat

LEMMA WriteOutSafe == ASSUME LogInv, WriteOut PROVE LogInv'
<1>1. /\ UNCHANGED <<old, heldByOther, open, lastAttempt, blind>>
      /\ step = "append" /\ line # 0 /\ step' = "ready" /\ line' = 0
      /\ faults' \in {faults, faults - 1} /\ (faults' # faults => faults > 0)
  BY DEF WriteOut, LogInv, Rotates, Fault, NoFault
<1>2. faults' \in Nat /\ faults' <= faults
  BY <1>1, LogNumbers
<1>3. CASE UNCHANGED <<size, written, kept>>
  BY <1>1, <1>2, <1>3, FilesSame DEF LogInv, LogTypeOK, SizeKnown, Steps
<1>4. CASE /\ ~Full(line)
           /\ size' = size + line /\ written' = written + line
           /\ kept' = Least(Worth, kept + line)
  <2>1. open /\ size # NoFile /\ written <= size /\ size <= written + blind * Cap
        /\ written + line <= Cap
    <3>1. open /\ written + line <= Cap
      BY <1>4, LogNumbers, Sizes DEF Full
    <3>2. QED BY <1>1, <3>1 DEF LogInv, SizeKnown
  <2>2. /\ line \in Nat /\ size \in Nat /\ Bytes(size) = size
        /\ size' \in Nat /\ Bytes(size') = size' /\ written' \in Nat
    BY <1>4, <2>1, LogNumbers DEF Bytes, NoFile
  <2>3. /\ blind * Cap \in Nat /\ (1 + blind) * Cap = blind * Cap + Cap
    BY LogNumbers, Bounds
  <2>4. kept' \in 0..Worth /\ kept' <= kept + line
    BY <1>4, <2>2, LogNumbers, Sizes DEF Least
  <2>5. LogTypeOK'
    <3>1. size' >= NoFile BY <2>2 DEF NoFile
    <3>2. faults' \in 0..MaxFaults BY <1>2, LogNumbers, Sizes
    <3>3. QED BY <1>1, <2>2, <2>4, <3>1, <3>2 DEF LogInv, LogTypeOK, Steps
  <2>6. LogBounded'
    <3>1. size' <= (1 + blind) * Cap
      BY <1>4, <2>1, <2>2, <2>3, LogNumbers, Sizes
    <3>2. QED BY <1>1, <2>2, <3>1 DEF LogInv, LogBounded
  <2>7. HistoryKept'
    BY <1>1, <1>4, <2>2, <2>4, LogNumbers DEF LogInv, HistoryKept
  <2>8. BlindCounted'
    BY <1>1, <1>2, LogNumbers, Sizes DEF BlindCounted
  <2>9. SizeKnown'
    <3>1. written' <= size' /\ size' <= written' + blind * Cap
      BY <1>4, <2>1, <2>2, <2>3, LogNumbers
    <3>2. size' # NoFile BY <2>2 DEF NoFile
    <3>3. QED BY <1>1, <2>1, <3>1, <3>2 DEF SizeKnown
  <2>10. Rotates'
    BY <1>1 DEF Rotates
  <2>11. QED BY <2>5, <2>6, <2>7, <2>8, <2>9, <2>10 DEF LogInv
<1>5. QED BY <1>3, <1>4 DEF WriteOut

(***************************************************************************)
(* The tray: its inductive invariant                                       *)
(***************************************************************************)
Updates == States \cup {Quit}

\* Nothing is sent before start() has returned a handle, and nothing is kept for a thread that has
\* ended.
NothingSent ==
  /\ thread \in {"none", "starting"} =>
       /\ queue = <<>> /\ wakes = 0 /\ setting = 0 /\ closing = 0
       /\ icon = Unset /\ last = Unset
  /\ thread = "gone" => queue = <<>>

Setting == setting \in 0..2 /\ (setting # 0 => last \in States)

Announcing == IF setting = 0 THEN 0 ELSE 1
UpdateSent == IF setting = 2 THEN 1 ELSE 0
QuitSent == IF closing = 2 THEN 1 ELSE 0
Closed == IF closing = 3 THEN 1 ELSE 0
Awake == IF thread = "draining" THEN 1 ELSE 0

\* No more than MaxUpdates changes of the status and the goodbye wake the thread.
WakesCounted == wakes + Announcing <= MaxUpdates + Closed

\* For every update in the channel a message is under way, its sender is about to post it, or the
\* thread is awake.
QueueCounted == Len(queue) <= wakes + UpdateSent + QuitSent + Awake

NoQuit == \A i \in 1..Len(queue) : queue[i] # Quit

\* The newest status is the last one in the channel, or on the icon already, unless it is about to
\* be sent or the tray is about to go.
NewestKept ==
  thread \in {"waiting", "draining"} /\ setting # 1 /\ NoQuit =>
    IF queue = <<>> THEN icon = last ELSE queue[Len(queue)] = last

TrayInv ==
  TrayTypeOK /\ NothingSent /\ Setting /\ WakesCounted /\ QueueCounted /\ NewestKept

LEMMA Ones ==
  /\ {Announcing, UpdateSent, QuitSent, Closed, Awake} \subseteq 0..1
  /\ {Announcing', UpdateSent', QuitSent', Closed', Awake'} \subseteq 0..1
  /\ (setting = 0 <=> Announcing = 0) /\ (setting' = 0 <=> Announcing' = 0)
  /\ (setting = 2 <=> UpdateSent = 1) /\ (setting' = 2 <=> UpdateSent' = 1)
  /\ (closing = 2 <=> QuitSent = 1) /\ (closing' = 2 <=> QuitSent' = 1)
  /\ (closing = 3 <=> Closed = 1) /\ (closing' = 3 <=> Closed' = 1)
  /\ (thread = "draining" <=> Awake = 1) /\ (thread' = "draining" <=> Awake' = 1)
BY DEF Announcing, UpdateSent, QuitSent, Closed, Awake

\* The thread never sleeps over an update.
LEMMA AwakeForUpdates == TrayInv => NoLostUpdate
<1> SUFFICES ASSUME TrayInv, thread = "waiting", wakes = 0, setting = 0, closing # 2
             PROVE  queue = <<>> /\ icon = last
  BY DEF NoLostUpdate
<1>1. queue \in Seq(Updates) /\ Len(queue) <= 0
  BY Ones DEF TrayInv, TrayTypeOK, QueueCounted, Updates
<1>2. queue = <<>>
  BY <1>1, EmptySeq
<1>3. NoQuit
  BY <1>2 DEF NoQuit
<1>4. QED BY <1>2, <1>3 DEF TrayInv, NewestKept

\* The numbers of the invariant bound those of the types.
LEMMA TrayBounds ==
  ASSUME thread' \in {"none", "starting", "waiting", "draining", "gone"},
         icon' \in States \cup {Unset}, last' \in States \cup {Unset},
         queue' \in Seq(Updates), wakes' \in Nat, closing' \in 0..3,
         NothingSent', Setting', WakesCounted', QueueCounted', NewestKept'
  PROVE  TrayInv'
<1>1. Len(queue') <= MaxUpdates + 2 /\ wakes' \in 0..MaxUpdates + 1
  BY Ones DEF Setting, WakesCounted, QueueCounted, MaxUpdates
<1>2. {setting', closing'} \subseteq 0..3 /\ {icon', last'} \subseteq States \cup {Unset}
  BY DEF Setting
<1>3. QED BY <1>1, <1>2 DEF TrayInv, TrayTypeOK, Updates

LEMMA TrayStarts == TrayInit => TrayInv
<1> SUFFICES ASSUME TrayInit PROVE TrayInv
  OBVIOUS
<1>1. /\ thread = "none" /\ icon = Unset /\ last = Unset /\ queue = <<>> /\ wakes = 0
      /\ setting = 0 /\ closing = 0
  BY DEF TrayInit
<1>2. Len(queue) = 0 /\ queue \in Seq(States \cup {Quit})
  BY <1>1, EmptySeq
<1>3. TrayTypeOK
  BY <1>1, <1>2 DEF TrayTypeOK, MaxUpdates
<1>4. WakesCounted /\ QueueCounted
  BY <1>1, <1>2, Ones DEF WakesCounted, QueueCounted, MaxUpdates
<1>5. NothingSent /\ Setting /\ NewestKept
  BY <1>1 DEF NothingSent, Setting, NewestKept
<1>6. QED BY <1>3, <1>4, <1>5 DEF TrayInv

\* A process that ends leaves no thread, no channel and no message.
LEMMA TrayEnds ==
  ASSUME thread' = "none", icon' = Unset, last' = Unset, queue' = <<>>, wakes' = 0,
         setting' = 0, closing' = 0
  PROVE  TrayInv'
<1>1. Len(queue') = 0 /\ queue' \in Seq(States \cup {Quit})
  BY EmptySeq
<1>2. TrayTypeOK'
  BY <1>1 DEF TrayTypeOK, MaxUpdates
<1>3. WakesCounted' /\ QueueCounted'
  BY <1>1, Ones DEF WakesCounted, QueueCounted, MaxUpdates
<1>4. NothingSent' /\ Setting' /\ NewestKept'
  BY DEF NothingSent, Setting, NewestKept
<1>5. QED BY <1>2, <1>3, <1>4 DEF TrayInv

(***************************************************************************)
(* The tray: the steps                                                     *)
(***************************************************************************)
LEMMA TrayNumbers ==
  ASSUME TrayInv
  PROVE  /\ queue \in Seq(Updates) /\ Len(queue) \in Nat /\ wakes \in Nat /\ MaxUpdates = 2
         /\ closing \in 0..3 /\ setting \in 0..2
         /\ thread \in {"none", "starting", "waiting", "draining", "gone"}
         /\ icon \in States \cup {Unset} /\ last \in States \cup {Unset}
         /\ queue # <<>> => Len(queue) > 0
<1>1. queue \in Seq(Updates)
  BY DEF TrayInv, TrayTypeOK, Updates
<1>2. Len(queue) \in Nat /\ (queue # <<>> => Len(queue) > 0)
  BY <1>1, EmptySeq, LenProperties
<1>3. QED BY <1>1, <1>2 DEF TrayInv, TrayTypeOK, Setting, MaxUpdates

LEMMA TrayStartSafe == ASSUME TrayInv, TrayStart \/ TrayReady PROVE TrayInv'
<1>1. /\ UNCHANGED <<icon, last, queue, wakes, setting, closing>>
      /\ thread \in {"none", "starting"} /\ thread' \in {"starting", "waiting", "gone"}
  BY DEF TrayStart, TrayReady
<1>2. /\ queue' = <<>> /\ Len(queue') = 0 /\ wakes' = 0 /\ setting' = 0 /\ closing' = 0
      /\ icon' = Unset /\ last' = Unset
  BY <1>1, EmptySeq DEF TrayInv, NothingSent
<1>3. WakesCounted' /\ QueueCounted'
  BY <1>2, Ones DEF WakesCounted, QueueCounted, MaxUpdates
<1>4. NothingSent' /\ Setting' /\ NewestKept'
  BY <1>2 DEF NothingSent, Setting, NewestKept
<1>5. TrayTypeOK'
  <2>1. queue' \in Seq(States \cup {Quit}) BY <1>2, EmptySeq
  <2>2. QED BY <1>1, <1>2, <2>1 DEF TrayTypeOK, MaxUpdates
<1>6. QED BY <1>3, <1>4, <1>5 DEF TrayInv

LEMMA SetStateSafe == ASSUME TrayInv, NEW s \in States, SetState(s),
                             thread \notin {"none", "starting"}
                      PROVE  TrayInv'
<1>1. setting = 0 /\ wakes < 2 /\ UNCHANGED <<thread, icon, queue, wakes, closing>>
  BY DEF SetState, MaxUpdates
<1>2. CASE UNCHANGED <<last, setting>>
  BY <1>1, <1>2, Ones DEF TrayInv, TrayTypeOK, NothingSent, Setting, WakesCounted, QueueCounted,
     NewestKept, NoQuit
<1>3. CASE last' = s /\ setting' = 1
  <2>1. WakesCounted' /\ QueueCounted'
    <3>1. wakes' \in 0..1
      BY <1>1, TrayNumbers
    <3>2. WakesCounted'
      BY <3>1, Ones DEF WakesCounted, MaxUpdates
    <3>3. QueueCounted'
      BY <1>1, <1>3, Ones DEF TrayInv, QueueCounted
    <3>4. QED BY <3>2, <3>3
  <2>2. NothingSent' /\ Setting' /\ NewestKept'
    BY <1>1, <1>3 DEF TrayInv, NothingSent, Setting, NewestKept
  <2>3. TrayTypeOK'
    BY <1>1, <1>3 DEF TrayInv, TrayTypeOK
  <2>4. QED BY <2>1, <2>2, <2>3 DEF TrayInv
<1>4. QED BY <1>2, <1>3 DEF SetState

\* One update more, and its sender about to wake the thread.
LEMMA Sent ==
  ASSUME TrayInv, NEW u \in Updates, queue' = Append(queue, u),
         thread \in {"waiting", "draining"}
  PROVE  /\ queue' \in Seq(Updates) /\ Len(queue') = Len(queue) + 1 /\ queue' # <<>>
         /\ queue'[Len(queue')] = u
         /\ NoQuit' => NoQuit /\ u # Quit
<1>1. queue \in Seq(Updates) /\ Len(queue) \in Nat
  BY TrayNumbers
<1>2. /\ queue' \in Seq(Updates) /\ Len(queue') = Len(queue) + 1 /\ queue' # <<>>
      /\ \A i \in 1..Len(queue) : queue'[i] = queue[i]
      /\ queue'[Len(queue) + 1] = u
  BY <1>1, AppendProperties
<1>3. \A i \in 1..Len(queue) : i \in 1..Len(queue')
  BY <1>1, <1>2
<1>4. Len(queue') \in 1..Len(queue')
  BY <1>1, <1>2
<1>5. QED BY <1>2, <1>3, <1>4 DEF NoQuit

LEMMA UpdateSafe == ASSUME TrayInv, Update PROVE TrayInv'
<1>1. /\ setting \in 1..2 /\ last \in States /\ UNCHANGED <<thread, icon, last, closing>>
      /\ setting = 1 => setting' = 2
      /\ setting = 2 => setting' = 0
      /\ thread \in {"waiting", "draining", "gone"} /\ setting' # 1
  <2>1. setting \in 1..2 /\ setting' = (setting + 1) % 3
    BY DEF Update
  <2>2. (1 + 1) % 3 = 2 /\ (2 + 1) % 3 = 0
    OBVIOUS
  <2>3. QED BY <2>1, <2>2, TrayNumbers DEF Update, TrayInv, Setting, NothingSent
<1>2. CASE thread = "gone"
  <2>1. UNCHANGED <<queue, wakes>> /\ queue = <<>> /\ Len(queue) = 0
    BY <1>2, EmptySeq DEF Update, Deliver, TrayInv, NothingSent
  <2>2. WakesCounted' /\ QueueCounted'
    <3>1. WakesCounted'
      BY <1>1, <2>1, TrayNumbers, Ones DEF TrayInv, WakesCounted
    <3>2. QueueCounted'
      BY <1>1, <1>2, <2>1, TrayNumbers, Ones DEF QueueCounted
    <3>3. QED BY <3>1, <3>2
  <2>3. NothingSent' /\ Setting' /\ NewestKept'
    BY <1>1, <1>2, <2>1 DEF TrayInv, NothingSent, Setting, NewestKept
  <2>4. QED BY <1>1, <2>1, <2>2, <2>3, TrayNumbers, TrayBounds
<1>3. CASE thread \in {"waiting", "draining"} /\ setting = 1
  <2>1. queue' = Append(queue, last) /\ wakes' = wakes /\ setting' = 2
    BY <1>1, <1>3 DEF Update, Deliver, HandOver
  <2>2. last \in Updates
    BY <1>1 DEF Updates
  <2>3. /\ queue' \in Seq(Updates) /\ Len(queue') = Len(queue) + 1 /\ queue' # <<>>
        /\ queue'[Len(queue')] = last
    BY <1>3, <2>1, <2>2, Sent
  <2>4. WakesCounted'
    BY <1>1, <1>3, <2>1, Ones DEF TrayInv, WakesCounted
  <2>5. QueueCounted'
    BY <1>1, <1>3, <2>1, <2>3, TrayNumbers, Ones DEF TrayInv, QueueCounted
  <2>6. NothingSent' /\ Setting' /\ NewestKept'
    BY <1>1, <1>3, <2>1, <2>3 DEF NothingSent, Setting, NewestKept
  <2>7. QED BY <1>1, <2>1, <2>3, <2>4, <2>5, <2>6, TrayNumbers, TrayBounds
<1>4. CASE thread \in {"waiting", "draining"} /\ setting = 2
  <2>1. queue' = queue /\ wakes' = wakes + 1 /\ setting' = 0
    BY <1>1, <1>4 DEF Update, Deliver, HandOver
  <2>2. WakesCounted'
    BY <1>1, <1>4, <2>1, TrayNumbers, Ones DEF TrayInv, WakesCounted
  <2>3. QueueCounted'
    BY <1>1, <1>4, <2>1, TrayNumbers, Ones DEF TrayInv, QueueCounted
  <2>4. NothingSent' /\ Setting'
    BY <1>1, <1>4, <2>1 DEF NothingSent, Setting
  <2>5. NewestKept'
    BY <1>1, <1>4, <2>1 DEF TrayInv, NewestKept, NoQuit
  <2>6. QED BY <1>1, <2>1, <2>2, <2>3, <2>4, <2>5, TrayNumbers, TrayBounds
<1>5. QED BY <1>1, <1>2, <1>3, <1>4

LEMMA CloseTraySafe == ASSUME TrayInv, CloseTray PROVE TrayInv'
<1>1. /\ closing \in 1..2 /\ closing' = closing + 1 /\ UNCHANGED <<thread, icon, last, setting>>
      /\ thread \in {"waiting", "draining", "gone"}
  BY TrayNumbers DEF CloseTray, TrayInv, NothingSent
<1>2. CASE thread = "gone"
  <2>1. UNCHANGED <<queue, wakes>> /\ queue = <<>> /\ Len(queue) = 0
    BY <1>2, EmptySeq DEF CloseTray, Deliver, TrayInv, NothingSent
  <2>2. WakesCounted' /\ QueueCounted'
    BY <1>1, <1>2, <2>1, TrayNumbers, Ones DEF TrayInv, WakesCounted, QueueCounted
  <2>3. NothingSent' /\ Setting' /\ NewestKept'
    BY <1>1, <1>2, <2>1 DEF TrayInv, NothingSent, Setting, NewestKept
  <2>4. QED BY <1>1, <2>1, <2>2, <2>3, TrayNumbers, TrayBounds
<1>3. CASE thread \in {"waiting", "draining"} /\ closing = 1
  <2>1. queue' = Append(queue, Quit) /\ wakes' = wakes /\ closing' = 2 /\ Quit \in Updates
    BY <1>1, <1>3 DEF CloseTray, Deliver, HandOver, Updates
  <2>2. /\ queue' \in Seq(Updates) /\ Len(queue') = Len(queue) + 1 /\ queue' # <<>>
        /\ ~NoQuit'
    BY <1>3, <2>1, Sent
  <2>3. WakesCounted' /\ QueueCounted'
    BY <1>1, <1>3, <2>1, <2>2, TrayNumbers, Ones DEF TrayInv, WakesCounted, QueueCounted
  <2>4. NothingSent' /\ Setting' /\ NewestKept'
    BY <1>1, <1>3, <2>1, <2>2 DEF TrayInv, NothingSent, Setting, NewestKept
  <2>5. QED BY <1>1, <2>1, <2>2, <2>3, <2>4, TrayNumbers, TrayBounds
<1>4. CASE thread \in {"waiting", "draining"} /\ closing = 2
  <2>1. queue' = queue /\ wakes' = wakes + 1 /\ closing' = 3
    BY <1>1, <1>4 DEF CloseTray, Deliver, HandOver
  <2>2. WakesCounted' /\ QueueCounted'
    BY <1>1, <1>4, <2>1, TrayNumbers, Ones DEF TrayInv, WakesCounted, QueueCounted
  <2>3. NothingSent' /\ Setting' /\ NewestKept'
    BY <1>1, <1>4, <2>1 DEF TrayInv, NothingSent, Setting, NewestKept, NoQuit
  <2>4. QED BY <1>1, <2>1, <2>2, <2>3, TrayNumbers, TrayBounds
<1>5. QED BY <1>1, <1>2, <1>3, <1>4

LEMMA TrayShutdownSafe == ASSUME TrayInv, HasHandle, TrayShutdown PROVE TrayInv'
<1>1. /\ closing = 0 /\ closing' = 1 /\ UNCHANGED <<thread, icon, last, queue, wakes, setting>>
      /\ thread \in {"waiting", "draining"}
  BY DEF TrayShutdown, HasHandle
<1>2. WakesCounted' /\ QueueCounted'
  <2>1. UNCHANGED <<Announcing, UpdateSent, Awake>>
    BY <1>1 DEF Announcing, UpdateSent, Awake
  <2>2. QED BY <1>1, <2>1, TrayNumbers, Ones DEF TrayInv, WakesCounted, QueueCounted
<1>3. NothingSent' /\ Setting' /\ NewestKept'
  BY <1>1 DEF TrayInv, NothingSent, Setting, NewestKept, NoQuit
<1>4. QED BY <1>1, <1>2, <1>3, TrayNumbers, TrayBounds

LEMMA GetMessageSafe == ASSUME TrayInv, GetMessage PROVE TrayInv'
<1>1. /\ thread = "waiting" /\ thread' = "draining" /\ wakes > 0 /\ wakes' = wakes - 1
      /\ UNCHANGED <<icon, last, queue, setting, closing>>
  BY DEF GetMessage
<1>2. /\ UNCHANGED <<Announcing, UpdateSent, QuitSent, Closed>> /\ Awake = 0 /\ Awake' = 1
      /\ wakes' \in Nat
  BY <1>1, TrayNumbers, Ones DEF Announcing, UpdateSent, QuitSent, Closed
<1>3. WakesCounted'
  BY <1>1, <1>2, TrayNumbers, Ones DEF TrayInv, WakesCounted
<1>4. QueueCounted'
  BY <1>1, <1>2, TrayNumbers, Ones DEF TrayInv, QueueCounted
<1>5. NothingSent' /\ Setting' /\ NewestKept'
  BY <1>1 DEF TrayInv, NothingSent, Setting, NewestKept, NoQuit
<1>6. QED BY <1>1, <1>2, <1>3, <1>4, <1>5, TrayNumbers, TrayBounds

LEMMA ShowUpdateSafe == ASSUME TrayInv, ShowUpdate PROVE TrayInv'
<1>1. /\ thread = "draining" /\ queue # <<>> /\ Head(queue) # Quit
      /\ icon' = Head(queue) /\ queue' = Tail(queue)
      /\ UNCHANGED <<thread, last, wakes, setting, closing>>
  BY DEF ShowUpdate
<1>2. queue \in Seq(Updates) /\ Len(queue) \in Nat /\ Len(queue) > 0 /\ Head(queue) = queue[1]
  BY <1>1, TrayNumbers
<1>3. /\ Head(queue) \in States /\ queue' \in Seq(Updates) /\ Len(queue') = Len(queue) - 1
      /\ \A i \in 1..Len(queue') : queue'[i] = queue[i + 1]
  BY <1>1, <1>2, HeadTailProperties DEF Updates
<1>4. UNCHANGED <<Announcing, UpdateSent, QuitSent, Closed, Awake>>
  BY <1>1 DEF Announcing, UpdateSent, QuitSent, Closed, Awake
<1>5. WakesCounted' /\ QueueCounted'
  <2>1. WakesCounted'
    BY <1>1, <1>4 DEF TrayInv, WakesCounted
  <2>2. QueueCounted'
    BY <1>1, <1>2, <1>3, <1>4, TrayNumbers, Ones DEF TrayInv, QueueCounted
  <2>3. QED BY <2>1, <2>2
<1>6. NothingSent' /\ Setting'
  BY <1>1 DEF TrayInv, NothingSent, Setting
<1>7. NewestKept'
  <2>1. SUFFICES ASSUME setting # 1, NoQuit'
                 PROVE  IF queue' = <<>> THEN icon' = last ELSE queue'[Len(queue')] = last
    BY <1>1 DEF NewestKept
  <2>2. NoQuit
    <3>1. ASSUME NEW i \in 1..Len(queue) PROVE queue[i] # Quit
      <4>1. CASE i = 1 BY <4>1, <1>1, <1>2
      <4>2. CASE i # 1
        <5>1. i - 1 \in 1..Len(queue') /\ (i - 1) + 1 = i BY <4>2, <1>2, <1>3
        <5>2. queue'[i - 1] = queue[i] BY <5>1, <1>3
        <5>3. QED BY <2>1, <5>1, <5>2 DEF NoQuit
      <4>3. QED BY <4>1, <4>2
    <3>2. QED BY <3>1 DEF NoQuit
  <2>3. queue[Len(queue)] = last
    BY <1>1, <2>1, <2>2 DEF TrayInv, NewestKept
  <2>4. CASE queue' = <<>>
    <3>1. Len(queue') = 0 BY <2>4, EmptySeq
    <3>2. Len(queue) = 1 BY <3>1, <1>2, <1>3
    <3>3. QED BY <2>3, <2>4, <3>2, <1>1, <1>2
  <2>5. CASE queue' # <<>>
    <3>1. Len(queue') \in Nat /\ Len(queue') # 0 BY <2>5, <1>3, EmptySeq
    <3>2. Len(queue') \in 1..Len(queue') /\ Len(queue') + 1 = Len(queue) BY <3>1, <1>2, <1>3
    <3>3. queue'[Len(queue')] = queue[Len(queue)] BY <3>2, <1>3
    <3>4. QED BY <2>3, <2>5, <3>3
  <2>6. QED BY <2>4, <2>5
<1>8. icon' \in States \cup {Unset}
  BY <1>1, <1>3
<1>9. QED BY <1>1, <1>3, <1>5, <1>6, <1>7, <1>8, TrayNumbers, TrayBounds

LEMMA DropIconSafe == ASSUME TrayInv, DropIcon PROVE TrayInv'
<1>1. /\ thread = "draining" /\ thread' = "gone" /\ icon' = Unset /\ queue' = <<>> /\ wakes' = 0
      /\ UNCHANGED <<last, setting, closing>>
  BY DEF DropIcon
<1>2. Len(queue') = 0 /\ queue' \in Seq(Updates) /\ wakes' \in Nat
  BY <1>1, EmptySeq
<1>3. WakesCounted'
  BY <1>1, Ones DEF WakesCounted, MaxUpdates
<1>4. QueueCounted'
  BY <1>1, <1>2, Ones DEF QueueCounted
<1>5. NothingSent' /\ Setting' /\ NewestKept'
  BY <1>1 DEF TrayInv, NothingSent, Setting, NewestKept
<1>6. QED BY <1>1, <1>2, <1>3, <1>4, <1>5, TrayNumbers, TrayBounds

LEMMA DrainedSafe == ASSUME TrayInv, Drained PROVE TrayInv'
<1>1. /\ thread = "draining" /\ queue = <<>> /\ thread' = "waiting"
      /\ UNCHANGED <<icon, last, queue, wakes, setting, closing>>
  BY DEF Drained
<1>2. Len(queue') = 0
  BY <1>1, EmptySeq
<1>3. WakesCounted'
  BY <1>1 DEF TrayInv, WakesCounted, Announcing, Closed
<1>4. QueueCounted'
  BY <1>1, <1>2, TrayNumbers, Ones DEF QueueCounted
<1>5. NothingSent' /\ Setting' /\ NewestKept'
  BY <1>1 DEF TrayInv, NothingSent, Setting, NewestKept, NoQuit
<1>6. QED BY <1>1, <1>3, <1>4, <1>5, TrayNumbers, TrayBounds

LEMMA TrayStepSafe == ASSUME TrayInv, TrayThread \/ Update \/ CloseTray PROVE TrayInv'
BY TrayStartSafe, GetMessageSafe, ShowUpdateSafe, DropIconSafe, DrainedSafe, UpdateSafe,
   CloseTraySafe DEF TrayThread

LEMMA TrayIdles == ASSUME TrayInv, UNCHANGED trayVars PROVE TrayInv'
BY DEF trayVars, TrayInv, TrayTypeOK, NothingSent, Setting, WakesCounted, QueueCounted, NewestKept,
   NoQuit, Announcing, UpdateSent, QuitSent, Closed, Awake

(***************************************************************************)
(* The counters and the two loops: their inductive invariant               *)
(***************************************************************************)

\* What the ghosts say of the counters a before and b after: k is the age of the events.
Since(k, a, b) ==
  /\ k \notin rewound => a <= b
  /\ k \in lossSince \ rewound => a < b
  /\ k \notin lossSince \cup rewound => a = b

\* What the status loop has not compared yet is the difference between what it remembers, what it
\* has just read, and what the counters say by now.
Differences ==
  /\ seen = None => "read" \notin lossSince \cup rewound
  /\ lastCounts # None /\ seen = None => Since("new", lastCounts, counts)
  /\ lastCounts # None /\ seen # None => Since("read", lastCounts, seen)
  /\ seen # None => Since("new", seen, counts)

LoopTypes ==
  /\ clients \in 0..1 /\ counts \in Counts
  /\ changed \in {"first", "yes", "no"}
  /\ {lastCounts, seen} \subseteq Counts \cup {None}
  /\ {lossSince, rewound} \subseteq SUBSET {"new", "read"}

\* Counters move by events, of which there are as many as faults; the status loop has a handle.
LoopInv ==
  /\ LoopTypes /\ trouble \in BOOLEAN
  /\ counts + faults <= MaxFaults
  /\ seen # None => thread \notin {"none", "starting"}
  /\ Differences

LEMMA LoopNumbers ==
  ASSUME LoopInv
  PROVE  /\ counts \in Int
         /\ seen # None => seen \in Int
         /\ lastCounts # None => lastCounts \in Int
<1>1. Counts \subseteq Int
  BY Sizes DEF Counts
<1>2. counts \in Counts /\ lastCounts \in Counts \cup {None} /\ seen \in Counts \cup {None}
  BY DEF LoopInv, LoopTypes
<1>3. QED BY <1>1, <1>2

LEMMA LoopsStart == ASSUME LoopsInit, faults = MaxFaults PROVE LoopInv
<1>1. LoopTypes
  <2>1. 0 \in Counts BY Sizes DEF Counts
  <2>2. QED BY <2>1 DEF LoopsInit, LoopTypes
<1>2. counts + faults <= MaxFaults
  BY Sizes DEF LoopsInit
<1>3. Differences
  BY DEF LoopsInit, Differences
<1>4. QED BY <1>1, <1>2, <1>3 DEF LoopInv, LoopsInit

\* Neither the loops nor the counters move.
LEMMA LoopsIdle ==
  ASSUME LoopInv, UNCHANGED <<counters, lastCounts, seen, ghost>>,
         changed' \in {"first", "yes", "no"}, trouble' \in BOOLEAN,
         faults \in Nat, faults' \in {faults, faults - 1},
         thread' \in {"none", "starting"} => thread \in {"none", "starting"}
  PROVE  LoopInv'
<1>1. UNCHANGED <<clients, counts, lastCounts, seen, lossSince, rewound>>
  BY DEF counters, ghost
<1>2. LoopTypes' /\ Differences'
  BY <1>1 DEF LoopInv, LoopTypes, Differences, Since
<1>3. counts' + faults' <= MaxFaults
  BY <1>1, LoopNumbers, Sizes DEF LoopInv
<1>4. QED BY <1>1, <1>2, <1>3 DEF LoopInv

LEMMA ConnectionsSafe == ASSUME LoopInv, faults \in Nat, Connections PROVE LoopInv'
<1>1. /\ Change /\ UNCHANGED <<lastCounts, seen, trouble, thread>>
      /\ changed' \in {"first", "yes", "no"}
      /\ faults' = faults - 1 /\ faults > 0
  BY DEF Connections, ClientComes, ClientGoes, Loss, CountersGoBack, Change, Fault, trayVars,
     LoopInv, LoopTypes
<1>2. counts \in 0..MaxFaults /\ counts + faults <= MaxFaults
  BY DEF LoopInv, LoopTypes, Counts
<1>3. CASE ClientComes \/ ClientGoes
  <2>1. clients' \in 0..1 /\ UNCHANGED <<counts, lossSince, rewound>>
    BY <1>3 DEF ClientComes, ClientGoes, ghost
  <2>2. LoopTypes' /\ Differences'
    BY <1>1, <2>1 DEF LoopInv, LoopTypes, Differences, Since
  <2>3. counts' + faults' <= MaxFaults
    BY <1>1, <1>2, <2>1, Sizes
  <2>4. QED BY <1>1, <2>2, <2>3 DEF LoopInv
<1>4. CASE Loss
  <2>1. UNCHANGED <<clients, rewound>> /\ counts' = counts + 1 /\ lossSince' = lossSince \cup {"new"}
    BY <1>4 DEF Loss
  <2>2. counts' \in 0..MaxFaults /\ counts' + faults' <= MaxFaults
    BY <1>1, <1>2, <2>1, Sizes
  <2>3. LoopTypes'
    BY <1>1, <2>1, <2>2 DEF LoopInv, LoopTypes, Counts
  <2>4. ASSUME NEW a \in Int, Since("new", a, counts) PROVE Since("new", a, counts)'
    BY <1>2, <2>1, <2>4 DEF Since
  <2>5. lastCounts # None /\ seen # None => Since("read", lastCounts, seen)'
    BY <1>1, <2>1 DEF LoopInv, Differences, Since
  <2>6. Differences'
    BY <1>1, <2>1, <2>4, <2>5, LoopNumbers DEF LoopInv, Differences
  <2>7. QED BY <1>1, <2>2, <2>3, <2>6 DEF LoopInv
<1>5. CASE CountersGoBack
  <2>1. UNCHANGED <<clients, lossSince>> /\ counts' = 0 /\ rewound' = rewound \cup {"new"}
    BY <1>5 DEF CountersGoBack
  <2>2. counts' \in 0..MaxFaults /\ counts' + faults' <= MaxFaults
    BY <1>1, <1>2, <2>1, Sizes
  <2>3. LoopTypes'
    BY <1>1, <2>1, <2>2 DEF LoopInv, LoopTypes, Counts
  <2>4. Differences'
    BY <1>1, <2>1 DEF LoopInv, Differences, Since
  <2>5. QED BY <1>1, <2>2, <2>3, <2>4 DEF LoopInv
<1>6. QED BY <1>3, <1>4, <1>5 DEF Connections

LEMMA ReadCountersSafe ==
  ASSUME LoopInv, TrayInv, ReadCounters, faults' = faults
  PROVE  LoopInv'
<1>1. /\ HasHandle /\ seen = None /\ seen' = counts
      /\ lossSince' = Aged(lossSince) /\ rewound' = Aged(rewound)
      /\ UNCHANGED <<clients, counts, changed, lastCounts, trouble, thread>>
  BY DEF ReadCounters, counters, trayVars
<1>2. thread \notin {"none", "starting"}
  BY <1>1 DEF HasHandle, TrayInv, NothingSent
<1>3. counts \in Counts /\ Counts \subseteq Nat /\ seen' # None
  BY <1>1, Sizes, ReportingConstants DEF LoopInv, LoopTypes, Counts
<1>4. /\ "new" \notin lossSince' \cup rewound'
      /\ "read" \in lossSince' <=> "new" \in lossSince
      /\ "read" \in rewound' <=> "new" \in rewound
  BY <1>1 DEF LoopInv, Differences, LoopTypes, Aged
<1>5. LoopTypes'
  <2>1. {lossSince', rewound'} \subseteq SUBSET {"new", "read"}
    BY <1>1 DEF LoopInv, LoopTypes, Aged
  <2>2. QED BY <1>1, <1>3, <2>1 DEF LoopInv, LoopTypes
<1>6. Differences'
  <2>1. Since("new", seen, counts)'
    BY <1>1, <1>3, <1>4 DEF Since
  <2>2. lastCounts # None => Since("read", lastCounts, seen)'
    BY <1>1, <1>4 DEF LoopInv, Differences, Since
  <2>3. QED BY <1>1, <1>3, <2>1, <2>2 DEF Differences
<1>7. QED BY <1>1, <1>2, <1>5, <1>6 DEF LoopInv

LEMMA ReportStatusSafe == ASSUME LoopInv, ReportStatus, faults' = faults PROVE LoopInv'
<1>1. /\ seen # None /\ lastCounts' = seen /\ seen' = None
      /\ lossSince' = lossSince \ {"read"} /\ rewound' = rewound \ {"read"}
      /\ UNCHANGED <<clients, counts, changed>>
  BY DEF ReportStatus, counters
<1>2. LoopTypes'
  <2>1. {lossSince', rewound'} \subseteq SUBSET {"new", "read"}
    BY <1>1 DEF LoopInv, LoopTypes
  <2>2. QED BY <1>1, <2>1 DEF LoopInv, LoopTypes
<1>3. trouble' \in BOOLEAN
  BY DEF ReportStatus, Noticed, LoopInv
<1>4. Differences'
  BY <1>1 DEF LoopInv, Differences, Since
<1>5. QED BY <1>1, <1>2, <1>3, <1>4 DEF LoopInv

\* The status it derives is one the tray knows, and the thread runs.
LEMMA StatusIsShown ==
  ASSUME TrayInv, LoopInv, ReportStatus
  PROVE  TrayInv'
<1>1. NewStatus \in States
  BY ReportingConstants DEF NewStatus, Status
<1>2. SetState(NewStatus) /\ thread \notin {"none", "starting"}
  BY DEF ReportStatus, LoopInv
<1>3. QED BY <1>1, <1>2, SetStateSafe

(***************************************************************************)
(* The whole                                                               *)
(***************************************************************************)
IInv ==
  /\ outputs \in Outputs /\ running \in {"no", "starting", "serving", "quitting"}
  /\ LogInv /\ TrayInv /\ LoopInv

LEMMA Initially == Init => IInv
<1> SUFFICES ASSUME Init PROVE IInv
  OBVIOUS
<1>1. LogInv /\ TrayInv /\ LoopInv
  BY LogStarts, TrayStarts, LoopsStart DEF Init, LogInit
<1>2. QED BY <1>1 DEF Init, IInv

\* A step of the log leaves the rest alone; its faults are those of all.
LEMMA LogStepSafe ==
  ASSUME IInv, UNCHANGED <<outputs, trayVars, counters, lastCounts, seen, trouble, ghost>>,
         running' \in {"no", "starting", "serving", "quitting"},
         changed' \in {"first", "yes", "no"}, LogInv', faults' \in {faults, faults - 1}
  PROVE  IInv'
<1>1. faults \in Nat /\ thread' = thread
  BY LogNumbers DEF IInv, trayVars
<1>2. LoopInv'
  <2>1. trouble' \in BOOLEAN BY DEF IInv, LoopInv
  <2>2. UNCHANGED <<counters, lastCounts, seen, ghost>> OBVIOUS
  <2>3. QED BY <1>1, <2>1, <2>2, LoopsIdle DEF IInv
<1>3. TrayInv'
  BY TrayIdles DEF IInv
<1>4. QED BY <1>2, <1>3 DEF IInv

LEMMA WriterSafe == ASSUME LogInv, WriterSteps PROVE LogInv' /\ faults' \in {faults, faults - 1}
<1>1. LogInv'
  BY MeasureSafe, RemoveOldSafe, RenameSafe, ReopenSafe, StatSafe, WriteOutSafe DEF WriterSteps
<1>2. faults' \in {faults, faults - 1}
  BY DEF WriterSteps, Measure, RemoveOld, Rename, Reopen, Stat, WriteOut, Fault, NoFault
<1>3. QED BY <1>1, <1>2

\* With the counters back at 0 only the faults are left to bound.
LEMMA NoLoss ==
  ASSUME NEW c \in 0..0, NEW f \in Nat, NEW m \in Nat, f <= m
  PROVE  c + f <= m
OBVIOUS

\* A kill or the end of a shutdown closes the log and the tray.
LEMMA EndSafe == ASSUME IInv, ProcessEnds PROVE IInv'
<1>1. faults' \in {faults, faults - 1} /\ (faults' # faults => faults > 0)
  BY DEF ProcessEnds, Fault, NoFault
<1>2. LogInv'
  BY <1>1, LogClosesSafe DEF IInv, ProcessEnds
<1>3. TrayInv'
  BY TrayEnds DEF ProcessEnds
<1>4. LoopInv'
  <2>1. faults' \in Nat /\ faults' <= MaxFaults
    BY <1>2, Sizes DEF LogInv, LogTypeOK
  <2>2. counts' + faults' <= MaxFaults
    <3>1. counts' = 0 BY DEF ProcessEnds
    <3>2. MaxFaults \in Nat BY Sizes
    <3>3. counts' \in 0..0 BY <3>1
    <3>4. QED BY <2>1, <3>2, <3>3, NoLoss
  <2>3. LoopTypes'
    <3>1. 0 \in Counts BY Sizes DEF Counts
    <3>2. QED BY <3>1 DEF ProcessEnds, LoopTypes
  <2>4. Differences'
    BY DEF ProcessEnds, Differences
  <2>5. trouble' \in BOOLEAN /\ seen' = None
    BY DEF ProcessEnds
  <2>6. QED BY <2>2, <2>3, <2>4, <2>5 DEF LoopInv
<1>5. QED BY <1>2, <1>3, <1>4 DEF IInv, ProcessEnds

\* A step of the tray leaves log and counters alone, and no handle is lost.
LEMMA TraySafe ==
  ASSUME IInv, UNCHANGED <<outputs, logVars, counters, loops, ghost>>,
         running' \in {"no", "starting", "serving", "quitting"}, TrayInv',
         thread' \in {"none", "starting"} => thread \in {"none", "starting"}
  PROVE  IInv'
<1>1. LogInv' /\ faults' = faults /\ faults \in Nat
  <2>1. LogInv' BY LogIdles DEF IInv
  <2>2. faults \in Nat BY LogNumbers DEF IInv
  <2>3. QED BY <2>1, <2>2 DEF logVars
<1>2. LoopInv'
  <2>1. UNCHANGED <<changed, lastCounts, seen, trouble>> BY DEF loops
  <2>2. trouble' \in BOOLEAN /\ changed' \in {"first", "yes", "no"}
    BY <2>1 DEF IInv, LoopInv, LoopTypes
  <2>3. QED BY <1>1, <2>1, <2>2, LoopsIdle DEF IInv
<1>3. QED BY <1>1, <1>2 DEF IInv

LEMMA Inductive == Spec => []IInv
<1>1. ASSUME IInv, [Next]_vars PROVE IInv'
  <2> USE <1>1
  <2>1. LogInv /\ TrayInv /\ LoopInv /\ faults \in Nat /\ changed \in {"first", "yes", "no"}
    BY LogNumbers DEF IInv, LoopInv, LoopTypes
  <2>2. CASE UNCHANGED vars
    <3>1. LogInv' /\ faults' = faults BY <2>1, <2>2, LogIdles DEF vars, logVars
    <3>2. QED BY <2>1, <2>2, <3>1, LogStepSafe DEF vars, loops, IInv
  <2>3. CASE Start
    <3>1. LogInv' /\ faults' = faults
      <4>1. CASE OpenLog BY <2>1, <4>1, OpenLogSafe DEF OpenLog
      <4>2. CASE UNCHANGED logVars BY <2>1, <4>2, LogIdles DEF logVars
      <4>3. QED BY <2>3, <4>1, <4>2 DEF Start
    <3>2. QED BY <2>1, <2>3, <3>1, LogStepSafe DEF Start, loops
  <2>4. CASE StartTray
    <3>1. TrayInv' BY <2>1, <2>4, TrayStartSafe DEF StartTray
    <3>2. thread \in {"none", "starting"} BY <2>4 DEF StartTray, TrayStart
    <3>3. QED BY <2>4, <3>1, <3>2, TraySafe DEF StartTray, IInv
  <2>5. CASE Serve
    <3>1. TrayInv' /\ thread' = thread BY <2>1, <2>5, TrayIdles DEF Serve, trayVars
    <3>2. QED BY <2>5, <3>1, TraySafe DEF Serve
  <2>6. CASE QuitServing
    <3>1. TrayInv' /\ thread' = thread
      <4>1. CASE HasHandle /\ TrayShutdown
        BY <2>1, <4>1, TrayShutdownSafe DEF TrayShutdown
      <4>2. CASE UNCHANGED trayVars BY <2>1, <4>2, TrayIdles DEF trayVars
      <4>3. QED BY <2>6, <4>1, <4>2 DEF QuitServing
    <3>2. QED BY <2>6, <3>1, TraySafe DEF QuitServing
  <2>7. CASE ProcessEnds
    BY <2>7, EndSafe
  <2>8. CASE Connections
    <3>1. /\ UNCHANGED <<outputs, running, trayVars>> /\ Fault
          /\ UNCHANGED <<disk, handle, step, line, blind, kept>>
      BY <2>8 DEF Connections, ClientComes, ClientGoes, Loss, CountersGoBack, Change
    <3>2. LogInv' BY <2>1, <3>1, LogIdles
    <3>3. TrayInv' BY <2>1, <3>1, TrayIdles
    <3>4. LoopInv' BY <2>1, <2>8, ConnectionsSafe
    <3>5. QED BY <3>1, <3>2, <3>3, <3>4 DEF IInv
  <2>9. CASE ReadCounters
    <3>1. LogInv' /\ faults' = faults BY <2>1, <2>9, LogIdles DEF ReadCounters, logVars
    <3>2. TrayInv' BY <2>1, <2>9, TrayIdles DEF ReadCounters
    <3>3. LoopInv' BY <2>1, <2>9, <3>1, ReadCountersSafe
    <3>4. QED BY <2>9, <3>1, <3>2, <3>3 DEF ReadCounters, IInv
  <2>10. CASE ReportStatus
    <3>1. LogInv' /\ faults' = faults BY <2>1, <2>10, LogIdles DEF ReportStatus, logVars
    <3>2. TrayInv' BY <2>1, <2>10, StatusIsShown
    <3>3. LoopInv' BY <2>1, <2>10, <3>1, ReportStatusSafe
    <3>4. QED BY <2>10, <3>1, <3>2, <3>3 DEF ReportStatus, IInv
  <2>11. CASE TroubleAges
    <3>1. LogInv' /\ faults' = faults BY <2>1, <2>11, LogIdles DEF TroubleAges, logVars
    <3>2. TrayInv' /\ thread' = thread BY <2>1, <2>11, TrayIdles DEF TroubleAges, trayVars
    <3>3. LoopInv' BY <2>1, <2>11, <3>1, <3>2, LoopsIdle DEF TroubleAges
    <3>4. QED BY <2>11, <3>1, <3>2, <3>3 DEF TroubleAges, IInv
  <2>12. CASE StatsTick
    <3>1. LogInv' /\ faults' = faults
      <4>1. CASE \E n \in LineSizes : WriteLine(n)
        BY <2>1, <4>1, WriteLineSafe DEF WriteLine
      <4>2. CASE UNCHANGED logVars BY <2>1, <4>2, LogIdles DEF logVars
      <4>3. QED BY <2>12, <4>1, <4>2 DEF StatsTick
    <3>2. QED BY <2>12, <3>1, LogStepSafe DEF StatsTick, IInv
  <2>13. CASE LogSteps
    <3>1. LogInv' /\ faults' \in {faults, faults - 1}
      BY <2>1, <2>13, WriterSafe DEF LogSteps
    <3>2. QED BY <2>1, <2>13, <3>1, LogStepSafe DEF LogSteps, OthersSame, loops, IInv
  <2>14. CASE MinutePasses \/ LogIsReleased \/ LogIsHeld
    <3>1. LogInv' /\ faults' \in {faults, faults - 1}
      BY <2>1, <2>14, LogIdles DEF MinutePasses, LogIsReleased, LogIsHeld, RetryPasses,
         OtherLetsGo, OtherTakesLog, Fault
    <3>2. UNCHANGED <<outputs, running, trayVars, counters, loops, ghost>>
      BY <2>14 DEF MinutePasses, LogIsReleased, LogIsHeld, OthersSame
    <3>3. QED BY <2>1, <3>1, <3>2, LogStepSafe DEF loops, IInv
  <2>15. CASE TraySteps
    <3>1. TrayInv' BY <2>1, <2>15, TrayStepSafe DEF TraySteps
    <3>2. thread' \in {"none", "starting"} => thread \in {"none", "starting"}
      BY <2>15 DEF TraySteps, TrayThread, TrayReady, GetMessage, ShowUpdate, DropIcon, Drained,
         Update, CloseTray
    <3>3. QED BY <2>15, <3>1, <3>2, TraySafe DEF TraySteps, IInv
  <2>16. QED
    BY <2>2, <2>3, <2>4, <2>5, <2>6, <2>7, <2>8, <2>9, <2>10, <2>11, <2>12, <2>13, <2>14, <2>15
       DEF Next, StatusLoop
<1>2. QED BY Initially, <1>1, PTL DEF Spec

(***************************************************************************)
(* The theorems                                                            *)
(***************************************************************************)

\* The log stays within its bound however rotations fail and the process is killed, and the tray
\* thread never sleeps over an update however sender and thread interleave (logfile.rs:38-40,
\* tray.rs:50, 57-58).
THEOREM AlwaysSound == Spec => []Sound
<1>1. ASSUME IInv PROVE Sound
  <2>1. LogTypeOK /\ LogBounded /\ TrayTypeOK BY <1>1 DEF IInv, LogInv, TrayInv
  <2>2. NoLostUpdate BY <1>1, AwakeForUpdates DEF IInv
  <2>3. TypeOK BY <1>1, <2>1 DEF IInv, LoopInv, LoopTypes, TypeOK
  <2>4. QED BY <2>1, <2>2, <2>3 DEF Sound
<1>2. QED BY <1>1, Inductive, PTL

\* Rotating never costs the recent history: whichever calls fail and wherever the process is
\* killed, the two files hold what was written last, close to the limit (logfile.rs:1-4, 53).
THEOREM HistoryAlwaysKept == Spec => []HistoryKept
<1>1. IInv => HistoryKept
  BY DEF IInv, LogInv
<1>2. QED BY <1>1, Inductive, PTL

\* A loss turns the icon yellow at the next tick, and nothing but a loss or counters that went back
\* does, although the counters move on between being read and being compared (tray.rs:7-8,
\* app.rs:166).
THEOREM TroubleAlwaysReal == Spec => TroubleIsReal
<1>1. ASSUME IInv, ReportStatus, clients > 0, lastCounts # None
      PROVE  /\ "read" \in lossSince \ rewound => trouble'
             /\ ~trouble /\ trouble' => "read" \in lossSince \cup rewound
  <2>1. seen # None /\ trouble' = (trouble \/ Noticed) /\ Noticed = (seen # lastCounts)
    BY <1>1 DEF ReportStatus, Noticed
  <2>2. Since("read", lastCounts, seen) /\ seen \in Int /\ lastCounts \in Int
    BY <1>1, <2>1, LoopNumbers DEF IInv, LoopInv, Differences
  <2>3. "read" \in lossSince \ rewound => seen # lastCounts
    BY <2>2 DEF Since
  <2>4. seen # lastCounts => "read" \in lossSince \cup rewound
    BY <2>2 DEF Since
  <2>5. QED BY <2>1, <2>3, <2>4
<1>2. IInv /\ [Next]_vars =>
        [ReportStatus /\ clients > 0 /\ lastCounts # None =>
           /\ "read" \in lossSince \ rewound => trouble'
           /\ ~trouble /\ trouble' => "read" \in lossSince \cup rewound]_vars
  BY <1>1
<1>3. QED BY <1>2, Inductive, PTL DEF Spec, TroubleIsReal

=============================================================================
