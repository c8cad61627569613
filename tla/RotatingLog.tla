----------------------------- MODULE RotatingLog -----------------------------
(***************************************************************************)
(* The log file of CouchMic (src/src/logfile.rs): lines are appended to    *)
(* couchmic.log; beyond a limit it becomes couchmic.log.1 and a new file   *)
(* is started.  A rotation is four calls of the file system, each of which *)
(* can fail and between which the process can be killed.  Another program  *)
(* may hold the log open so that it cannot be renamed.  Sizes are counted  *)
(* in small units; a line is one write.                                    *)
(***************************************************************************)
EXTENDS Integers

CONSTANTS
  MaxBytes,    \* RotatingFile.max_bytes
  LineSizes,   \* sizes of a line
  MaxFaults    \* BOUND: failing calls of the file system, times another program takes the log, kills

Longest == CHOOSE n \in LineSizes : \A m \in LineSizes : m <= n

ASSUME LogConstants ==
  /\ MaxBytes \in Nat /\ MaxFaults \in Nat
  /\ LineSizes # {} /\ LineSizes \subseteq 1..MaxBytes

NoFile == -1

VARIABLES
  size,         \* disk: size of couchmic.log, or NoFile
  old,          \* disk: size of couchmic.log.1, or NoFile
  heldByOther,  \* disk: another program has couchmic.log open without delete sharing
  open,         \* RotatingFile.file is Some
  written,      \* RotatingFile.written
  lastAttempt,  \* RotatingFile.last_attempt: "none", "recent" (less than RETRY_EVERY ago), "due"
  step,         \* where the writer is
  line,         \* size of the line it writes; 0 during RotatingFile::open
  faults,       \* faults left
  blind,        \* ghost: how often the size of the open file could not be read
  kept          \* ghost: the size of everything ever written, up to Worth

disk == <<size, old, heldByOther>>
handle == <<open, written, lastAttempt>>
logVars == <<disk, handle, step, line, faults, blind, kept>>

Steps == {"down", "measure", "remove", "rename", "reopen", "stat", "append", "ready"}

\* What is left of the history at least, once there was that much.
Worth == MaxBytes + 1 - Longest

Bytes(s) == IF s = NoFile THEN 0 ELSE s
Least(a, b) == IF a <= b THEN a ELSE b
Cap == 2 * MaxBytes

LogTypeOK ==
  /\ size \in Int /\ old \in Int /\ size >= NoFile /\ old >= NoFile
  /\ {heldByOther, open} \subseteq BOOLEAN
  /\ written \in Nat
  /\ lastAttempt \in {"none", "recent", "due"}
  /\ step \in Steps
  /\ line \in LineSizes \cup {0}
  /\ faults \in 0..MaxFaults /\ blind \in 0..MaxFaults
  /\ kept \in 0..Worth

\* Before the first start: no log yet, or what an earlier run left.
LogInit ==
  /\ \/ size = NoFile /\ old = NoFile
     \/ size \in {1, MaxBytes + 1} /\ old = MaxBytes
  /\ heldByOther = FALSE
  /\ open = FALSE /\ written = 0 /\ lastAttempt = "none"
  /\ step = "down" /\ line = 0
  /\ faults = MaxFaults /\ blind = 0
  /\ kept = Least(Worth, Bytes(size) + Bytes(old))

Fault == faults > 0 /\ faults' = faults - 1
NoFault == UNCHANGED faults

\* Mutant of Limit: every start rotates, as every rotation does.
Limit_AlwaysZero == 0

\* The limit of rotate_if_larger: max_bytes in open(), 0 in rotate().
Limit == IF line = 0 THEN MaxBytes ELSE 0

(***************************************************************************)
(* RotatingFile::open and RotatingFile::rotate                             *)
(***************************************************************************)
OpenLog ==
  /\ step = "down"
  /\ step' = "measure" /\ line' = 0
  /\ UNCHANGED <<disk, handle, faults, blind, kept>>

\* rotate_if_larger; whatever goes wrong in it is ignored and the file opened again.
Measure ==
  /\ step = "measure"
  /\ \/ /\ NoFault
        /\ step' = IF Bytes(size) <= Limit THEN "reopen"
                   ELSE IF old # NoFile THEN "remove" ELSE "rename"
     \/ Fault /\ step' = "reopen"
  /\ UNCHANGED <<disk, handle, line, blind, kept>>

RemoveOld ==
  /\ step = "remove"
  /\ \/ NoFault /\ old' = NoFile /\ step' = "rename"
     \/ Fault /\ UNCHANGED old /\ step' = "reopen"
  /\ UNCHANGED <<size, heldByOther, handle, line, blind, kept>>

Rename ==
  /\ step = "rename"
  /\ IF heldByOther THEN UNCHANGED <<size, old>> ELSE old' = size /\ size' = NoFile
  /\ step' = "reopen"
  /\ UNCHANGED <<heldByOther, handle, line, faults, blind, kept>>

\* open_append.  Without a file open() gives up and rotate() leaves the writer without one.
Reopen ==
  /\ step = "reopen"
  /\ \/ NoFault /\ open' = TRUE /\ size' = Bytes(size) /\ step' = "stat"
        /\ UNCHANGED <<written, lastAttempt>>
     \/ /\ Fault /\ UNCHANGED <<open, size>>
        /\ written' = 0 /\ lastAttempt' = "none"
        /\ step' = IF line = 0 THEN "ready" ELSE "append"
  /\ UNCHANGED <<old, heldByOther, line, blind, kept>>

\* The size of the file that is open now; 0 when it cannot be read.  Only a failed rotation waits.
Stat ==
  /\ step = "stat"
  /\ \/ NoFault /\ written' = size /\ UNCHANGED blind
     \/ Fault /\ written' = 0 /\ blind' = blind + 1
  /\ lastAttempt' = IF written' = 0 THEN "none" ELSE lastAttempt
  /\ step' = IF line = 0 THEN "ready" ELSE "append"
  /\ UNCHANGED <<disk, open, line, kept>>

(***************************************************************************)
(* RotatingFile::write                                                     *)
(***************************************************************************)
Over(n) == written + n > MaxBytes /\ written > 0

\* Mutant of MayRetry: a rotation that failed is not tried again.
MayRetry_Never == lastAttempt = "none"

MayRetry == lastAttempt # "recent"

BeginRotation(n) ==
  IF Over(n) /\ MayRetry
    THEN lastAttempt' = "recent" /\ open' = FALSE /\ step' = "measure"
    ELSE UNCHANGED <<lastAttempt, open>> /\ step' = "append"

WriteLine(n) ==
  /\ step = "ready"
  /\ BeginRotation(n)
  /\ line' = n
  /\ UNCHANGED <<disk, written, faults, blind, kept>>

\* Mutant of Full: the cap is missing.
Full_NoCap(n) == ~open

\* The line is dropped: hard cap of twice the limit, or no file.
Full(n) == written + n > Cap \/ ~open

WriteOut ==
  /\ step = "append"
  /\ \/ /\ ~Full(line) /\ NoFault
        /\ size' = size + line /\ written' = written + line
        /\ kept' = Least(Worth, kept + line)
     \/ /\ \/ Full(line) /\ NoFault
           \/ ~Full(line) /\ Fault      \* the write itself fails
        /\ UNCHANGED <<size, written, kept>>
  /\ step' = "ready" /\ line' = 0
  /\ UNCHANGED <<old, heldByOther, open, lastAttempt, blind>>

(***************************************************************************)
(* Time, the other program, and the end of the process                     *)
(***************************************************************************)
RetryPasses ==
  /\ lastAttempt = "recent"
  /\ lastAttempt' = "due"
  /\ UNCHANGED <<disk, open, written, step, line, faults, blind, kept>>

OtherTakesLog ==
  /\ ~heldByOther /\ size # NoFile /\ Fault
  /\ heldByOther' = TRUE
  /\ UNCHANGED <<size, old, handle, step, line, blind, kept>>

OtherLetsGo ==
  /\ heldByOther /\ heldByOther' = FALSE
  /\ UNCHANGED <<size, old, handle, step, line, faults, blind, kept>>

\* The process has ended, at any step.
LogCloses ==
  /\ step' = "down" /\ line' = 0
  /\ open' = FALSE /\ written' = 0 /\ lastAttempt' = "none"
  /\ UNCHANGED <<disk, blind, kept>>

WriterSteps == Measure \/ RemoveOld \/ Rename \/ Reopen \/ Stat \/ WriteOut

(***************************************************************************)
(* Properties                                                              *)
(***************************************************************************)

\* However rotation fails, the log cannot fill the disk: neither file grows beyond twice the
\* limit, except by as much again for every time the size could not be read (logfile.rs:38-40).
LogBounded == Bytes(size) <= (1 + blind) * Cap /\ Bytes(old) <= (1 + blind) * Cap

\* Rotating never costs the recent history: the two files hold the last lines written, close to
\* the limit at least, at every step and after a kill at any of them (logfile.rs:1-4, 53).
HistoryKept == Bytes(size) + Bytes(old) >= kept
=============================================================================
