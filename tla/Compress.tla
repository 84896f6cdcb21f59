------------------------------ MODULE Compress ------------------------------
(* compress.Text (internal/compress/compress.go): head/tail elision of one   *)
(* blob of machine output.  The head and the tail stay, the middle is scanned *)
(* once; a line with failure signal is rescued with the lines after it until *)
(* MaxKept lines are kept, and past the cap failure lines are only counted.  *)
(* A line is reduced to whether mustKeep matches it; all lines of a blob have *)
(* one length, which is enough for the size floors to accept and to reject.  *)
EXTENDS Integers, Sequences, FiniteSets

CONSTANTS
  HeadLines, TailLines,   \* lines kept verbatim at either end
  MaxKept, ContextAfter,  \* cap on rescued lines, context per failure
  MinBytes, MarkerBytes,  \* size floor of a blob, size of the marker line
  MaxLines, LineSizes     \* bounds: lines in a blob, bytes in a line

ASSUME ParamsAssumption ==
  /\ HeadLines \in Nat /\ TailLines \in Nat
  /\ MaxKept \in Nat \ {0} /\ ContextAfter \in Nat
  /\ MinBytes \in Nat /\ MarkerBytes \in Nat /\ MaxLines \in Nat
  /\ LineSizes \subseteq Nat

VARIABLES
  fails,      \* per line of the blob: does mustKeep match it?
  bytes,      \* bytes in each line, newline included
  marked,     \* the blob already contains an elision marker
  idx,        \* lines of the middle scanned so far
  kept,       \* the rescued lines, by position in the middle
  dropped,    \* failure lines refused by the cap, as the marker reports
  stage          \* "start", "scan", then "unchanged" or "squeezed"

squeezeVars == <<fails, bytes, marked, idx, kept, dropped, stage>>
blob == <<fails, bytes, marked>>

Min2(a, b) == IF a < b THEN a ELSE b

LineCount == Len(fails)
MiddleLen == LineCount - HeadLines - TailLines
mustKeep(i) == fails[HeadLines + i]

SqueezeInit ==
  /\ fails \in UNION {[1 .. n -> BOOLEAN] : n \in 1 .. MaxLines}
  /\ bytes \in LineSizes
  /\ marked \in BOOLEAN
  /\ idx = 0 /\ kept = <<>> /\ dropped = 0
  /\ stage = "start"

TooSmall == LineCount * bytes < MinBytes \/ LineCount <= HeadLines + TailLines + 2

PassThrough ==
  /\ stage = "start"
  /\ TooSmall \/ marked
  /\ stage' = "unchanged"
  /\ UNCHANGED <<blob, idx, kept, dropped>>

Start ==
  /\ stage = "start"
  /\ ~TooSmall /\ ~marked
  /\ stage' = "scan"
  /\ UNCHANGED <<blob, idx, kept, dropped>>

Scanning == stage = "scan" /\ idx < MiddleLen

CountOverCapStops ==                    \* mutant: the scan stops at the cap
  /\ Scanning
  /\ Len(kept) >= MaxKept
  /\ idx' = MiddleLen
  /\ UNCHANGED <<blob, kept, dropped, stage>>

(* Past the cap a failure line is counted, any other line skipped. *)
CountOverCap ==
  /\ Scanning
  /\ Len(kept) >= MaxKept
  /\ dropped' = dropped + (IF mustKeep(idx + 1) THEN 1 ELSE 0)
  /\ idx' = idx + 1
  /\ UNCHANGED <<blob, kept, stage>>

(* Exclusive end of the window that a failure line opens: idx + 1 + ctx. *)
WindowEnd == Min2(idx + 1 + ContextAfter, MiddleLen)

RescueMissesLine ==                     \* mutant: middle[idx+1 : end]
  /\ Scanning
  /\ Len(kept) < MaxKept
  /\ mustKeep(idx + 1)
  /\ LET n == Min2(WindowEnd - idx - 1, MaxKept - Len(kept))
     IN  kept' = kept \o [i \in 1 .. n |-> idx + 1 + i]
  /\ idx' = WindowEnd
  /\ UNCHANGED <<blob, dropped, stage>>

RescueOverlapping ==                    \* mutant: resumes inside the window
  /\ Scanning
  /\ Len(kept) < MaxKept
  /\ mustKeep(idx + 1)
  /\ LET n == Min2(WindowEnd - idx, MaxKept - Len(kept))
     IN  kept' = kept \o [i \in 1 .. n |-> idx + i]
  /\ idx' = idx + 1
  /\ UNCHANGED <<blob, dropped, stage>>

(* A failure line below the cap: its window is rescued as far as the cap     *)
(* allows, and the scan resumes behind the window.                           *)
Rescue ==
  /\ Scanning
  /\ Len(kept) < MaxKept
  /\ mustKeep(idx + 1)
  /\ LET n == Min2(WindowEnd - idx, MaxKept - Len(kept))
     IN  kept' = kept \o [i \in 1 .. n |-> idx + i]
  /\ idx' = WindowEnd
  /\ UNCHANGED <<blob, dropped, stage>>

SkipPlain ==
  /\ Scanning
  /\ Len(kept) < MaxKept
  /\ ~mustKeep(idx + 1)
  /\ idx' = idx + 1
  /\ UNCHANGED <<blob, kept, dropped, stage>>

OutBytes == (HeadLines + Len(kept) + TailLines) * bytes + MarkerBytes

(* The savings floor: keep the result if it saves at least a tenth. *)
Finish ==
  /\ stage = "scan" /\ idx = MiddleLen
  /\ stage' = IF 10 * OutBytes > 9 * (LineCount * bytes) THEN "unchanged" ELSE "squeezed"
  /\ UNCHANGED <<blob, idx, kept, dropped>>

Returned == stage \in {"unchanged", "squeezed"} /\ UNCHANGED squeezeVars

SqueezeNext ==
  PassThrough \/ Start \/ CountOverCap \/ Rescue \/ SkipPlain \/ Finish \/ Returned

SqueezeSpec == SqueezeInit /\ [][SqueezeNext]_squeezeVars
-----------------------------------------------------------------------------
Kept == {kept[i] : i \in DOMAIN kept}
Failing == {i \in 1 .. idx : mustKeep(i)}
Missing == Failing \ Kept

(* Never-elide below the cap (compress.go:98-121): as long as fewer than     *)
(* MaxKept lines are rescued, every failure line scanned so far is among     *)
(* them, however failures and their context windows overlap.                 *)
NoLossBelowCap == Len(kept) < MaxKept => Missing = {} /\ dropped = 0

(* The result keeps the order of the blob and repeats no line: windows never *)
(* overlap, because the scan resumes behind the one it rescued               *)
(* (compress.go:119).                                                        *)
KeptInOrder ==
  \A i, j \in DOMAIN kept : i < j => kept[i] < kept[j]

(* How much failure signal can vanish without a trace: the window that meets *)
(* the cap is cut but skipped as a whole, so at most ContextAfter failure    *)
(* lines are neither kept nor counted (compress.go:113-119).                 *)
SilentLossBounded == Cardinality(Missing) - dropped \in 0 .. ContextAfter

(* The package comment: "silent loss of failure signal is the one outcome    *)
(* this package must never produce" (compress.go:5-8).  Every failure line   *)
(* of a squeezed blob is kept or counted in the marker.                      *)
NoSilentLoss == stage = "squeezed" => Cardinality(Missing) = dropped

(* "a failure without its detail is an elision of the signal itself"         *)
(* (compress.go:106-108): below the cap a rescued failure line has its       *)
(* ContextAfter following lines rescued with it.                             *)
DetailSurvives ==
  stage = "squeezed" /\ Len(kept) < MaxKept =>
    \A i \in Failing : (i + 1) .. Min2(i + ContextAfter, MiddleLen) \subseteq Kept
=============================================================================
