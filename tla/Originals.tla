------------------------------ MODULE Originals ------------------------------
(* The originals store, internal/store/originals.go: a map from content      *)
(* reference to text, appended record by record to one JSONL file that       *)
(* several squoze processes may share (--origins-dir).  A text is abstracted *)
(* to its reference: the store is content addressed, one ref has one text.   *)
(*                                                                           *)
(* The file is a list of terminated lines and a tail without its newline.    *)
(* A write that fails or is cut by a crash leaves nothing, part of a record  *)
(* (Junk) or the whole record without its newline in the tail, and the next  *)
(* append glues its record to that tail: such a line does not parse.  A line *)
(* over the scanner's 64 MB ends the scan with an error.                     *)
EXTENDS Naturals, Sequences, FiniteSets

CONSTANTS
  Refs,       \* references of the texts the engine squeezes
  Procs,      \* processes that open the same directory
  Big,        \* those whose record is longer than the scanner's buffer
  TooLong,    \* a line, or a tail, of that length
  Junk,       \* a line, or a tail, that json.Unmarshal rejects
  Empty,      \* the file ends with a newline: there is no tail
  MaxFaults   \* bound on failed or torn writes

ASSUME JunkAssumption ==
  /\ Big \subseteq Refs
  /\ Junk \notin Refs /\ TooLong \notin Refs \cup {Junk}
  /\ Empty \notin Refs \cup {Junk, TooLong}
ASSUME FaultsAssumption == MaxFaults \in Nat

VARIABLES
  mem,        \* each process's map, as the set of its refs
  lines,      \* the terminated lines of the file
  tail,       \* the bytes after the last newline
  pc,         \* "down", "up", or "writing" between map update and append
  arg,        \* the ref being written
  acked,      \* refs for which some Put has returned without an error
  faults      \* writes that failed or were torn so far

vars == <<mem, lines, tail, pc, arg, acked, faults>>

Init ==
  /\ mem = [p \in Procs |-> {}]
  /\ lines = <<>>
  /\ tail = Empty
  /\ pc = [p \in Procs |-> "down"]
  /\ arg = [p \in Procs |-> Empty]
  /\ acked = {}
  /\ faults = 0

Opens == tail # TooLong /\ \A i \in DOMAIN lines : lines[i] # TooLong

(* What a scan of the file finds: every line that parses, and a last record  *)
(* that only lacks its newline.                                              *)
Loadable ==
  ({lines[i] : i \in DOMAIN lines} \cup {tail}) \cap Refs

Open(p) ==
  /\ pc[p] = "down"
  /\ Opens
  /\ mem' = [mem EXCEPT ![p] = Loadable]
  /\ pc' = [pc EXCEPT ![p] = "up"]
  /\ UNCHANGED <<lines, tail, arg, acked, faults>>

(* OpenOriginals returns the scanner's error, and the process ends. *)
OpenFails(p) ==
  /\ pc[p] = "down"
  /\ ~Opens
  /\ UNCHANGED vars

(* Put of a text the map already holds returns at once, without an error. *)
PutKnown(p, r) ==
  /\ pc[p] = "up"
  /\ r \in mem[p]
  /\ acked' = acked \cup {r}
  /\ UNCHANGED <<mem, lines, tail, pc, arg, faults>>

(* Put of a new text updates the map first; the mutex is held until the      *)
(* append has returned.                                                      *)
PutNew(p, r) ==
  /\ pc[p] = "up"
  /\ r \notin mem[p]
  /\ mem' = [mem EXCEPT ![p] = @ \cup {r}]
  /\ pc' = [pc EXCEPT ![p] = "writing"]
  /\ arg' = [arg EXCEPT ![p] = r]
  /\ UNCHANGED <<lines, tail, acked, faults>>

AppendTruncating(p) ==                  \* mutant: O_TRUNC for O_APPEND
  /\ lines' = <<arg[p]>>
  /\ tail' = Empty

Line(p) ==
  CASE arg[p] \in Big \/ tail = TooLong -> TooLong
    [] arg[p] \notin Big /\ tail = Empty -> arg[p]
    [] OTHER -> Junk

(* One write of record and newline at the end of the file (O_APPEND). *)
AppendRecord(p) ==
  /\ lines' = Append(lines, Line(p))
  /\ tail' = Empty

Written(p) ==
  /\ pc[p] = "writing"
  /\ AppendRecord(p)
  /\ acked' = acked \cup {arg[p]}
  /\ pc' = [pc EXCEPT ![p] = "up"]
  /\ arg' = [arg EXCEPT ![p] = Empty]
  /\ UNCHANGED <<mem, faults>>

(* What an interrupted write leaves behind the last newline. *)
TornTail(p) ==
  IF tail = TooLong THEN {tail} ELSE {tail, Junk, Line(p)}

Torn(p) ==
  /\ pc[p] = "writing"
  /\ faults < MaxFaults
  /\ faults' = faults + 1
  /\ tail' \in TornTail(p)
  /\ arg' = [arg EXCEPT ![p] = Empty]
  /\ UNCHANGED <<lines, acked>>

(* The open or the write fails: Put returns the error, the map keeps the ref.*)
WriteFails(p) ==
  /\ Torn(p)
  /\ pc' = [pc EXCEPT ![p] = "up"]
  /\ UNCHANGED mem

Down(p) ==
  /\ pc' = [pc EXCEPT ![p] = "down"]
  /\ mem' = [mem EXCEPT ![p] = {}]

CrashInWrite(p) == Torn(p) /\ Down(p)

(* The process is killed after the append but before Put returns. *)
CrashAfterWrite(p) ==
  /\ pc[p] = "writing"
  /\ AppendRecord(p)
  /\ Down(p)
  /\ arg' = [arg EXCEPT ![p] = Empty]
  /\ UNCHANGED <<acked, faults>>

Exit(p) ==
  /\ pc[p] = "up"
  /\ Down(p)
  /\ UNCHANGED <<lines, tail, arg, acked, faults>>

Next ==
  \E p \in Procs :
     \/ Open(p) \/ OpenFails(p) \/ Written(p) \/ WriteFails(p)
     \/ CrashInWrite(p) \/ CrashAfterWrite(p) \/ Exit(p)
     \/ \E r \in Refs : PutKnown(p, r) \/ PutNew(p, r)

Spec == Init /\ [][Next]_vars
-----------------------------------------------------------------------------
(* The package comment promises that any elision can be resolved back to     *)
(* exact bytes (originals.go:1-8): what a Put accepted, a restart finds.     *)
AckedIsDurable == acked \subseteq Loadable

(* The damage of a failed or torn write is bounded: it costs at most its own *)
(* record, which Put reports as stored ever after (originals.go:79-83), and  *)
(* the next record, glued to its remains (originals.go:92-93).  Everything   *)
(* else that was accepted survives any number of restarts of any process,    *)
(* until a record too long for the scanner is written.                       *)
LossIsBounded == Opens => Cardinality(acked \ Loadable) <= 2 * faults

(* "any elision can be resolved back to exact bytes" (originals.go:3-4): no  *)
(* text that Put accepts keeps the store from being opened.                  *)
StoreOpens == Opens
=============================================================================
