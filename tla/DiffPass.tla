------------------------------ MODULE DiffPass ------------------------------
(* Pass 1 of distillText: DistillDiff (internal/distill/diff.go), line by    *)
(* line.  A line is reduced to what the pass tells apart:                    *)
(*   "git.app", "git.lock"    diff --git, of a source file or a lockfile     *)
(*   "plus.app", "plus.lock"  the --- a/ and +++ b/ lines of a file          *)
(*   "bare"                   --- and +++ lines without a/ and b/, and @@ -   *)
(*   "ctx"                    an unchanged line (first byte a space)         *)
(*   "mod"                    an added or removed line                       *)
(*   "meta"                   anything else: hunk headers, squoze's markers  *)
(* A section is an interval of the text.  The result of a changed diff may   *)
(* come back as the input of a second pass, when a client resends it.        *)
EXTENDS Naturals, Sequences, SequencesExt, FiniteSetsExt

CONSTANTS
  Kinds,        \* the kinds of line a text is made of
  MinLines,     \* lines below which a diff is under the 512 byte floor
  DiffLines,    \* bound on the lines of a text
  LockLines,    \* a longer lockfile section is summarized (20)
  MinSection,   \* a shorter section is never compacted (15)
  MaxContext,   \* a longer unchanged run is compacted (8)
  KeepContext   \* to this many lines at either end (2)

LineKinds ==
  {"git.app", "git.lock", "plus.app", "plus.lock", "bare", "ctx", "mod", "meta"}

ASSUME DiffAssumption ==
  /\ Kinds \subseteq LineKinds
  /\ {MinLines, DiffLines, LockLines, MinSection, MaxContext, KeepContext} \subseteq Nat
  /\ 2 * KeepContext + 1 <= MaxContext

VARIABLES
  diff,         \* the input
  pos,          \* lines read
  start,        \* first line of the current section
  path,         \* "none", or the kind of file the section is taken to be of
  written,      \* the output, item by item
  changed,
  pass,         \* 1, or 2 for a result that is fed back
  mode          \* "start", "lines" or "done"

diffVars == <<diff, pos, start, path, written, changed, pass, mode>>

Git(k) == k \in {"git.app", "git.lock"}
Plus(k) == k \in {"plus.app", "plus.lock"}
FileKind(k) == IF k \in {"git.lock", "plus.lock"} THEN "lock" ELSE "app"

IsUnifiedDiff == \E i \in DOMAIN diff : Git(diff[i]) \/ Plus(diff[i]) \/ diff[i] = "bare"

Diffs == UNION {[1 .. n -> Kinds] : n \in 1 .. DiffLines}

DiffInit ==
  /\ diff \in Diffs
  /\ pos = 0 /\ start = 1 /\ path = "none" /\ written = <<>> /\ changed = FALSE
  /\ pass = 1 /\ mode = "start"
-----------------------------------------------------------------------------
Line(i) == <<"line", i>>
Verbatim(a, b) == [n \in 1 .. b - a + 1 |-> Line(a + n - 1)]

FlushedContextOneShort(i, run) ==       \* mutant: the last kept line is lost
  IF run <= MaxContext THEN Verbatim(i - run + 1, i)
  ELSE Verbatim(i - run + 1, i - run + KeepContext)
         \o <<<<"context", run - 2 * KeepContext>>>> \o Verbatim(i - KeepContext + 2, i)

(* flushContext: a long run of unchanged lines, up to line i, keeps its ends. *)
FlushedContext(i, run) ==
  IF run <= MaxContext THEN Verbatim(i - run + 1, i)
  ELSE Verbatim(i - run + 1, i - run + KeepContext)
         \o <<<<"context", run - 2 * KeepContext>>>> \o Verbatim(i - KeepContext + 1, i)

(* One round of compactUnchangedContext: line i after a run of unread ones. *)
Compacting(c, i) ==
  IF diff[i] = "ctx" THEN [c EXCEPT !.run = @ + 1]
  ELSE [res |-> Append(c.res \o FlushedContext(i - 1, c.run), Line(i)), run |-> 0]

Compacted(a, b) ==
  LET len == b - a + 1
      upTo[n \in 0 .. len] ==
        IF n = 0 THEN [res |-> <<>>, run |-> 0] ELSE Compacting(upTo[n - 1], a + n - 1)
  IN  IF len < MinSection THEN Verbatim(a, b)
      ELSE upTo[len].res \o FlushedContext(b, upTo[len].run)

(* flushFileSection: a long lockfile section becomes one summary line. *)
FlushedSection(a, b) ==
  IF path = "lock" /\ b - a + 1 > LockLines THEN <<<<"summary", a, b>>>>
  ELSE Compacted(a, b)

FlushSection ==
  /\ written' = written \o FlushedSection(start, pos)
  /\ changed' = (changed \/ FlushedSection(start, pos) # Verbatim(start, pos))

Begin ==
  /\ mode = "start"
  /\ mode' = IF IsUnifiedDiff /\ Len(diff) >= MinLines THEN "lines" ELSE "done"
  /\ UNCHANGED <<diff, pos, start, path, written, changed, pass>>

Reading(k) == mode = "lines" /\ pos < Len(diff) /\ k = diff[pos + 1]

GitLineKeepsSection ==                  \* mutant: no flush at a new file
  \E k \in LineKinds :
    /\ Reading(k) /\ Git(k)
    /\ path' = FileKind(k)
    /\ pos' = pos + 1
    /\ UNCHANGED <<diff, start, written, changed, pass, mode>>

GitLine ==
  \E k \in LineKinds :
    /\ Reading(k) /\ Git(k)
    /\ FlushSection
    /\ path' = FileKind(k)
    /\ start' = pos + 1
    /\ pos' = pos + 1
    /\ UNCHANGED <<diff, pass, mode>>

(* +++ b/ names the file of a section that has no name yet, and never starts *)
(* a section of its own.                                                     *)
PlusLine ==
  \E k \in LineKinds :
    /\ Reading(k) /\ Plus(k)
    /\ path' = IF path = "none" THEN FileKind(k) ELSE path
    /\ pos' = pos + 1
    /\ UNCHANGED <<diff, start, written, changed, pass, mode>>

OtherLine ==
  \E k \in LineKinds :
    /\ Reading(k) /\ ~Git(k) /\ ~Plus(k)
    /\ pos' = pos + 1
    /\ UNCHANGED <<diff, start, path, written, changed, pass, mode>>

End ==
  /\ mode = "lines" /\ pos = Len(diff)
  /\ FlushSection
  /\ start' = pos + 1
  /\ path' = "none"
  /\ mode' = "done"
  /\ UNCHANGED <<diff, pos, pass>>

(* How an item of the output reads as a line of a later input. *)
Reread(item) ==
  IF item[1] = "line" THEN diff[item[2]] ELSE IF item[1] = "context" THEN "ctx" ELSE "meta"

Resend ==
  /\ mode = "done" /\ changed /\ pass = 1
  /\ diff' = [i \in DOMAIN written |-> Reread(written[i])]
  /\ pos' = 0 /\ start' = 1 /\ path' = "none" /\ written' = <<>> /\ changed' = FALSE
  /\ pass' = 2 /\ mode' = "start"

Finished == mode = "done" /\ (pass = 2 \/ ~changed) /\ UNCHANGED diffVars

DiffNext == Begin \/ GitLine \/ PlusLine \/ OtherLine \/ End \/ Resend \/ Finished

DiffSpec == DiffInit /\ [][DiffNext]_diffVars
-----------------------------------------------------------------------------
Standing(item) ==                       \* the input lines an item stands for
  IF item[1] = "line" THEN 1
  ELSE IF item[1] = "context" THEN item[2] ELSE item[3] - item[2] + 1

StandsFor(items) ==
  LET upTo[n \in 0 .. Len(items)] == IF n = 0 THEN 0 ELSE upTo[n - 1] + Standing(items[n])
  IN  upTo[Len(items)]

(* The counts in the markers are true: the lines that stand in the output,   *)
(* the context lines it says it elided and the sections it summarizes add up *)
(* to exactly what has been flushed (diff.go:80-82, 134).                    *)
EveryLineAccounted == StandsFor(written) = start - 1

FileOf(i) ==                            \* the file line i belongs to
  LET headers == {j \in 1 .. i : Git(diff[j]) \/ Plus(diff[j])}
  IN  IF headers = {} THEN "app" ELSE FileKind(diff[Max(headers)])

(* Every section is opened by a diff --git line, as in every diff git writes. *)
GitDiff ==
  \A i \in DOMAIN diff : Plus(diff[i]) =>
    \E j \in 1 .. i - 1 :
      /\ Git(diff[j]) /\ FileKind(diff[j]) = FileKind(diff[i])
      /\ \A n \in j + 1 .. i - 1 : ~Git(diff[n]) /\ ~Plus(diff[n])

(* "Real code modifications are preserved 100% verbatim" (diff.go:49), in    *)
(* what git writes, up to the lines flushed so far, in both passes.          *)
ModificationsVerbatim ==
  GitDiff =>
    \A i \in 1 .. start - 1 :
      diff[i] = "mod" /\ FileOf(i) = "app" =>
        \E k \in DOMAIN written : written[k] = Line(i)

(* The same of every diff, of plain ones too. *)
AllModificationsVerbatim ==
  \A i \in 1 .. start - 1 :
    diff[i] = "mod" /\ FileOf(i) = "app" =>
      \E k \in DOMAIN written : written[k] = Line(i)

(* "processing twice equals processing once" (contracts_test.go:18). *)
TwiceIsOnce == pass = 2 /\ mode = "done" => ~changed

(* "every elision is locally reversible by ref" (README:20-21): the text a   *)
(* summary names is the one that is stored, which is the whole block.        *)
SummaryNamesStored ==
  \A n \in DOMAIN written : written[n][1] = "summary" => written[n] = <<"summary", 1, Len(diff)>>
=============================================================================
