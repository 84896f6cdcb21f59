-------------------------------- MODULE Router --------------------------------
(* router.Classify (internal/router/router.go): whether a text is JSON,      *)
(* source code, test output, a log or prose, by marks counted on a prefix    *)
(* and on sampled windows.  Probe and windows are cut in bytes; here they    *)
(* are cut between lines.                                                    *)
(*                                                                           *)
(* A line is [esc, segs]: whether it opens with an escape sequence, and what *)
(* it shows between its carriage returns.                                    *)
EXTENDS Naturals, Sequences, FiniteSets, SequencesExt

CONSTANTS
  Shown,        \* what a segment may show
  Blank,        \* one that is empty or white space
  Traits,       \* [Shown -> the marks it carries, see Marks]
  Probe,        \* lines of the prefix (8192 bytes)
  HeaderLines,  \* lines that may precede an opener (codeHeaderLines, 12)
  WindowLines   \* lines of a window (windowLen, 32 KB)

(* opener, marker, comment: codeOpeners, codeMarkers, commentOpeners; tests: *)
(* occurrences of testHits; crash: opens with a crashHit or a diagnostic;    *)
(* levels: occurrences of logLevelHits; stamp: opens with a date or a clock; *)
(* prefix: holds a logPrefixHit; json: a piece of a JSON document, no line of *)
(* which opens with a codeOpener.                                            *)
Marks ==
  [opener : BOOLEAN, marker : BOOLEAN, comment : BOOLEAN, tests : Nat, crash : BOOLEAN,
   levels : Nat, stamp : BOOLEAN, prefix : BOOLEAN, json : BOOLEAN]

ASSUME RouterAssumption ==
  /\ Blank \notin Shown
  /\ Traits \in [Shown -> Marks]
  /\ {Probe, HeaderLines, WindowLines} \subseteq Nat \ {0}
  /\ \A s \in Shown : ~(Traits[s].opener /\ Traits[s].json)

Shows(line) == \E n \in DOMAIN line.segs : line.segs[n] # Blank

ShownIn(line) == {n \in DOMAIN line.segs : line.segs[n] # Blank}

(* What a line opens with, an escape sequence being the opening of its own:  *)
(* at column 0, or behind white space, which a carriage return is, too.      *)
AtColumn0(line, mark) ==
  ~line.esc /\ line.segs[1] # Blank /\ Traits[line.segs[1]][mark]

Anchored(line, mark) ==
  /\ ~line.esc
  /\ \E n \in ShownIn(line) :
       (\A m \in ShownIn(line) : n <= m) /\ Traits[line.segs[n]][mark]

Count(line, hits) ==
  FoldLeft(LAMBDA sum, s : IF s = Blank THEN sum ELSE sum + Traits[s][hits], 0, line.segs)

One(b) == IF b THEN 1 ELSE 0

(* What a line adds to the score of a kind. *)
Score(line, kind) ==
  CASE kind = "code" -> One(Anchored(line, "marker"))
    [] kind = "test" -> Count(line, "tests") + One(Anchored(line, "crash"))
    [] kind = "level" -> Count(line, "levels")
    [] kind = "stamp" -> One(AtColumn0(line, "stamp"))

Total(t, kind) == FoldLeft(LAMBDA sum, line : sum + Score(line, kind), 0, t)

Prefix(t, n) == SubSeq(t, 1, IF Len(t) <= n THEN Len(t) ELSE n)

(* Head, middle and tail of a text that is longer than three windows. *)
Windows(t) ==
  IF Len(t) <= 3 * WindowLines THEN <<t>>
  ELSE LET mid == Len(t) \div 2
       IN  <<Prefix(t, WindowLines),
             SubSeq(t, mid - (WindowLines \div 2) + 1, mid - (WindowLines \div 2) + WindowLines),
             SubSeq(t, Len(t) - WindowLines + 1, Len(t))>>

Sampled(t, kind) == FoldLeft(LAMBDA sum, w : sum + Total(w, kind), 0, Windows(t))
-----------------------------------------------------------------------------
IsJSON(t) ==
  /\ \E i \in DOMAIN t : Shows(t[i])
  /\ \A i \in DOMAIN t : ~t[i].esc /\ \A n \in ShownIn(t[i]) : Traits[t[i].segs[n]].json

(* A document the probe cuts is not valid any more. *)
ProbedJSON(t) == IsJSON(t) /\ \A i \in DOMAIN t : i > Probe => ~Shows(t[i])

(* An opener at column 0, behind fewer than HeaderLines lines that are       *)
(* neither blank nor comments.                                               *)
HasCodeOpener(head) ==
  \E i \in DOMAIN head :
    /\ AtColumn0(head[i], "opener")
    /\ Cardinality({j \in 1 .. i - 1 :
         (Shows(head[j]) \/ head[j].esc) /\ ~Anchored(head[j], "comment")}) < HeaderLines

IsCode(t) ==
  /\ HasCodeOpener(Prefix(t, Probe))
  /\ Sampled(t, "code") >= 2

TestScore(t) == Sampled(t, "test")

(* Each window stops counting time stamps at three. *)
Stamped(t) ==
  FoldLeft(LAMBDA sum, w : sum + Min({Total(w, "stamp"), 3}), 0, Windows(t))

(* The bracket of an escape sequence is a logPrefixHit, too. *)
IsLog(t) ==
  /\ Sampled(t, "level") + Stamped(t) >= 3
  /\ \/ Stamped(t) >= 3
     \/ \E i \in DOMAIN Prefix(t, Probe) :
          t[i].esc \/ \E n \in ShownIn(t[i]) : Traits[t[i].segs[n]].prefix

ClassifyTestsFirst(t) ==                \* mutant: test output before code
  CASE ProbedJSON(t) -> "json"
    [] ~ProbedJSON(t) /\ TestScore(t) >= 3 -> "test"
    [] ~ProbedJSON(t) /\ TestScore(t) < 3 /\ IsCode(t) -> "code"
    [] ~ProbedJSON(t) /\ TestScore(t) < 3 /\ ~IsCode(t) /\ IsLog(t) -> "log"
    [] OTHER -> "prose"

Classify(t) ==
  CASE ProbedJSON(t) -> "json"
    [] ~ProbedJSON(t) /\ IsCode(t) -> "code"
    [] ~ProbedJSON(t) /\ ~IsCode(t) /\ TestScore(t) >= 3 -> "test"
    [] ~ProbedJSON(t) /\ ~IsCode(t) /\ TestScore(t) < 3 /\ IsLog(t) -> "log"
    [] OTHER -> "prose"
=============================================================================
