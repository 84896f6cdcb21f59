------------------------------- MODULE Passes -------------------------------
(* distillText pass by pass (internal/engine/engine.go) behind the pre-scan  *)
(* canDistill (internal/engine/prescan.go).  Terminal hygiene, pass 4, is    *)
(* modelled in full on small texts (internal/distill/terminal.go), and       *)
(* Router classifies them; what the diff, JSON and test-log passes make of a *)
(* text is an input: DiffPass, JSONTable and Compress model those.           *)
EXTENDS Router

CONSTANTS
  Texts,        \* the blocks considered: non-empty sequences of lines
  SegBytes,     \* bytes of a segment that is not blank
  FoldBytes     \* bytes of a fold marker

Segments == Shown \cup {Blank}
Lines == [esc : BOOLEAN, segs : UNION {[1 .. n -> Segments] : n \in 1 .. 2}]
EmptyLine == [esc |-> FALSE, segs |-> <<Blank>>]

ASSUME PassesAssumption ==
  /\ Texts \subseteq Seq(Lines) \ {<<>>}
  /\ {SegBytes, FoldBytes} \subseteq Nat

VARIABLES
  text,         \* the block
  is,           \* what the other passes and the classifier find in it
  prescanOff,   \* the engine's switch for its neutrality tests
  out,          \* [by, lines, ref, stored]: the pass that changed the text, its
                \* result, the text its marker refers to, the original stored
  pc            \* the next pass, or "done"

vars == <<text, is, prescanOff, out, pc>>
inputs == <<text, is, prescanOff>>

Unchanged == [by |-> "none", lines |-> <<>>, ref |-> <<>>, stored |-> <<>>]

IsMachineOutput(t) == Classify(t) \in {"test", "log"}

(* Behind leading white space, a piece of a JSON document. *)
OpensJSON(t) ==
  \E i \in DOMAIN t :
    Anchored(t[i], "json") /\ \A j \in 1 .. i - 1 : ~Shows(t[j]) /\ ~t[j].esc


(* diff, json: IsUnifiedDiff and CanDistillJSON; diffChanged, jsonChanged:   *)
(* their passes change the text, which takes recognising it; squeezed:       *)
(* compress.Text would change it.                                            *)
Findings(t) ==
  {f \in [diff : BOOLEAN, diffChanged : BOOLEAN, json : BOOLEAN, jsonChanged : BOOLEAN,
          squeezed : BOOLEAN] :
     /\ f.diffChanged => f.diff
     /\ f.json => OpensJSON(t)
     /\ f.jsonChanged => f.json /\ IsJSON(t)
     /\ f.squeezed => IsMachineOutput(t)}
-----------------------------------------------------------------------------
(* Terminal hygiene *)

StripANSI(t) == [i \in DOMAIN t |-> [t[i] EXCEPT !.esc = FALSE]]

(* The last overwrite that shows something; a line that shows nothing is     *)
(* emptied only if it has a carriage return.                                 *)
LastShown(segs) ==
  LET shown == {n \in DOMAIN segs : segs[n] # Blank}
  IN  IF shown = {} THEN Blank ELSE segs[Max(shown)]

CleanCarriageReturns(t) == [i \in DOMAIN t |-> [t[i] EXCEPT !.segs = <<LastShown(@)>>]]

FoldedOneTooMany(line, count) ==        \* mutant: the marker counts the line too
  IF count > 3 THEN <<<<"line", line>>, <<"repeated", count>>>>
               ELSE [n \in 1 .. count |-> <<"line", line>>]

(* flush: a run of more than three is written once, with the count of the    *)
(* rest.                                                                     *)
Folded(line, count) ==
  IF count > 3 THEN <<<<"line", line>>, <<"repeated", count - 1>>>>
               ELSE [n \in 1 .. count |-> <<"line", line>>]

Flushed(f) == f.out \o Folded(f.currLine, f.repeatCount)

(* The loop's body; blank lines never run on. *)
Taken(f, line) ==
  IF line = f.currLine /\ Shows(line)
    THEN [f EXCEPT !.repeatCount = @ + 1]
    ELSE [out |-> Flushed(f), currLine |-> line, repeatCount |-> 1]

FoldRepeatedLines(t) ==
  LET upTo[i \in 0 .. Len(t)] ==
        IF i = 0 THEN [out |-> <<>>, currLine |-> EmptyLine, repeatCount |-> 0]
                 ELSE Taken(upTo[i - 1], t[i])
  IN  Flushed(upTo[Len(t)])

SanitizeTerminal(t) == FoldRepeatedLines(CleanCarriageReturns(StripANSI(t)))

Summed(base, sizes) ==
  LET upTo[n \in 0 .. Len(sizes)] == IF n = 0 THEN base ELSE upTo[n - 1] + sizes[n]
  IN  upTo[Len(sizes)]

SegSize(s) == IF s = Blank THEN 1 ELSE SegBytes
LineSize(line) ==
  Summed(IF line.esc THEN 4 ELSE 0, [n \in DOMAIN line.segs |-> SegSize(line.segs[n])])
Size(t) == Summed(0, [i \in DOMAIN t |-> LineSize(t[i])])
ItemSize(item) == IF item[1] = "line" THEN LineSize(item[2]) ELSE FoldBytes
OutSize(items) == Summed(0, [n \in DOMAIN items |-> ItemSize(items[n])])
-----------------------------------------------------------------------------
HasControl == \E i \in DOMAIN text : text[i].esc \/ Len(text[i].segs) > 1

CanDistillWithoutCR ==                  \* mutant: only the escape byte is looked for
  \/ is.json
  \/ is.diff
  \/ \E i \in DOMAIN text : text[i].esc
  \/ IsMachineOutput(text)

(* The pre-scan: could any pass change the text? *)
CanDistill ==
  \/ is.json
  \/ is.diff
  \/ HasControl
  \/ IsMachineOutput(text)

Init ==
  /\ text \in Texts
  /\ is \in Findings(text)
  /\ prescanOff \in BOOLEAN
  /\ out = Unchanged
  /\ pc = "prescan"

Prescan ==
  /\ pc = "prescan"
  /\ pc' = IF prescanOff \/ CanDistill THEN "diff" ELSE "done"
  /\ UNCHANGED <<inputs, out>>

(* A result is final; storeAndMemo keeps the original under its own hash. *)
Result(by, lines, ref, stored) ==
  /\ out' = [by |-> by, lines |-> lines, ref |-> ref, stored |-> stored]
  /\ pc' = "done"

AsLines(t) == [i \in DOMAIN t |-> <<"line", t[i]>>]

Diff ==
  /\ pc = "diff"
  /\ IF is.diffChanged THEN Result("diff", AsLines(text), <<>>, text) ELSE pc' = "json" /\ UNCHANGED out
  /\ UNCHANGED inputs

JSON ==
  /\ pc = "json"
  /\ IF is.jsonChanged THEN Result("json", AsLines(text), <<>>, text) ELSE pc' = "testlog" /\ UNCHANGED out
  /\ UNCHANGED inputs

(* Pass 3 squeezes the cleaned text and refers to that; test output it does  *)
(* not squeeze, and code, are left alone for good.                           *)
TestLog ==
  /\ pc = "testlog"
  /\ IF is.squeezed
       THEN LET cleaned == CleanCarriageReturns(StripANSI(text))
            IN  Result("testlog", AsLines(cleaned), cleaned, text)
       ELSE pc' = (IF ~IsMachineOutput(text) /\ Classify(text) # "code" THEN "terminal" ELSE "done") /\ UNCHANGED out
  /\ UNCHANGED inputs

TerminalStoresCleaned ==                \* mutant: the cleaned text is stored
  /\ pc = "terminal"
  /\ LET cleaned == SanitizeTerminal(text)
     IN  IF Size(text) >= 64 /\ OutSize(cleaned) < (9 * Size(text)) \div 10
           THEN Result("terminal", cleaned, <<>>, CleanCarriageReturns(StripANSI(text)))
           ELSE pc' = "done" /\ UNCHANGED out
  /\ UNCHANGED inputs

Terminal ==
  /\ pc = "terminal"
  /\ LET cleaned == SanitizeTerminal(text)
     IN  IF Size(text) >= 64 /\ OutSize(cleaned) < (9 * Size(text)) \div 10
           THEN Result("terminal", cleaned, <<>>, text)
           ELSE pc' = "done" /\ UNCHANGED out
  /\ UNCHANGED inputs

Done == pc = "done" /\ UNCHANGED vars

Next == Prescan \/ Diff \/ JSON \/ TestLog \/ Terminal \/ Done

Spec == Init /\ [][Next]_vars
-----------------------------------------------------------------------------
Rewritten == pc = "done" /\ out # Unchanged

Unfolded(t, item) ==
  IF item[1] = "line" THEN Append(t, item[2])
  ELSE t \o [n \in 1 .. item[2] |-> t[Len(t)]]

Expanded(items) ==                      \* undo the folding
  LET upTo[n \in 0 .. Len(items)] ==
        IF n = 0 THEN <<>> ELSE Unfolded(upTo[n - 1], items[n])
  IN  upTo[Len(items)]

(* What hygiene writes can be read back: expanding the fold markers gives,   *)
(* line for line, what a terminal would have shown (terminal.go:86-122).     *)
FoldingIsExact ==
  Rewritten /\ out.by = "terminal" =>
    LET screen == Expanded(out.lines)
    IN  /\ Len(screen) = Len(text)
        /\ \A i \in DOMAIN text :
             \A n \in DOMAIN text[i].segs :
               (/\ text[i].segs[n] # Blank
                /\ \A m \in DOMAIN text[i].segs : m > n => text[i].segs[m] = Blank)
                 => screen[i].segs = <<text[i].segs[n]>>

(* What the pre-scan can turn away wrongly is bounded: with the pre-scan off *)
(* only a text with a folded run is changed against its verdict, never a     *)
(* diff, a JSON text, test output or one with a control byte                 *)
(* (prescan.go:20-25).                                                       *)
SkipCostsOnlyFolds ==
  Rewritten /\ ~CanDistill =>
    out.by = "terminal" /\ \E n \in DOMAIN out.lines : out.lines[n][1] = "repeated"

(* A changed text is reversible (README:20-21): its original is stored, and  *)
(* the ref in a marker of pass 3 leads to it unless hygiene has changed a    *)
(* byte before the squeeze, the one case where it leads nowhere.             *)
RefLeadsToStored ==
  Rewritten =>
    /\ out.stored = text
    /\ out.by = "testlog" /\ ~HasControl => out.ref = out.stored

(* A source file keeps every byte, whatever test output its fixtures quote,  *)
(* and its escapes: only a diff marker in it gets it changed, because the    *)
(* diff pass runs before the classifier (router.go:333-339, engine.go:214).  *)
CodeChangedOnlyAsDiff ==
  Rewritten /\ IsCode(text) => out.by = "diff" /\ is.diff

(* "a false negative would drop savings the engine used to find, which is    *)
(* why every condition below is a necessary condition of its pass            *)
(* succeeding" (prescan.go:20-23): with the pre-scan off no pass changes a   *)
(* text that it turns away.                                                  *)
PrescanIsNeutral == Rewritten => CanDistill

(* "prose, source code and JSON are classified and routed, not mutated. A    *)
(* file you are about to compile or diff comes out byte-identical"           *)
(* (README:52-53).                                                           *)
SourceSafe == Rewritten => Classify(text) # "code"

(* "human-written text: never touch" (router.go:25). *)
ProseSafe == Rewritten => Classify(text) # "prose"

(* "JSON blobs are routed but NOT mutated by the head/tail squeezer: naive   *)
(* truncation of JSON breaks validity" (router.go:5-6).                      *)
JSONNeverSqueezed == Rewritten /\ IsJSON(text) => out.by # "testlog"

(* "every elision is locally reversible by ref" (README:20-21): the marker   *)
(* of pass 3 names a text that storeAndMemo stores.                          *)
EveryMarkerNamesStored == Rewritten /\ out.by = "testlog" => out.ref = out.stored
=============================================================================
