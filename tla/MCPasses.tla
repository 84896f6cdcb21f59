------------------------------- MODULE MCPasses -------------------------------
(* Two sets of texts: up to four lines of one content, with every use of      *)
(* escapes, overwrites and blanks, for terminal hygiene; and up to four plain *)
(* lines of every content (fail also in colour) for the classifier, whose     *)
(* windows are one line long, so that four lines are sampled.                 *)
(*   decl      func f() {                 body      an indented return        *)
(*   comment   // text                    fail      FAILED t.py - assert x    *)
(*   mention   a sentence on pytest       stamp     2026-08-24T10:00Z INFO    *)
(*   level     ERROR [db] lost            row       {"status": "FAILED"},     *)
(*   text      none of these                                                  *)
EXTENDS Passes

MCShown == {"decl", "body", "comment", "fail", "mention", "stamp", "level", "row", "text"}

Plain ==
  [opener |-> FALSE, marker |-> FALSE, comment |-> FALSE, tests |-> 0, crash |-> FALSE,
   levels |-> 0, stamp |-> FALSE, prefix |-> FALSE, json |-> FALSE]

MCTraits ==
  [s \in MCShown |->
    CASE s = "decl" -> [Plain EXCEPT !.opener = TRUE, !.marker = TRUE]
      [] s = "body" -> [Plain EXCEPT !.marker = TRUE]
      [] s = "comment" -> [Plain EXCEPT !.comment = TRUE]
      [] s = "fail" -> [Plain EXCEPT !.tests = 2, !.crash = TRUE]
      [] s = "mention" -> [Plain EXCEPT !.tests = 1]
      [] s = "stamp" -> [Plain EXCEPT !.levels = 1, !.stamp = TRUE]
      [] s = "level" -> [Plain EXCEPT !.levels = 1, !.prefix = TRUE]
      [] s = "row" -> [Plain EXCEPT !.tests = 1, !.json = TRUE]
      [] OTHER -> Plain]

UpTo4(lines) == UNION {[1 .. n -> lines] : n \in 1 .. 4}

HygieneLines == {l \in Lines : \A n \in DOMAIN l.segs : l.segs[n] \in {"text", Blank}}

ContentLines ==
  {[esc |-> FALSE, segs |-> <<s>>] : s \in MCShown} \cup {[esc |-> TRUE, segs |-> <<"fail">>]}

MCTexts == UpTo4(HygieneLines) \cup UpTo4(ContentLines)
=============================================================================
