------------------------------ MODULE UserText ------------------------------
(* distillUserContent (internal/engine/user_tool_scanner.go): the search for *)
(* machine output a user has pasted into a message, wrapper by wrapper over  *)
(* the text as the wrappers before have left it.  A text is a sequence of    *)
(* tokens; what distillText makes of a region is any elision.                *)
EXTENDS Naturals, Sequences, SequencesExt, FiniteSetsExt

CONSTANTS
  Inputs,       \* the user texts
  Human,        \* words only a human writes: no input has one in a wrapper
  Tags,         \* the XML wrappers, in the order they are searched for
  Fences,       \* the fence labels, in the order they are searched for
  MinText,      \* shorter texts are not looked at (40 bytes)
  MinInner      \* shorter regions are not distilled (64 bytes)

(* Tokens: a word, <tag ...>, <tag without its bracket, </tag>, a fence line *)
(* with its label, the line that closes one, a header of raw tool output and *)
(* the marker of an elision.                                                 *)
Marker == <<"word", "marker">>
Tokens == ({"word", "open", "half", "close", "fence", "endfence"} \X STRING) \cup {Marker}

Word(w) == <<"word", w>>
Open(tag) == <<"open", tag>>
Half(tag) == <<"half", tag>>
Close(tag) == <<"close", tag>>
Fence(f) == <<"fence", f>>
EndFence == <<"endfence", "line">>
Arrow == <<"word", "->">>
Header == <<"word", "diff --git">>

ASSUME UserTextAssumption ==
  /\ {MinText, MinInner} \subseteq Nat
  /\ Inputs \subseteq Seq(Tokens)
  /\ {Tags, Fences} \subseteq Seq(STRING)

VARIABLES
  message,      \* the user message
  result,       \* what it has become
  rewritten,    \* something was replaced
  searchPos,    \* where the search goes on in the result
  todo,         \* the wrappers still to be searched for, this one first
  at            \* "floor", "scan", "whole" or "done"

userVars == <<message, result, rewritten, searchPos, todo, at>>

Wrappers == [n \in DOMAIN Tags |-> <<"tag", Tags[n]>>]
            \o [n \in DOMAIN Fences |-> <<"fence", Fences[n]>>]
-----------------------------------------------------------------------------
(* strings.Index: the first position from i on whose token is in S, if any. *)
Index(t, i, S) ==
  LET hits == {n \in i .. Len(t) : t[n] \in S}
  IN  IF hits = {} THEN {} ELSE {Min(hits)}

LastIndex(t, i, S) ==
  LET hits == {n \in i .. Len(t) : t[n] \in S}
  IN  IF hits = {} THEN {} ELSE {Max(hits)}

HasBracket(t) == {t[n] : n \in DOMAIN t} \cap
                   ({Arrow} \cup {Open(tag) : tag \in ToSet(Tags)} \cup {Close(tag) : tag \in ToSet(Tags)})

(* Where a wrapper's content starts: behind the next bracket, or its line. *)
Starts(t, i, w) ==
  IF w[1] = "tag"
    THEN UNION {{n + 1 : n \in Index(t, o, HasBracket(t))} : o \in Index(t, i, {Open(w[2]), Half(w[2])})}
    ELSE {o + 1 : o \in Index(t, i, {Fence(w[2])})}

EndsGreedily(t, start, w) ==            \* mutant: the last closing tag is taken
  IF w[1] = "tag" THEN LastIndex(t, start, {Close(w[2])})
  ELSE LastIndex(t, start + 1, {EndFence} \cup {Fence(f) : f \in ToSet(Fences)})

(* Where it ends: any line that begins with a fence closes one, if a line of *)
(* content stands before it.                                                 *)
Ends(t, start, w) ==
  IF w[1] = "tag" THEN Index(t, start, {Close(w[2])})
  ELSE Index(t, start + 1, {EndFence} \cup {Fence(f) : f \in ToSet(Fences)})

(* [start, end): the next region of wrapper w from i on. *)
Region(t, i, w) == UNION {{<<s, n>> : n \in Ends(t, s, w)} : s \in Starts(t, i, w)}

(* distillText: what some pass may make of a region is an elision in it.     *)
Elided(t, i, n) == SubSeq(t, 1, i) \o <<Marker>> \o SubSeq(t, i + n + 1, Len(t))

Distilled(inner) ==
  {d \in UNION {{Elided(inner, i, n) : n \in 1 .. Len(inner)} : i \in 0 .. Len(inner)} :
     Len(inner) >= MinInner /\ d # inner}
-----------------------------------------------------------------------------
UserInit ==
  /\ message \in Inputs
  /\ result = message
  /\ rewritten = FALSE
  /\ searchPos = 1
  /\ todo = Wrappers
  /\ at = "floor"

Floor ==
  /\ at = "floor"
  /\ at' = IF Len(message) < MinText THEN "done" ELSE "scan"
  /\ UNCHANGED <<message, result, rewritten, searchPos, todo>>

(* A region is replaced, and the search goes on behind its wrapper. *)
Replace ==
  /\ at = "scan" /\ todo # <<>>
  /\ \E r \in Region(result, searchPos, Head(todo)) :
       \E d \in Distilled(SubSeq(result, r[1], r[2] - 1)) :
         /\ result' = SubSeq(result, 1, r[1] - 1) \o d \o SubSeq(result, r[2], Len(result))
         /\ searchPos' = r[1] + Len(d) + 1
  /\ rewritten' = TRUE
  /\ UNCHANGED <<message, todo, at>>

LeaveWhereItIs ==                       \* mutant: the search does not move on
  /\ at = "scan" /\ todo # <<>>
  /\ \E r \in Region(result, searchPos, Head(todo)) : searchPos' = r[1] - 1
  /\ UNCHANGED <<message, result, rewritten, todo, at>>

(* No pass changes the region. *)
Leave ==
  /\ at = "scan" /\ todo # <<>>
  /\ \E r \in Region(result, searchPos, Head(todo)) : searchPos' = r[2] + 1
  /\ UNCHANGED <<message, result, rewritten, todo, at>>

(* No more regions of this wrapper, or one that is not closed. *)
NextWrapper ==
  /\ at = "scan" /\ todo # <<>>
  /\ Region(result, searchPos, Head(todo)) = {}
  /\ todo' = Tail(todo)
  /\ searchPos' = 1
  /\ UNCHANGED <<message, result, rewritten, at>>

Scanned ==
  /\ at = "scan" /\ todo = <<>>
  /\ at' = IF ~rewritten /\ result[1] = Header THEN "whole" ELSE "done"
  /\ UNCHANGED <<message, result, rewritten, searchPos, todo>>

(* A message that starts like tool output is distilled as one. *)
Whole ==
  /\ at = "whole"
  /\ \/ \E d \in Distilled(result) : result' = d /\ rewritten' = TRUE
     \/ UNCHANGED <<result, rewritten>>
  /\ at' = "done"
  /\ UNCHANGED <<message, searchPos, todo>>

ScanOver == at = "done" /\ UNCHANGED userVars

UserNext == Floor \/ Replace \/ Leave \/ NextWrapper \/ Scanned \/ Whole \/ ScanOver

(* The scan is sequential code: it goes on as long as it can. *)
UserSpec == UserInit /\ [][UserNext]_userVars /\ WF_userVars(UserNext)
-----------------------------------------------------------------------------
Opens(tok) == tok[1] \in {"open", "half", "fence"}
Closes(tok) == tok[1] \in {"close", "endfence"}
Plain(tok) == ~Opens(tok) /\ ~Closes(tok)
Matches(tok, tok2) ==
  tok2 = IF tok[1] = "fence" THEN EndFence ELSE Close(tok[2])

(* Wrappers opened and closed one after the other, none inside another, none *)
(* only mentioned, each with some content.                                   *)
Flat(t) ==
  /\ \A n \in DOMAIN t : Opens(t[n]) =>
       /\ t[n][1] # "half"
       /\ \E m \in n + 2 .. Len(t) :
            Matches(t[n], t[m]) /\ \A k \in n + 1 .. m - 1 : Plain(t[k])
  /\ \A m \in DOMAIN t : Closes(t[m]) =>
       \E n \in 1 .. m - 2 : Opens(t[n]) /\ \A k \in n + 1 .. m - 1 : Plain(t[k])

(* What is not inside a wrapper, the wrappers included. *)
Passing(c, tok) ==
  IF Closes(tok) THEN [in |-> FALSE, kept |-> Append(c.kept, tok)]
  ELSE IF c.in THEN c
  ELSE [in |-> Opens(tok), kept |-> Append(c.kept, tok)]

Outside(t) ==
  LET upTo[n \in 0 .. Len(t)] ==
        IF n = 0 THEN [in |-> FALSE, kept |-> <<>>] ELSE Passing(upTo[n - 1], t[n])
  IN  upTo[Len(t)].kept

(* "it distills ONLY the machine content inside the wrapper"                 *)
(* (user_tool_scanner.go:12): as long as wrappers follow one another, what   *)
(* stands around them, and they themselves, come out as they went in,        *)
(* whatever the passes make of the regions between the searches.             *)
OnlyContentChanges ==
  at = "done" /\ Flat(message) /\ message[1] # Header => Outside(result) = Outside(message)

(* The search ends, on any text and whatever distillText returns: nested and *)
(* unclosed wrappers, mentions of a tag, regions that hold other regions     *)
(* (user_tool_scanner.go:29-58).                                             *)
ScanEnds == <>(at = "done")

(* "strictly preserving all surrounding human prompt instructions"           *)
(* (user_tool_scanner.go:12-13): no word of a human gets lost, whatever the  *)
(* machine output they pasted contains.                                      *)
HumanWordsKept ==
  at = "done" /\ message[1] # Header => \A n \in DOMAIN message : message[n] \in Human => message[n] \in ToSet(result)
=============================================================================
