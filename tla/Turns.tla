-------------------------------- MODULE Turns --------------------------------
(* A conversation as the provider sees it: every turn the client sends the   *)
(* whole history again plus new messages, and the engine transforms the      *)
(* whole body anew (Apply).  The provider caches by prefix, so what matters  *)
(* is whether the messages of an earlier turn come out as they did then.     *)
(* The transform may be taken as pure: that is what Engine implements.       *)
EXTENDS Transform

CONSTANTS
  Family,         \* the model family of the conversation
  Deltas,         \* what a turn may add: a set of sequences of messages
  MaxMessages     \* bound on the length of the conversation

ASSUME TurnsAssumption ==
  /\ Family \in Families
  /\ Deltas \subseteq Seq(Messages)
  /\ MaxMessages \in Nat

VARIABLES
  conv,           \* the history the client holds
  sent            \* what the provider last received for it

vars == <<conv, sent>>

Init == conv = <<>> /\ sent = <<>>

Turn ==
  \E delta \in Deltas :
    /\ Len(conv) + Len(delta) <= MaxMessages
    /\ conv' = conv \o delta
    /\ sent' = Sent(Family, conv')

Over ==
  /\ \A delta \in Deltas : Len(conv) + Len(delta) > MaxMessages
  /\ UNCHANGED vars

Next == Turn \/ Over

Spec == Init /\ [][Next]_vars
-----------------------------------------------------------------------------
TypeOK ==
  /\ conv \in Seq(Messages)
  /\ Len(conv) <= MaxMessages
  /\ DOMAIN sent = DOMAIN conv

KeptIn(old, new) ==
  DOMAIN old \subseteq DOMAIN new /\ \A i \in DOMAIN old : new[i] = old[i]

(* While a conversation stays on one path through Apply, no turn changes how *)
(* an earlier message is sent: not by a later re-read of the same block, nor *)
(* by distilling it (dedup.go:38-52).                                        *)
PrefixKept == [][Path(conv') = Path(conv) => KeptIn(sent, sent')]_vars

(* Bytes already sent to the provider are never rewritten on a later turn    *)
(* (README, "Cache-safe").  True of a client whose first turn already fixes  *)
(* the path: tools declared, and a system prompt or chat messages only.      *)
NeverRewritten == [][KeptIn(sent, sent')]_vars

(* The paths in the order a growing conversation can go through them. *)
Rank(path) ==
  CASE path = "bailed" -> 0
    [] path = "chat" -> 1
    [] path \in {"anthropic", "responses"} -> 2
    [] OTHER -> 3

(* Gates and format detection look at the whole body, so a path once left is *)
(* never taken again: a conversation is rewritten at most three times.       *)
PathsAdvance == [][Rank(Path(conv)) <= Rank(Path(conv'))]_vars

(* A reference names an earlier message that holds the same text and is not  *)
(* a reference itself: there are no chains and no dangling turns.            *)
ReferencesLead ==
  \A i \in DOMAIN sent : \A k \in DOMAIN sent[i] :
    sent[i][k][1] = "repeat" =>
      LET marker == sent[i][k][2]
      IN  /\ marker.first < i
          /\ \E n \in DOMAIN sent[marker.first] :
               /\ conv[marker.first].texts[n] = marker.of
               /\ sent[marker.first][n][1] # "repeat"
=============================================================================
