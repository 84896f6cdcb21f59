----------------------------- MODULE Transform -----------------------------
(* What one request becomes, as a pure function of the model family and the  *)
(* conversation it carries: Apply's gates, the wire format, the targets of   *)
(* the two message scanners, cross-turn dedup, and the stitching of results  *)
(* (internal/engine/engine.go, stream_scanner.go, internal/distill/dedup.go, *)
(* internal/wire/format.go).  No memo, no store, no other request.           *)
(*                                                                           *)
(* A message is a record [kind, texts]:                                      *)
(*   "user"       string content, role user                                  *)
(*   "tool"       string content, role tool                                  *)
(*   "results"    array content with tool_result blocks, one text per block  *)
(*                or text item; the only kind that carries a tool_use_id     *)
(*   "assistant"  never a target                                             *)
EXTENDS Naturals, Sequences, FiniteSets

CONSTANTS
  Texts,          \* block texts and user texts
  Families,       \* model families (profile.Family)
  Nothing,        \* distillText's "": the text is not to be replaced
  Distilled,      \* [Families \X Texts -> result]: what the four passes make
                  \* of a text, Nothing when no pass changes it
  Pieces,         \* [Texts -> Seq(Texts)]: machine-output regions of a user text
  Size,           \* [Texts -> Nat]: bytes
  Signals,        \* texts with "tool", a code fence or "diff --git" in them
  DedupMinBytes,  \* dedup floor (512)
  MinBytes,       \* body floor of Apply (256)
  MinBlock,       \* block floor (64, or Limits.MinBlockBytes)
  MaxBlock,       \* Limits.MaxBlockBytes, 0 = no cap
  MaxBody,        \* Limits.MaxBodyBytes, 0 = no cap
  BaseBytes,      \* bytes of the request around its messages
  HasSystem,      \* the request has a system prompt
  DeclaresTools,  \* the request has a "tools" array: the bytes "tool" occur
  IsResponses     \* the request has instructions or input

Kinds == {"user", "tool", "results", "assistant"}
Messages == [kind : Kinds, texts : Seq(Texts)]

ASSUME TransformAssumption ==
  /\ Pieces \in [Texts -> Seq(Texts)]
  /\ Size \in [Texts -> Nat]
  /\ {MinBytes, MaxBody, BaseBytes} \subseteq Nat
-----------------------------------------------------------------------------
(* Gates: what Apply lets through to the scanners. *)

MessageBytes(m) ==
  LET upTo[n \in 0 .. Len(m.texts)] ==
        IF n = 0 THEN 0 ELSE upTo[n - 1] + Size[m.texts[n]]
  IN  upTo[Len(m.texts)]

Bytes(conv) ==
  LET upTo[n \in 0 .. Len(conv)] ==
        IF n = 0 THEN BaseBytes ELSE upTo[n - 1] + MessageBytes(conv[n])
  IN  upTo[Len(conv)]

Has(conv, kind) == \E i \in DOMAIN conv : conv[i].kind = kind

Format(conv) ==
  CASE IsResponses -> "responses"
    [] ~IsResponses /\ (HasSystem \/ Has(conv, "results")) -> "anthropic"
    [] OTHER -> "chat"

HasCandidateNewest(conv) ==             \* mutant: the newest message decides
  \/ DeclaresTools
  \/ conv # <<>> /\ LET m == conv[Len(conv)]
                    IN  \/ m.kind \in {"tool", "results"}
                        \/ \E k \in DOMAIN m.texts : m.texts[k] \in Signals

HasCandidate(conv) ==
  \/ DeclaresTools
  \/ Has(conv, "tool") \/ Has(conv, "results")
  \/ \E i \in DOMAIN conv : \E k \in DOMAIN conv[i].texts : conv[i].texts[k] \in Signals

(* The way a request takes: over the body cap, bailed out of, or scanned. *)
Path(conv) ==
  CASE MaxBody > 0 /\ Bytes(conv) > MaxBody -> "skipped"
    [] ~(MaxBody > 0 /\ Bytes(conv) > MaxBody)
       /\ (Bytes(conv) < MinBytes \/ ~HasCandidate(conv)) -> "bailed"
    [] OTHER -> Format(conv)
-----------------------------------------------------------------------------
(* Targets: the contents a scanner considers, by message and position. *)

Scanned(path, m) ==
  \/ path = "chat" /\ m.kind \in {"user", "tool"}
  \/ path = "anthropic" /\ m.kind = "results"

Targets(path, conv) ==
  UNION {{<<i, k>> : k \in DOMAIN conv[i].texts} :
           i \in {j \in DOMAIN conv : Scanned(path, conv[j])}}

TextAt(conv, target) == conv[target[1]].texts[target[2]]

(* Dedup looks at tool output only, never at what a user typed. *)
IsBlock(path, conv, target) ==
  target \in Targets(path, conv) /\ conv[target[1]].kind # "user"

(* The turns, i.e. message indices, that hold a given text as a block. *)
TurnsOf(path, conv, t) ==
  {i \in DOMAIN conv : \E k \in DOMAIN conv[i].texts :
     IsBlock(path, conv, <<i, k>>) /\ conv[i].texts[k] = t}

FirstTurn(turns) == CHOOSE i \in turns : \A j \in turns : i <= j

LastTurn(turns) == CHOOSE i \in turns : \A j \in turns : j <= i

RepeatsKeepNewest(path, conv, target) ==    \* mutant: the newest copy is kept
  LET t == TextAt(conv, target)
  IN  /\ IsBlock(path, conv, target)
      /\ Size[t] >= DedupMinBytes
      /\ target[1] < LastTurn(TurnsOf(path, conv, t))

(* A large block that an earlier turn already carried. *)
Repeats(path, conv, target) ==
  LET t == TextAt(conv, target)
  IN  /\ IsBlock(path, conv, target)
      /\ Size[t] >= DedupMinBytes
      /\ target[1] > FirstTurn(TurnsOf(path, conv, t))

DedupMarkerToLast(path, conv, target) ==    \* mutant: refer to the newest copy
  LET t == TextAt(conv, target)
  IN  [first |-> LastTurn(TurnsOf(path, conv, t)), of |-> t]

DedupMarker(path, conv, target) ==
  LET t == TextAt(conv, target)
  IN  [first |-> FirstTurn(TurnsOf(path, conv, t)), of |-> t]

(* The texts of a target that go through distillText, in order: a tool       *)
(* output is one piece, a user text is its regions, or itself when it is     *)
(* machine output as a whole (distillUserContent; regions do not nest here). *)
(* A dedup marker has no piece: it passes through distillText, and no pass   *)
(* accepts it.                                                               *)
PiecesOf(path, conv, target) ==
  IF Repeats(path, conv, target) THEN <<>>
  ELSE IF IsBlock(path, conv, target) THEN <<TextAt(conv, target)>>
  ELSE Pieces[TextAt(conv, target)]

Positions(path, conv) ==
  UNION {{<<t[1], t[2], p>> : p \in DOMAIN PiecesOf(path, conv, t)} :
           t \in Targets(path, conv)}

PieceAt(path, conv, pos) == PiecesOf(path, conv, <<pos[1], pos[2]>>)[pos[3]]

InBounds(t) == Size[t] >= MinBlock /\ ~(MaxBlock > 0 /\ Size[t] > MaxBlock)

DistillText(f, t) == IF InBounds(t) THEN Distilled[f, t] ELSE Nothing
-----------------------------------------------------------------------------
(* Stitching: what each target becomes, given the result of each piece. *)

Results(path, conv, res, target) ==
  [p \in DOMAIN PiecesOf(path, conv, target) |-> res[<<target[1], target[2], p>>]]

(* A content as it goes upstream: untouched, a reference to an earlier copy, *)
(* a distilled block, or a user text with some of its regions distilled.     *)
Intact(t) == <<"intact", t>>

Replacement(path, conv, res, target) ==
  LET t    == TextAt(conv, target)
      outs == Results(path, conv, res, target)
  IN  IF Repeats(path, conv, target) THEN <<"repeat", DedupMarker(path, conv, target)>>
      ELSE IF \A p \in DOMAIN outs : outs[p] = Nothing THEN Intact(t)
      ELSE IF IsBlock(path, conv, target) THEN <<"distilled", outs[1]>>
      ELSE <<"regions", t, outs>>

StitchedWithoutTail(path, conv, res) ==     \* mutant: no body[last:]
  [i \in {j \in DOMAIN conv : \E t \in Targets(path, conv) : j <= t[1]} |->
    [k \in DOMAIN conv[i].texts |->
      IF <<i, k>> \in Targets(path, conv)
        THEN Replacement(path, conv, res, <<i, k>>)
        ELSE Intact(conv[i].texts[k])]]

Stitched(path, conv, res) ==
  [i \in DOMAIN conv |->
    [k \in DOMAIN conv[i].texts |->
      IF <<i, k>> \in Targets(path, conv)
        THEN Replacement(path, conv, res, <<i, k>>)
        ELSE Intact(conv[i].texts[k])]]

(* The bytes the client sent. *)
Verbatim(conv) ==
  [i \in DOMAIN conv |-> [k \in DOMAIN conv[i].texts |-> Intact(conv[i].texts[k])]]

PureResults(f, path, conv) ==
  [pos \in Positions(path, conv) |-> DistillText(f, PieceAt(path, conv, pos))]

(* The request that reaches the provider, message by message. *)
Sent(f, conv) == Stitched(Path(conv), conv, PureResults(f, Path(conv), conv))
=============================================================================
