------------------------------- MODULE Engine -------------------------------
(* The engine (internal/engine/engine.go, stream_scanner.go): concurrent     *)
(* calls of Apply that share one decision memo and one originals store.      *)
(* Each request walks its targets in order and the pieces of a target in     *)
(* order; a piece is looked up in the memo, distilled on a miss, its         *)
(* original stored and the decision pinned.  Every memo and store call is    *)
(* one step (each runs under its own mutex, see Memo and Originals), so the  *)
(* steps of two requests interleave everywhere between them.  A call may     *)
(* panic anywhere; the proxy's safeProcess then sends the body as it came.   *)
EXTENDS Transform, MemoOps

CONSTANTS
  Requests, Conversations, None,
  Cap             \* memo capacity, 0 = memo disabled

ASSUME CapAssumption == Cap \in Nat
ASSUME NoneAssumption == None \notin [family : Families, conv : Conversations]
ASSUME ConversationAssumption == Conversations \subseteq Seq(Messages)
VARIABLES
  memo,       \* the decision memo, keyed by <<family, text>>
  orig,       \* texts in the originals store
  request,    \* what each call was given
  reply,      \* what it returned
  pc,         \* where it is
  todo,       \* targets not yet begun
  cur,        \* the target being processed
  piece,      \* the next of its pieces
  res,        \* results of pieces
  before,     \* memo.Len() at the start of the current target
  hits        \* Result.MemoHits

local == <<pc, todo, cur, piece, res, before, hits>>
vars == <<memo, orig, request, reply, local>>

Routes == [conv \in Conversations |-> Path(conv)]

Conv(r) == request[r].conv
Family(r) == request[r].family
PathOf(r) == Routes[Conv(r)]

Position(r) == <<cur[r][1], cur[r][2], piece[r]>>
Text(r) == PieceAt(PathOf(r), Conv(r), Position(r))

KeyIgnoringFamily(r) == <<CHOOSE f \in Families : TRUE, Text(r)>>   \* mutant

(* family.String() + "\x00" + text: the separator cannot occur in a family. *)
Key(r) == <<Family(r), Text(r)>>

Init ==
  /\ memo = EmptyCache
  /\ orig = {}
  /\ request = [r \in Requests |-> None]
  /\ reply = [r \in Requests |-> None]
  /\ pc = [r \in Requests |-> "idle"]
  /\ todo = [r \in Requests |-> {}]
  /\ cur = [r \in Requests |-> <<0, 0>>]
  /\ piece = [r \in Requests |-> 1]
  /\ res = [r \in Requests |-> <<>>]
  /\ before = [r \in Requests |-> 0]
  /\ hits = [r \in Requests |-> 0]

ReceiveEveryRole(r) ==                  \* mutant: collects every message
  /\ pc[r] = "idle"
  /\ \E f \in Families, conv \in Conversations :
       /\ request' = [request EXCEPT ![r] = [family |-> f, conv |-> conv]]
       /\ todo' = [todo EXCEPT ![r] = {<<i, 1>> : i \in DOMAIN conv}]
       /\ res' = [res EXCEPT ![r] = [pos \in Positions(Path(conv), conv) |-> Nothing]]
  /\ pc' = [pc EXCEPT ![r] = "target"]
  /\ UNCHANGED <<memo, orig, reply, cur, piece, before, hits>>

(* Apply detects the format, passes the gates and collects the targets. *)
Receive(r) ==
  /\ pc[r] = "idle"
  /\ \E f \in Families, conv \in Conversations :
       /\ request' = [request EXCEPT ![r] = [family |-> f, conv |-> conv]]
       /\ todo' = [todo EXCEPT ![r] = Targets(Path(conv), conv)]
       /\ res' = [res EXCEPT ![r] = [pos \in Positions(Path(conv), conv) |-> Nothing]]
  /\ pc' = [pc EXCEPT ![r] = "target"]
  /\ UNCHANGED <<memo, orig, reply, cur, piece, before, hits>>

(* for _, t := range targets { before := e.memo.Len() ... in document order. *)
Precedes(a, b) == a[1] < b[1] \/ (a[1] = b[1] /\ a[2] <= b[2])

NextTarget(r) ==
  /\ pc[r] = "target"
  /\ \E t \in todo[r] :
       /\ \A u \in todo[r] : Precedes(t, u)
       /\ cur' = [cur EXCEPT ![r] = t]
       /\ todo' = [todo EXCEPT ![r] = @ \ {t}]
  /\ piece' = [piece EXCEPT ![r] = 1]
  /\ before' = [before EXCEPT ![r] = Len(memo.order)]
  /\ pc' = [pc EXCEPT ![r] = "piece"]
  /\ UNCHANGED <<memo, orig, request, reply, res, hits>>

PieceDone(r, out) ==
  /\ res' = [res EXCEPT ![r] = [@ EXCEPT ![Position(r)] = out]]
  /\ piece' = [piece EXCEPT ![r] = @ + 1]

PieceCount(r) == Len(PiecesOf(PathOf(r), Conv(r), cur[r]))

AtPiece(r) == pc[r] = "piece" /\ piece[r] <= PieceCount(r)

(* distillText: a text outside the block bounds is left alone before the     *)
(* memo is asked.                                                            *)
OutOfBounds(r) ==
  /\ AtPiece(r)
  /\ ~InBounds(Text(r))
  /\ PieceDone(r, Nothing)
  /\ UNCHANGED <<memo, orig, request, reply, pc, todo, cur, before, hits>>

MemoHit(r) ==
  /\ AtPiece(r)
  /\ InBounds(Text(r))
  /\ Key(r) \in DOMAIN memo.val
  /\ memo' = Lookup(memo, Key(r))
  /\ PieceDone(r, Answer(memo, Key(r)))
  /\ UNCHANGED <<orig, request, reply, pc, todo, cur, before, hits>>

(* The memo has no decision and no pass accepts the text: nothing is pinned, *)
(* the next turn examines it again.                                          *)
NotDistilled(r) ==
  /\ AtPiece(r)
  /\ InBounds(Text(r))
  /\ Key(r) \notin DOMAIN memo.val
  /\ Distilled[Key(r)] = Nothing
  /\ PieceDone(r, Nothing)
  /\ UNCHANGED <<memo, orig, request, reply, pc, todo, cur, before, hits>>

DistillWithoutStore(r) ==               \* mutant: memo.Put without orig.Put
  /\ AtPiece(r)
  /\ InBounds(Text(r))
  /\ Key(r) \notin DOMAIN memo.val
  /\ Distilled[Key(r)] # Nothing
  /\ pc' = [pc EXCEPT ![r] = "pin"]
  /\ UNCHANGED <<memo, orig, request, reply, todo, cur, piece, res, before, hits>>

Distill(r) ==
  /\ AtPiece(r)
  /\ InBounds(Text(r))
  /\ Key(r) \notin DOMAIN memo.val
  /\ Distilled[Key(r)] # Nothing
  /\ pc' = [pc EXCEPT ![r] = "store"]
  /\ UNCHANGED <<memo, orig, request, reply, todo, cur, piece, res, before, hits>>

StoreNewestOnly(r) ==                   \* mutant: a store that forgets
  /\ pc[r] = "store"
  /\ orig' = {Text(r)}
  /\ pc' = [pc EXCEPT ![r] = "pin"]
  /\ UNCHANGED <<memo, request, reply, todo, cur, piece, res, before, hits>>

(* storeAndMemo, first half: an error of the store is ignored, the map has   *)
(* the text in any case.                                                     *)
StoreOriginal(r) ==
  /\ pc[r] = "store"
  /\ orig' = orig \cup {Text(r)}
  /\ pc' = [pc EXCEPT ![r] = "pin"]
  /\ UNCHANGED <<memo, request, reply, todo, cur, piece, res, before, hits>>

(* storeAndMemo, second half.  Another request may have pinned the same key  *)
(* since this one missed: the entry is overwritten.                          *)
PinDecision(r) ==
  /\ pc[r] = "pin"
  /\ memo' = IF Cap = 0 THEN memo ELSE PutWhole(memo, Key(r), Distilled[Key(r)], Cap)
  /\ PieceDone(r, Distilled[Key(r)])
  /\ pc' = [pc EXCEPT ![r] = "piece"]
  /\ UNCHANGED <<orig, request, reply, todo, cur, before, hits>>

Replaced(r, target) ==
  Replacement(PathOf(r), Conv(r), res[r], target) # Intact(TextAt(Conv(r), target))

EndUnlessReplaced(r) ==                 \* mutant: a replaced target is repeated
  /\ pc[r] = "piece"
  /\ piece[r] > PieceCount(r)
  /\ hits' = hits
  /\ todo' = [todo EXCEPT ![r] = IF Replaced(r, cur[r]) THEN @ \cup {cur[r]} ELSE @]
  /\ pc' = [pc EXCEPT ![r] = "target"]
  /\ UNCHANGED <<memo, orig, request, reply, cur, piece, res, before>>

(* A replaced target counts as a memo hit when memo.Len() has not changed    *)
(* since the target was begun.                                               *)
EndTarget(r) ==
  /\ pc[r] = "piece"
  /\ piece[r] > PieceCount(r)
  /\ hits' = [hits EXCEPT ![r] =
       IF Replaced(r, cur[r]) /\ Len(memo.order) = before[r] THEN @ + 1 ELSE @]
  /\ pc' = [pc EXCEPT ![r] = "target"]
  /\ UNCHANGED <<memo, orig, request, reply, todo, cur, piece, res, before>>

Reply(r) ==
  /\ pc[r] = "target"
  /\ todo[r] = {}
  /\ reply' = [reply EXCEPT ![r] = Stitched(PathOf(r), Conv(r), res[r])]
  /\ pc' = [pc EXCEPT ![r] = "done"]
  /\ UNCHANGED <<memo, orig, request, todo, cur, piece, res, before, hits>>

Step(r) ==
  \/ NextTarget(r) \/ OutOfBounds(r) \/ MemoHit(r) \/ NotDistilled(r)
  \/ Distill(r) \/ StoreOriginal(r) \/ PinDecision(r) \/ EndTarget(r) \/ Reply(r)

(* safeProcess recovers from a panic of the call: its local state is gone,   *)
(* what it stored and pinned stays.                                          *)
Recover(r) ==
  /\ pc[r] \in {"target", "piece", "store", "pin"}
  /\ reply' = [reply EXCEPT ![r] = Verbatim(Conv(r))]
  /\ pc' = [pc EXCEPT ![r] = "failed"]
  /\ todo' = [todo EXCEPT ![r] = {}]
  /\ cur' = [cur EXCEPT ![r] = <<0, 0>>]
  /\ piece' = [piece EXCEPT ![r] = 1]
  /\ res' = [res EXCEPT ![r] = <<>>]
  /\ before' = [before EXCEPT ![r] = 0]
  /\ hits' = [hits EXCEPT ![r] = 0]
  /\ UNCHANGED <<memo, orig, request>>

AllAnswered == \A r \in Requests : pc[r] \in {"done", "failed"}
Finished == AllAnswered /\ UNCHANGED vars

Next == (\E r \in Requests : Receive(r) \/ Step(r) \/ Recover(r)) \/ Finished

Spec == Init /\ [][Next]_vars

(* As long as a request is not answered, some goroutine that serves one runs: *)
(* a goroutine needs finitely many steps, so all of them get to answer.       *)
FairSpec == Spec /\ WF_vars(\E r \in Requests : Step(r))
-----------------------------------------------------------------------------
Promise ==
  INSTANCE Squeeze
    WITH Outcome <- [fc \in Families \X Conversations |-> Sent(fc[1], fc[2])],
         Original <- [conv \in Conversations |-> Verbatim(conv)]

(* Memo, eviction and concurrency are invisible: every request is answered   *)
(* exactly as the pure transform of its own body, whatever other requests    *)
(* pin, hit or evict between its steps, or as the body itself if its call    *)
(* panics (engine.go:193-259, memo.go:1-10, proxy.go:170-182).               *)
AnswersArePure == Promise!Spec

Keys == Families \X Texts

TypeOK ==
  /\ DOMAIN memo.val \subseteq Keys
  /\ orig \subseteq Texts
  /\ request \in [Requests -> {None} \cup [family : Families, conv : Conversations]]
  /\ pc \in [Requests -> {"idle", "target", "piece", "store", "pin", "done", "failed"}]
  /\ todo \in [Requests -> SUBSET (Nat \X Nat)]
  /\ cur \in [Requests -> Nat \X Nat]
  /\ piece \in [Requests -> Nat \ {0}]
  /\ hits \in [Requests -> Nat]
  /\ \A r \in Requests :
       /\ pc[r] = "idle" <=> request[r] = None
       /\ pc[r] \notin {"done", "failed"} => reply[r] = None
       /\ pc[r] # "idle" => todo[r] \subseteq Targets(PathOf(r), Conv(r))
       /\ pc[r] \in {"piece", "store", "pin"} =>
            cur[r] \in Targets(PathOf(r), Conv(r)) \ todo[r]
       /\ pc[r] \in {"store", "pin"} => piece[r] <= PieceCount(r)

(* Reversible (README): whatever the memo can serve, the store can resolve.  *)
(* The original is stored before its decision becomes visible to any other   *)
(* request, and survives the decision's eviction and a panic between the two *)
(* (engine.go:261-266).                                                      *)
PinnedIsStored == \A key \in DOMAIN memo.val : key[2] \in orig

(* A request is answered only when the original of every text it had         *)
(* rewritten is in the store, also when another request rewrote it.          *)
AnswerIsReversible ==
  \A r \in Requests : pc[r] = "done" =>
    \A pos \in DOMAIN res[r] :
      res[r][pos] # Nothing => PieceAt(PathOf(r), Conv(r), pos) \in orig

(* A block that became a reference to an earlier copy is never lost: either  *)
(* the copy it names went upstream intact, or its original can be resolved.  *)
(* The copy's own fate is decided later, by distillText or by the memo.      *)
ReferentRecoverable ==
  \A r \in Requests : pc[r] = "done" =>
    \A target \in Targets(PathOf(r), Conv(r)) : Repeats(PathOf(r), Conv(r), target) =>
      LET t     == TextAt(Conv(r), target)
          first == FirstTurn(TurnsOf(PathOf(r), Conv(r), t))
      IN  \/ t \in orig
          \/ \A k \in DOMAIN Conv(r)[first].texts :
               Conv(r)[first].texts[k] = t => reply[r][first][k] = Intact(t)

(* "The FIRST occurrence is kept 100% intact" and "the full bytes remain in  *)
(* context at the earlier position" (dedup.go:35-55), for the request that   *)
(* is sent.                                                                  *)
ReferentIntact ==
  \A r \in Requests : pc[r] = "done" =>
    \A target \in Targets(PathOf(r), Conv(r)) : Repeats(PathOf(r), Conv(r), target) =>
      LET t     == TextAt(Conv(r), target)
          first == FirstTurn(TurnsOf(PathOf(r), Conv(r), t))
      IN  \A k \in DOMAIN Conv(r)[first].texts :
            Conv(r)[first].texts[k] = t => reply[r][first][k] = Intact(t)

(* Every request that is received is answered. *)
AllReply == \A r \in Requests : pc[r] = "target" ~> pc[r] \in {"done", "failed"}

(* Result.MemoHits is documented as the number of "blocks served             *)
(* byte-identical from the decision memo" (engine.go:41).  With one request  *)
(* and no entry in the memo when it arrives, a block can be served from the  *)
(* memo only if an earlier block of the request had the same text.           *)
HitsWereServed ==
  \A r \in Requests : pc[r] = "done" =>
    hits[r] <= Cardinality({a \in Targets(PathOf(r), Conv(r)) :
                 \E b \in Targets(PathOf(r), Conv(r)) :
                   a # b /\ Precedes(b, a) /\ TextAt(Conv(r), a) = TextAt(Conv(r), b)})
=============================================================================
