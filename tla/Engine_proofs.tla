---------------------------- MODULE Engine_proofs ----------------------------
(* The engine answers as the pure transform of Squeeze, and everything it    *)
(* rewrites can be resolved, for every set of requests, conversations, texts *)
(* and families, every size bound and every memo capacity.  The inductive    *)
(* invariant says that the memo pins exactly what the passes would produce,  *)
(* and that the results a request has collected so far are those of the pure *)
(* transform.                                                                *)
EXTENDS Engine, Transform_proofs, TLAPS
-----------------------------------------------------------------------------
Busy == {"piece", "store", "pin"}

MyPositions(r) == Positions(PathOf(r), Conv(r))

(* The pieces a request has not dealt with yet. *)
Pending(r, pos) ==
  \/ <<pos[1], pos[2]>> \in todo[r]
  \/ pc[r] \in Busy /\ <<pos[1], pos[2]>> = cur[r] /\ pos[3] >= piece[r]

(* What the pure transform makes of a piece. *)
Pure(r, pos) == DistillText(Family(r), PieceAt(PathOf(r), Conv(r), pos))

Typed ==
  /\ memo = [order |-> memo.order, val |-> memo.val]
  /\ DOMAIN memo.val \subseteq Keys
  /\ orig \subseteq Texts
  /\ request \in [Requests -> {None} \cup [family : Families, conv : Conversations]]
  /\ pc \in [Requests -> {"idle", "target", "piece", "store", "pin", "done", "failed"}]
  /\ todo \in [Requests -> SUBSET (Nat \X Nat)]
  /\ cur \in [Requests -> Nat \X Nat]
  /\ piece \in [Requests -> Nat \ {0}]
  /\ hits \in [Requests -> Nat]
  /\ reply = [r \in Requests |-> reply[r]]
  /\ res = [r \in Requests |-> res[r]]

MemoIsPure ==
  \A key \in DOMAIN memo.val :
    /\ memo.val[key] = DistillText(key[1], key[2])
    /\ key[2] \in orig

(* One request's own state: where it is, and that what it has so far is what *)
(* the pure transform gives.                                                 *)
Started(r) ==
  /\ todo[r] \subseteq Targets(PathOf(r), Conv(r))
  /\ res[r] = [pos \in MyPositions(r) |-> IF Pending(r, pos) THEN Nothing ELSE Pure(r, pos)]
  /\ \A pos \in MyPositions(r) :
       res[r][pos] # Nothing => PieceAt(PathOf(r), Conv(r), pos) \in orig

AtWork(r) ==
  /\ pc[r] \in Busy => cur[r] \in Targets(PathOf(r), Conv(r)) \ todo[r]
  /\ pc[r] \in {"store", "pin"} =>
       piece[r] <= PieceCount(r) /\ InBounds(Text(r)) /\ Distilled[Key(r)] # Nothing
  /\ pc[r] = "pin" => Text(r) \in orig

Local(r) ==
  /\ pc[r] = "idle" <=> request[r] = None
  /\ pc[r] \notin {"done", "failed"} => reply[r] = None
  /\ pc[r] \notin {"idle", "failed"} => Started(r)
  /\ AtWork(r)
  /\ pc[r] = "done" => todo[r] = {} /\ reply[r] = Sent(Family(r), Conv(r))
  /\ pc[r] = "failed" => todo[r] = {}

IInv == Typed /\ MemoIsPure /\ \A r \in Requests : Local(r)

(* What one request does leaves the state of the others alone. *)
LEMMA OthersKeepTheirState ==
  ASSUME NEW q \in Requests, Local(q), orig \subseteq orig',
         request'[q] = request[q], reply'[q] = reply[q], pc'[q] = pc[q],
         todo'[q] = todo[q], cur'[q] = cur[q], piece'[q] = piece[q], res'[q] = res[q]
  PROVE  Local(q)'
BY DEF Local, Started, AtWork, MyPositions, Pending, Pure, PathOf, Conv, Family, Text,
       Position, Key, PieceCount

(* The types of what a request in progress works on. *)
LEMMA RequestIsTyped ==
  ASSUME Typed, NEW r \in Requests, pc[r] # "idle", Local(r)
  PROVE  /\ request[r] \in [family : Families, conv : Conversations]
         /\ Family(r) \in Families
         /\ Conv(r) \in Seq(Messages)
         /\ PathOf(r) = Path(Conv(r))
BY ConversationAssumption DEF Typed, Local, Family, Conv, PathOf, Routes

LEMMA WorkIsTyped ==
  ASSUME Typed, NEW r \in Requests, pc[r] \in Busy, Local(r), piece[r] <= PieceCount(r)
  PROVE  /\ Position(r) \in MyPositions(r)
         /\ <<Position(r)[1], Position(r)[2]>> = cur[r]
         /\ Text(r) \in Texts
         /\ Key(r) \in Keys
         /\ Pure(r, Position(r)) = IF InBounds(Text(r)) THEN Distilled[Key(r)] ELSE Nothing
<1>1. pc[r] # "idle"
  BY DEF Busy
<1>2. /\ Family(r) \in Families
      /\ Conv(r) \in Seq(Messages)
  BY <1>1, RequestIsTyped
<1>3. cur[r] \in Targets(PathOf(r), Conv(r)) /\ piece[r] \in Nat \ {0}
  BY DEF Local, AtWork, Typed
<1>4. Position(r) \in MyPositions(r) /\ cur[r] = <<cur[r][1], cur[r][2]>>
  BY <1>2, <1>3, PositionOf DEF MyPositions, Position, PieceCount
<1>5. Text(r) \in Texts
  BY <1>2, <1>4, PositionParts DEF MyPositions, Text
<1> QED BY <1>2, <1>4, <1>5 DEF Position, Key, Keys, Pure, DistillText, Text

(* A dealt-with piece has the result the pure transform gives it. *)
LEMMA PieceDoneAdvances ==
  ASSUME Typed, NEW r \in Requests, Local(r), pc[r] \in Busy, piece[r] <= PieceCount(r),
         NEW out, PieceDone(r, out), out = Pure(r, Position(r)),
         out # Nothing => Text(r) \in orig',
         orig \subseteq orig', request' = request, reply' = reply, todo' = todo,
         cur' = cur, pc'[r] = "piece"
  PROVE  Local(r)'
<1>0. PICK at : at = Position(r)
  OBVIOUS
<1>1. /\ at \in MyPositions(r)
      /\ <<at[1], at[2]>> = cur[r] /\ at[3] = piece[r]
      /\ at = <<cur[r][1], cur[r][2], piece[r]>>
  BY <1>0, WorkIsTyped DEF Position
<1>2. /\ MyPositions(r)' = MyPositions(r)
      /\ PathOf(r)' = PathOf(r) /\ Conv(r)' = Conv(r) /\ Family(r)' = Family(r)
      /\ \A pos : Pure(r, pos)' = Pure(r, pos)
  BY DEF MyPositions, PathOf, Conv, Family, Pure
<1>3. /\ pc[r] # "idle"
      /\ Started(r)
      /\ cur[r] \in Targets(PathOf(r), Conv(r)) \ todo[r]
      /\ cur[r] \in Nat \X Nat
      /\ piece[r] \in Nat \ {0}
      /\ Conv(r) \in Seq(Messages)
  <2>1. pc[r] \notin {"idle", "failed"}
    BY DEF Busy
  <2> QED BY <2>1, RequestIsTyped DEF Local, AtWork, Typed
<1>4. /\ res'[r] = [res[r] EXCEPT ![at] = out]
      /\ piece'[r] = piece[r] + 1
  <2>1. res' = [res EXCEPT ![r] = [@ EXCEPT ![at] = out]]
        /\ piece' = [piece EXCEPT ![r] = @ + 1]
    BY <1>0 DEF PieceDone
  <2>2. DOMAIN res = Requests /\ DOMAIN piece = Requests
    BY DEF Typed
  <2> QED BY <2>1, <2>2
<1>5. \A pos \in MyPositions(r) :
        /\ pos # at => (Pending(r, pos)' <=> Pending(r, pos))
        /\ ~Pending(r, at)'
  <2> SUFFICES ASSUME NEW pos \in MyPositions(r)
               PROVE  /\ pos # at => (Pending(r, pos)' <=> Pending(r, pos))
                      /\ ~Pending(r, at)'
    OBVIOUS
  <2>1. /\ pos = <<pos[1], pos[2], pos[3]>>
        /\ pos[3] \in Nat
    BY <1>3, PositionParts DEF MyPositions
  <2>2. Pending(r, pos)' <=>
          (<<pos[1], pos[2]>> \in todo[r] \/ (<<pos[1], pos[2]>> = cur[r] /\ pos[3] >= piece[r] + 1))
    BY <1>4 DEF Pending, Busy
  <2>3. Pending(r, at)' <=>
          (<<at[1], at[2]>> \in todo[r] \/ (<<at[1], at[2]>> = cur[r] /\ at[3] >= piece[r] + 1))
    BY <1>4 DEF Pending, Busy
  <2>4. ~Pending(r, at)'
    <3>1. <<at[1], at[2]>> \notin todo[r]
      BY <1>1, <1>3
    <3>2. ~(at[3] >= piece[r] + 1)
      BY <1>1, <1>3
    <3> QED BY <2>3, <3>1, <3>2
  <2>5. ASSUME pos # at  PROVE Pending(r, pos)' <=> Pending(r, pos)
    <3>1. ~(<<pos[1], pos[2]>> = cur[r] /\ pos[3] = piece[r])
      <4> SUFFICES ASSUME <<pos[1], pos[2]>> = cur[r], pos[3] = piece[r]  PROVE FALSE
        OBVIOUS
      <4>1. pos[1] = cur[r][1] /\ pos[2] = cur[r][2]
        OBVIOUS
      <4> QED BY <1>1, <2>1, <2>5, <4>1
    <3>2. Pending(r, pos) <=>
            (<<pos[1], pos[2]>> \in todo[r] \/ (<<pos[1], pos[2]>> = cur[r] /\ pos[3] >= piece[r]))
      BY DEF Pending
    <3> QED BY <1>3, <2>1, <2>2, <3>1, <3>2
  <2> QED BY <2>4, <2>5
<1>6. Started(r)'
  <2>1. res[r] = [pos \in MyPositions(r) |-> IF Pending(r, pos) THEN Nothing ELSE Pure(r, pos)]
    BY <1>3 DEF Started
  <2>2. res'[r] = [pos \in MyPositions(r) |->
                     IF Pending(r, pos)' THEN Nothing ELSE Pure(r, pos)]
    <3> DEFINE old(pos) == IF Pending(r, pos) THEN Nothing ELSE Pure(r, pos)
               new(pos) == IF Pending(r, pos)' THEN Nothing ELSE Pure(r, pos)
    <3>1. \A pos \in MyPositions(r) : pos # at => old(pos) = new(pos)
      BY <1>5
    <3>2. new(at) = out
      BY <1>0, <1>1, <1>5
    <3>3. res[r] = [pos \in MyPositions(r) |-> old(pos)]
      BY <2>1
    <3>4. res'[r] = [pos \in MyPositions(r) |-> new(pos)]
      <4> HIDE DEF old, new
      <4> QED BY <1>1, <1>4, <3>1, <3>2, <3>3
    <3> QED BY <3>4
  <2>3. \A pos \in MyPositions(r) :
          res'[r][pos] # Nothing => PieceAt(PathOf(r), Conv(r), pos) \in orig'
    <3> SUFFICES ASSUME NEW pos \in MyPositions(r), res'[r][pos] # Nothing
                 PROVE  PieceAt(PathOf(r), Conv(r), pos) \in orig'
      OBVIOUS
    <3>1. CASE pos = at
      <4>1. res'[r][pos] = out
        BY <1>1, <1>4, <2>1, <3>1
      <4>2. PieceAt(PathOf(r), Conv(r), at) = Text(r)
        BY <1>0 DEF Text
      <4> QED BY <3>1, <4>1, <4>2
    <3>2. CASE pos # at
      <4>1. res'[r][pos] = res[r][pos]
        BY <1>1, <1>4, <2>1, <3>2
      <4> QED BY <1>3, <4>1 DEF Started
    <3> QED BY <3>1, <3>2
  <2>4. todo'[r] \subseteq Targets(PathOf(r), Conv(r))
    BY <1>3 DEF Started
  <2>5. res'[r] = [pos \in MyPositions(r)' |->
                     IF Pending(r, pos)' THEN Nothing ELSE Pure(r, pos)']
    BY <1>2, <2>2
  <2> QED BY <1>2, <2>3, <2>4, <2>5 DEF Started
<1>7. AtWork(r)'
  BY <1>2, <1>3 DEF AtWork
<1>8. pc[r] # "done" /\ request'[r] # None /\ reply'[r] = None
  BY <1>3 DEF Local, Busy
<1> QED BY <1>6, <1>7, <1>8 DEF Local
-----------------------------------------------------------------------------
LEMMA InitEstablishes == Init => IInv
<1> SUFFICES ASSUME Init  PROVE IInv
  OBVIOUS
<1>1. Typed
  BY DEF Init, Typed, EmptyCache
<1>2. MemoIsPure
  BY DEF Init, MemoIsPure, EmptyCache
<1>3. \A r \in Requests : Local(r)
  BY DEF Init, Local, AtWork, Busy
<1> QED BY <1>1, <1>2, <1>3 DEF IInv

(* A hit changes no pinned value, a Put only the one it pins. *)
LEMMA LookupKeepsValues ==
  ASSUME NEW c, c = [order |-> c.order, val |-> c.val], NEW k
  PROVE  /\ Lookup(c, k).val = c.val
         /\ Lookup(c, k) = [order |-> Lookup(c, k).order, val |-> Lookup(c, k).val]
BY DEF Lookup

LEMMA PutPinsOneValue ==
  ASSUME NEW c, NEW k, NEW v, NEW n, NEW d, d = PutWhole(c, k, v, n)
  PROVE  /\ d = [order |-> d.order, val |-> d.val]
         /\ DOMAIN d.val \subseteq DOMAIN c.val \cup {k}
         /\ \A x \in DOMAIN d.val : d.val[x] = IF x = k THEN v ELSE c.val[x]
<1>1. PICK g : g = Insert(c, k, v)
  OBVIOUS
<1>2. /\ g = [order |-> g.order, val |-> g.val]
      /\ DOMAIN g.val = DOMAIN c.val \cup {k}
      /\ \A x \in DOMAIN g.val : g.val[x] = IF x = k THEN v ELSE c.val[x]
  BY <1>1 DEF Insert
<1>3. PICK e : e = DropBack(g)
  OBVIOUS
<1>4. /\ e = [order |-> e.order, val |-> e.val]
      /\ DOMAIN e.val \subseteq DOMAIN g.val
      /\ \A x \in DOMAIN e.val : e.val[x] = g.val[x]
  BY <1>3 DEF DropBack
<1>5. d = e \/ d = g
  BY <1>1, <1>3 DEF PutWhole
<1> QED BY <1>2, <1>4, <1>5

LEMMA ReceivePreserves ==
  ASSUME IInv, NEW r \in Requests, Receive(r)
  PROVE  IInv'
<1>1. PICK f \in Families, conv \in Conversations :
        /\ request' = [request EXCEPT ![r] = [family |-> f, conv |-> conv]]
        /\ todo' = [todo EXCEPT ![r] = Targets(Path(conv), conv)]
        /\ res' = [res EXCEPT ![r] = [pos \in Positions(Path(conv), conv) |-> Nothing]]
  BY DEF Receive
<1>2. /\ pc[r] = "idle"
      /\ pc' = [pc EXCEPT ![r] = "target"]
      /\ UNCHANGED <<memo, orig, reply, cur, piece, before, hits>>
  BY DEF Receive
<1>3. Typed /\ MemoIsPure /\ \A q \in Requests : Local(q)
  BY DEF IInv
<1>4. conv \in Seq(Messages)
  BY ConversationAssumption
<1>5. PICK mine : mine = [family |-> f, conv |-> conv]
  OBVIOUS
<1>6. /\ request'[r] = mine /\ mine \in [family : Families, conv : Conversations]
      /\ mine.family = f /\ mine.conv = conv
  BY <1>1, <1>3, <1>5 DEF Typed
<1>7. Conv(r)' = conv /\ PathOf(r)' = Path(conv)
  BY <1>6 DEF Conv, PathOf, Routes
<1>8. Targets(Path(conv), conv) \in SUBSET (Nat \X Nat)
  BY <1>4, TargetsAreTyped
<1>9. Typed'
  BY <1>1, <1>2, <1>3, <1>5, <1>6, <1>8 DEF Typed
<1>10. MemoIsPure'
  BY <1>2, <1>3 DEF MemoIsPure
<1>11. todo'[r] = Targets(Path(conv), conv)
       /\ res'[r] = [pos \in Positions(Path(conv), conv) |-> Nothing]
       /\ pc'[r] = "target"
  BY <1>1, <1>2, <1>3 DEF Typed
<1>12. Started(r)'
  <2>1. \A pos \in Positions(Path(conv), conv) : Pending(r, pos)'
    <3> SUFFICES ASSUME NEW pos \in Positions(Path(conv), conv)  PROVE Pending(r, pos)'
      OBVIOUS
    <3>1. <<pos[1], pos[2]>> \in Targets(Path(conv), conv)
      BY <1>4, PositionParts
    <3> QED BY <1>11, <3>1 DEF Pending
  <2>2. res'[r] = [pos \in MyPositions(r)' |->
                     IF Pending(r, pos)' THEN Nothing ELSE Pure(r, pos)']
    BY <1>7, <1>11, <2>1 DEF MyPositions
  <2>3. \A pos \in MyPositions(r)' : res'[r][pos] = Nothing
    BY <1>7, <1>11 DEF MyPositions
  <2> QED BY <1>7, <1>11, <2>2, <2>3 DEF Started
<1>13. Local(r)'
  <2>1. request'[r] # None
    BY <1>6, NoneAssumption
  <2>2. reply'[r] = None
    BY <1>2, <1>3 DEF Local
  <2> QED BY <1>11, <1>12, <2>1, <2>2 DEF Local, AtWork, Busy
<1>14. \A q \in Requests : q # r => Local(q)'
  BY <1>1, <1>2, <1>3, OthersKeepTheirState DEF Typed
<1> QED BY <1>9, <1>10, <1>13, <1>14 DEF IInv

LEMMA NextTargetPreserves ==
  ASSUME IInv, NEW r \in Requests, NextTarget(r)
  PROVE  IInv'
<1>1. PICK t \in todo[r] :
        /\ cur' = [cur EXCEPT ![r] = t]
        /\ todo' = [todo EXCEPT ![r] = @ \ {t}]
  BY DEF NextTarget
<1>2. /\ pc[r] = "target"
      /\ piece' = [piece EXCEPT ![r] = 1]
      /\ pc' = [pc EXCEPT ![r] = "piece"]
      /\ UNCHANGED <<memo, orig, request, reply, res, hits>>
  BY DEF NextTarget
<1>3. Typed /\ MemoIsPure /\ \A q \in Requests : Local(q)
  BY DEF IInv
<1>4. /\ Started(r)
      /\ request[r] # None
      /\ Conv(r) \in Seq(Messages)
      /\ t \in Targets(PathOf(r), Conv(r))
      /\ t \in Nat \X Nat
  <2>1. pc[r] # "idle"
    BY <1>2
  <2>2. Started(r) /\ request[r] # None
    BY <1>3, <2>1 DEF Local
  <2>3. Conv(r) \in Seq(Messages)
    BY <1>3, <2>1, RequestIsTyped
  <2>4. t \in Nat \X Nat
    BY <1>3 DEF Typed
  <2> QED BY <2>2, <2>3, <2>4 DEF Started
<1>5. cur'[r] = t /\ todo'[r] = todo[r] \ {t} /\ piece'[r] = 1 /\ pc'[r] = "piece"
  BY <1>1, <1>2, <1>3 DEF Typed
<1>6. Typed'
  BY SMTT(20), <1>1, <1>2, <1>3, <1>4 DEF Typed
<1>7. MemoIsPure'
  BY <1>2, <1>3 DEF MemoIsPure
<1>8. /\ MyPositions(r)' = MyPositions(r)
      /\ PathOf(r)' = PathOf(r) /\ Conv(r)' = Conv(r) /\ Family(r)' = Family(r)
      /\ \A pos : Pure(r, pos)' = Pure(r, pos)
  BY <1>2 DEF MyPositions, PathOf, Conv, Family, Pure
<1>9. \A pos \in MyPositions(r) : Pending(r, pos)' <=> Pending(r, pos)
  <2> SUFFICES ASSUME NEW pos \in MyPositions(r)  PROVE Pending(r, pos)' <=> Pending(r, pos)
    OBVIOUS
  <2>1. /\ <<pos[1], pos[2]>> \in Targets(PathOf(r), Conv(r))
        /\ pos[3] >= 1
    <3>1. pos[3] \in 1 .. Len(PiecesOf(PathOf(r), Conv(r), <<pos[1], pos[2]>>)) /\ pos[3] \in Nat
      BY <1>4, PositionParts DEF MyPositions
    <3> QED BY <1>4, <3>1, PositionParts DEF MyPositions
  <2>2. Pending(r, pos) <=> <<pos[1], pos[2]>> \in todo[r]
    BY <1>2 DEF Pending, Busy
  <2>3. Pending(r, pos)' <=> (<<pos[1], pos[2]>> \in todo[r] \ {t} \/ <<pos[1], pos[2]>> = t)
    BY <1>5, <2>1 DEF Pending, Busy
  <2> QED BY <2>2, <2>3
<1>10. Started(r)'
  <2>1. res'[r] = [pos \in MyPositions(r)' |->
                     IF Pending(r, pos)' THEN Nothing ELSE Pure(r, pos)']
    BY <1>2, <1>4, <1>8, <1>9 DEF Started
  <2> QED BY <1>2, <1>4, <1>5, <1>8, <2>1 DEF Started
<1>11. Local(r)'
  <2>1. cur'[r] \in Targets(PathOf(r)', Conv(r)') \ todo'[r]
    BY <1>4, <1>5, <1>8
  <2>2. reply'[r] = None
    BY <1>2, <1>3 DEF Local
  <2> QED BY <1>2, <1>4, <1>5, <1>8, <1>10, <2>1, <2>2 DEF Local, AtWork
<1>12. \A q \in Requests : q # r => Local(q)'
  BY <1>1, <1>2, <1>3, OthersKeepTheirState DEF Typed
<1> QED BY <1>6, <1>7, <1>11, <1>12 DEF IInv

(* A step that leaves the memo pure and the store no smaller, and completes  *)
(* the current piece as the pure transform does, preserves the invariant.    *)
LEMMA CompletionPreserves ==
  ASSUME IInv, NEW r \in Requests, pc[r] \in Busy, piece[r] <= PieceCount(r),
         NEW out, PieceDone(r, out), out = Pure(r, Position(r)),
         out # Nothing => Text(r) \in orig',
         orig' = orig, request' = request, reply' = reply, todo' = todo, cur' = cur,
         hits' = hits, pc' = [pc EXCEPT ![r] = "piece"],
         MemoIsPure', memo' = [order |-> memo'.order, val |-> memo'.val],
         DOMAIN memo'.val \subseteq Keys
  PROVE  IInv'
<1>1. Typed /\ MemoIsPure /\ \A q \in Requests : Local(q)
  BY DEF IInv
<1>2. /\ res' = [res EXCEPT ![r] = res'[r]]
      /\ piece' = [piece EXCEPT ![r] = piece[r] + 1]
  BY <1>1 DEF PieceDone, Typed
<1>3. piece[r] + 1 \in Nat \ {0}
  BY <1>1 DEF Typed
<1>4. Typed'
  <2>1. res' = [q \in Requests |-> res'[q]]
    BY <1>1, <1>2 DEF Typed
  <2>2. piece' \in [Requests -> Nat \ {0}]
    BY <1>1, <1>2, <1>3 DEF Typed
  <2>3. pc' \in [Requests -> {"idle", "target", "piece", "store", "pin", "done", "failed"}]
    BY <1>1 DEF Typed
  <2> QED BY <1>1, <2>1, <2>2, <2>3 DEF Typed
<1>5. Local(r)'
  <2>1. pc'[r] = "piece"
    BY <1>1 DEF Typed
  <2> QED BY <1>1, <2>1, PieceDoneAdvances
<1>6. \A q \in Requests : q # r => Local(q)'
  BY <1>1, <1>2, OthersKeepTheirState DEF Typed
<1> QED BY <1>4, <1>5, <1>6 DEF IInv

LEMMA OutOfBoundsPreserves ==
  ASSUME IInv, NEW r \in Requests, OutOfBounds(r) \/ NotDistilled(r)
  PROVE  IInv'
<1>1. Typed /\ MemoIsPure /\ Local(r)
  BY DEF IInv
<1>2. /\ pc[r] = "piece" /\ piece[r] <= PieceCount(r)
      /\ PieceDone(r, Nothing)
      /\ ~InBounds(Text(r)) \/ Distilled[Key(r)] = Nothing
      /\ UNCHANGED <<memo, orig, request, reply, pc, todo, cur, before, hits>>
  BY DEF OutOfBounds, NotDistilled, AtPiece
<1>3. pc[r] \in Busy
  BY <1>2 DEF Busy
<1>4. Pure(r, Position(r)) = Nothing
  BY <1>1, <1>2, <1>3, WorkIsTyped
<1>5. pc' = [pc EXCEPT ![r] = "piece"] /\ MemoIsPure'
  BY <1>1, <1>2 DEF Typed, MemoIsPure
<1>6. memo' = [order |-> memo'.order, val |-> memo'.val] /\ DOMAIN memo'.val \subseteq Keys
  BY <1>1, <1>2 DEF Typed
<1> QED BY <1>2, <1>3, <1>4, <1>5, <1>6, CompletionPreserves

LEMMA MemoHitPreserves ==
  ASSUME IInv, NEW r \in Requests, MemoHit(r)
  PROVE  IInv'
<1>1. Typed /\ MemoIsPure /\ Local(r)
  BY DEF IInv
<1>2. /\ pc[r] = "piece" /\ piece[r] <= PieceCount(r)
      /\ InBounds(Text(r))
      /\ Key(r) \in DOMAIN memo.val
      /\ memo' = Lookup(memo, Key(r))
      /\ PieceDone(r, Answer(memo, Key(r)))
      /\ UNCHANGED <<orig, request, reply, pc, todo, cur, before, hits>>
  BY DEF MemoHit, AtPiece
<1>3. pc[r] \in Busy
  BY <1>2 DEF Busy
<1>4. Answer(memo, Key(r)) = Pure(r, Position(r)) /\ Text(r) \in orig
  <2>1. /\ Answer(memo, Key(r)) = DistillText(Key(r)[1], Key(r)[2])
        /\ Key(r)[2] \in orig
    BY <1>1, <1>2 DEF MemoIsPure, Answer
  <2> QED BY <2>1 DEF Key, Pure, Text
<1>5. pc' = [pc EXCEPT ![r] = "piece"]
  BY <1>1, <1>2 DEF Typed
<1>6. memo'.val = memo.val /\ memo' = [order |-> memo'.order, val |-> memo'.val]
  BY <1>1, <1>2, LookupKeepsValues DEF Typed
<1>7. MemoIsPure' /\ DOMAIN memo'.val \subseteq Keys
  BY <1>1, <1>2, <1>6 DEF MemoIsPure, Typed
<1> QED BY <1>2, <1>3, <1>4, <1>5, <1>6, <1>7, CompletionPreserves

LEMMA PinDecisionPreserves ==
  ASSUME IInv, NEW r \in Requests, PinDecision(r)
  PROVE  IInv'
<1>1. Typed /\ MemoIsPure /\ Local(r)
  BY DEF IInv
<1>2. /\ pc[r] = "pin"
      /\ memo' = IF Cap = 0 THEN memo ELSE PutWhole(memo, Key(r), Distilled[Key(r)], Cap)
      /\ PieceDone(r, Distilled[Key(r)])
      /\ pc' = [pc EXCEPT ![r] = "piece"]
      /\ UNCHANGED <<orig, request, reply, todo, cur, before, hits>>
  BY DEF PinDecision
<1>3. /\ pc[r] \in Busy
      /\ piece[r] <= PieceCount(r)
      /\ InBounds(Text(r))
      /\ Text(r) \in orig
  BY <1>1, <1>2 DEF Busy, Local, AtWork
<1>4. /\ Pure(r, Position(r)) = Distilled[Key(r)]
      /\ Key(r) \in Keys
  BY <1>1, <1>3, WorkIsTyped
<1>5. /\ Distilled[Key(r)] = DistillText(Key(r)[1], Key(r)[2])
      /\ Key(r)[2] = Text(r)
  BY <1>4 DEF Key, Pure, Text
<1>6. /\ memo' = [order |-> memo'.order, val |-> memo'.val]
      /\ DOMAIN memo'.val \subseteq Keys
      /\ MemoIsPure'
  <2>1. CASE Cap = 0
    BY <1>1, <1>2, <2>1 DEF Typed, MemoIsPure
  <2>2. CASE Cap # 0
    <3>1. memo' = PutWhole(memo, Key(r), Distilled[Key(r)], Cap)
      BY <1>2, <2>2
    <3>2. /\ memo' = [order |-> memo'.order, val |-> memo'.val]
          /\ DOMAIN memo'.val \subseteq DOMAIN memo.val \cup {Key(r)}
          /\ \A x \in DOMAIN memo'.val :
               memo'.val[x] = IF x = Key(r) THEN Distilled[Key(r)] ELSE memo.val[x]
      BY <3>1, PutPinsOneValue
    <3>3. DOMAIN memo'.val \subseteq Keys
      BY <1>1, <1>4, <3>2 DEF Typed
    <3>4. MemoIsPure'
      BY <1>1, <1>2, <1>3, <1>5, <3>2 DEF MemoIsPure
    <3> QED BY <3>2, <3>3, <3>4
  <2> QED BY <2>1, <2>2
<1> QED BY <1>2, <1>3, <1>4, <1>6, CompletionPreserves

(* Going to the store, and storing, change no result. *)
LEMMA StoringPreserves ==
  ASSUME IInv, NEW r \in Requests, Distill(r) \/ StoreOriginal(r)
  PROVE  IInv'
<1>1. Typed /\ MemoIsPure /\ \A q \in Requests : Local(q)
  BY DEF IInv
<1>2. /\ UNCHANGED <<memo, request, reply, todo, cur, piece, res, before, hits>>
      /\ pc[r] \in {"piece", "store"}
      /\ piece[r] <= PieceCount(r) /\ InBounds(Text(r)) /\ Distilled[Key(r)] # Nothing
      /\ \/ pc' = [pc EXCEPT ![r] = "store"] /\ orig' = orig
         \/ pc' = [pc EXCEPT ![r] = "pin"] /\ orig' = orig \cup {Text(r)}
  BY <1>1 DEF Distill, StoreOriginal, AtPiece, Local, AtWork
<1>3. pc[r] \in Busy /\ pc[r] \notin {"idle", "done", "failed"}
  BY <1>2 DEF Busy
<1>4. Text(r) \in Texts
  BY <1>1, <1>2, <1>3, WorkIsTyped
<1>5. Typed'
  BY <1>1, <1>2, <1>4 DEF Typed
<1>6. MemoIsPure'
  BY <1>1, <1>2 DEF MemoIsPure
<1>7. /\ MyPositions(r)' = MyPositions(r)
      /\ PathOf(r)' = PathOf(r) /\ Conv(r)' = Conv(r) /\ Family(r)' = Family(r)
      /\ Text(r)' = Text(r) /\ Key(r)' = Key(r) /\ PieceCount(r)' = PieceCount(r)
      /\ \A pos : Pure(r, pos)' = Pure(r, pos)
  BY <1>2 DEF MyPositions, PathOf, Conv, Family, Pure, Text, Key, Position, PieceCount
<1>8. pc'[r] \in {"store", "pin"}
  BY <1>1, <1>2 DEF Typed
<1>9. \A pos : Pending(r, pos)' <=> Pending(r, pos)
  BY <1>2, <1>3, <1>8 DEF Pending, Busy
<1>10. Started(r)'
  <2>1. Started(r)
    BY <1>1, <1>3 DEF Local
  <2>2. res'[r] = [pos \in MyPositions(r)' |->
                     IF Pending(r, pos)' THEN Nothing ELSE Pure(r, pos)']
    BY <1>2, <1>7, <1>9, <2>1 DEF Started
  <2> QED BY <1>2, <1>7, <2>1, <2>2 DEF Started
<1>11. AtWork(r)'
  <2>1. cur[r] \in Targets(PathOf(r), Conv(r)) \ todo[r]
    BY <1>1, <1>3 DEF Local, AtWork
  <2>2. pc'[r] = "pin" => Text(r) \in orig'
    BY <1>1, <1>2 DEF Typed
  <2> QED BY <1>2, <1>7, <2>1, <2>2 DEF AtWork
<1>12. Local(r)'
  BY <1>1, <1>2, <1>3, <1>8, <1>10, <1>11 DEF Local
<1>13. \A q \in Requests : q # r => Local(q)'
  BY <1>1, <1>2, OthersKeepTheirState DEF Typed
<1> QED BY <1>5, <1>6, <1>12, <1>13 DEF IInv

LEMMA EndTargetPreserves ==
  ASSUME IInv, NEW r \in Requests, EndTarget(r)
  PROVE  IInv'
<1>1. Typed /\ MemoIsPure /\ \A q \in Requests : Local(q)
  BY DEF IInv
<1>2. /\ pc[r] = "piece" /\ piece[r] > PieceCount(r)
      /\ pc' = [pc EXCEPT ![r] = "target"]
      /\ UNCHANGED <<memo, orig, request, reply, todo, cur, piece, res, before>>
  BY DEF EndTarget
<1>3. hits' \in [Requests -> Nat]
  BY <1>1 DEF EndTarget, Typed
<1>4. Typed'
  BY <1>1, <1>2, <1>3 DEF Typed
<1>5. MemoIsPure'
  BY <1>1, <1>2 DEF MemoIsPure
<1>6. /\ MyPositions(r)' = MyPositions(r)
      /\ PathOf(r)' = PathOf(r) /\ Conv(r)' = Conv(r) /\ Family(r)' = Family(r)
      /\ \A pos : Pure(r, pos)' = Pure(r, pos)
  BY <1>2 DEF MyPositions, PathOf, Conv, Family, Pure
<1>7. pc'[r] = "target"
  BY <1>1, <1>2 DEF Typed
<1>8. Started(r) /\ request[r] # None /\ reply[r] = None /\ Conv(r) \in Seq(Messages)
  <2>1. pc[r] \notin {"idle", "done", "failed"}
    BY <1>2
  <2> QED BY <1>1, <2>1, RequestIsTyped DEF Local
<1>9. \A pos \in MyPositions(r) : Pending(r, pos)' <=> Pending(r, pos)
  <2> SUFFICES ASSUME NEW pos \in MyPositions(r)  PROVE Pending(r, pos)' <=> Pending(r, pos)
    OBVIOUS
  <2>1. PICK at : at = <<pos[1], pos[2]>>
    OBVIOUS
  <2>2. /\ at \in Targets(PathOf(r), Conv(r))
        /\ pos[3] \in 1 .. Len(PiecesOf(PathOf(r), Conv(r), at)) /\ pos[3] \in Nat
    BY <1>8, <2>1, PositionParts DEF MyPositions
  <2>3. PiecesOf(PathOf(r), Conv(r), at) \in Seq(Texts)
    BY <1>8, <2>2, PiecesAreTyped
  <2>4. ~(at = cur[r] /\ pos[3] >= piece[r])
    <3>1. PICK n \in Nat : n = Len(PiecesOf(PathOf(r), Conv(r), at))
      BY <2>3
    <3>2. pos[3] <= n
      BY <2>2, <3>1
    <3>3. at = cur[r] => piece[r] > n
      BY <1>2, <3>1 DEF PieceCount
    <3>4. piece[r] \in Nat
      BY <1>1 DEF Typed
    <3> QED BY <2>2, <3>1, <3>2, <3>3, <3>4
  <2>5. Pending(r, pos) <=> at \in todo[r]
    BY <2>1, <2>4 DEF Pending
  <2>6. Pending(r, pos)' <=> at \in todo[r]
    BY <1>2, <1>7, <2>1 DEF Pending, Busy
  <2> QED BY <2>5, <2>6
<1>10. Started(r)'
  <2>1. res'[r] = [pos \in MyPositions(r)' |->
                     IF Pending(r, pos)' THEN Nothing ELSE Pure(r, pos)']
    BY <1>2, <1>6, <1>8, <1>9 DEF Started
  <2> QED BY <1>2, <1>6, <1>8, <2>1 DEF Started
<1>11. Local(r)'
  BY <1>2, <1>7, <1>8, <1>10 DEF Local, AtWork, Busy
<1>12. \A q \in Requests : q # r => Local(q)'
  BY <1>1, <1>2, OthersKeepTheirState DEF Typed
<1> QED BY <1>4, <1>5, <1>11, <1>12 DEF IInv

(* With no target left every result is the pure one. *)
LEMMA ReplyIsPure ==
  ASSUME IInv, NEW r \in Requests, Reply(r)
  PROVE  /\ request[r] # None /\ reply[r] = None
         /\ Stitched(PathOf(r), Conv(r), res[r]) = Sent(Family(r), Conv(r))
<1>1. Typed /\ Local(r) /\ pc[r] = "target" /\ todo[r] = {}
  BY DEF IInv, Reply
<1>2. /\ Started(r) /\ request[r] # None /\ reply[r] = None
      /\ PathOf(r) = Path(Conv(r))
  BY <1>1, RequestIsTyped DEF Local
<1>3. \A pos : ~Pending(r, pos)
  BY <1>1 DEF Pending, Busy
<1>4. res[r] = [pos \in MyPositions(r) |-> Pure(r, pos)]
  BY <1>2, <1>3 DEF Started
<1>5. res[r] = PureResults(Family(r), PathOf(r), Conv(r))
  BY <1>4 DEF PureResults, MyPositions, Pure
<1> QED BY <1>2, <1>5 DEF Sent

LEMMA ReplyPreserves ==
  ASSUME IInv, NEW r \in Requests, Reply(r)
  PROVE  IInv'
<1>1. Typed /\ MemoIsPure /\ \A q \in Requests : Local(q)
  BY DEF IInv
<1>2. /\ pc[r] = "target" /\ todo[r] = {}
      /\ reply' = [reply EXCEPT ![r] = Stitched(PathOf(r), Conv(r), res[r])]
      /\ pc' = [pc EXCEPT ![r] = "done"]
      /\ UNCHANGED <<memo, orig, request, todo, cur, piece, res, before, hits>>
  BY DEF Reply
<1>3. reply'[r] = Sent(Family(r), Conv(r))
  BY <1>1, <1>2, ReplyIsPure DEF Typed
<1>4. Typed'
  <2>1. reply' = [q \in Requests |-> reply'[q]]
    BY <1>1, <1>2 DEF Typed
  <2> QED BY <1>1, <1>2, <2>1 DEF Typed
<1>5. MemoIsPure'
  BY <1>1, <1>2 DEF MemoIsPure
<1>6. /\ MyPositions(r)' = MyPositions(r)
      /\ PathOf(r)' = PathOf(r) /\ Conv(r)' = Conv(r) /\ Family(r)' = Family(r)
      /\ \A pos : Pure(r, pos)' = Pure(r, pos)
  BY <1>2 DEF MyPositions, PathOf, Conv, Family, Pure
<1>7. pc'[r] = "done"
  BY <1>1, <1>2 DEF Typed
<1>8. \A pos : Pending(r, pos)' <=> Pending(r, pos)
  BY <1>2, <1>7 DEF Pending, Busy
<1>9. Started(r)'
  <2>1. Started(r)
    BY <1>1, <1>2 DEF Local
  <2>2. res'[r] = [pos \in MyPositions(r)' |->
                     IF Pending(r, pos)' THEN Nothing ELSE Pure(r, pos)']
    BY <1>2, <1>6, <1>8, <2>1 DEF Started
  <2> QED BY <1>2, <1>6, <2>1, <2>2 DEF Started
<1>10. Local(r)'
  <2>1. request'[r] # None
    BY <1>1, <1>2 DEF Local
  <2> QED BY <1>2, <1>3, <1>6, <1>7, <1>9, <2>1 DEF Local, AtWork, Busy
<1>11. \A q \in Requests : q # r => Local(q)'
  BY <1>1, <1>2, OthersKeepTheirState DEF Typed
<1> QED BY <1>4, <1>5, <1>10, <1>11 DEF IInv
(* A panic leaves what is stored and pinned as it is. *)
LEMMA RecoverPreserves ==
  ASSUME IInv, NEW r \in Requests, Recover(r)
  PROVE  IInv'
<1>1. Typed /\ MemoIsPure /\ \A q \in Requests : Local(q)
  BY DEF IInv
<1>2. /\ pc[r] \notin {"idle", "done", "failed"}
      /\ reply' = [reply EXCEPT ![r] = Verbatim(Conv(r))]
      /\ pc' = [pc EXCEPT ![r] = "failed"]
      /\ todo' = [todo EXCEPT ![r] = {}]
      /\ cur' = [cur EXCEPT ![r] = <<0, 0>>]
      /\ piece' = [piece EXCEPT ![r] = 1]
      /\ res' = [res EXCEPT ![r] = <<>>]
      /\ hits' = [hits EXCEPT ![r] = 0]
      /\ UNCHANGED <<memo, orig, request>>
  BY DEF Recover
<1>3. Typed'
  <2>1. reply' = [q \in Requests |-> reply'[q]] /\ res' = [q \in Requests |-> res'[q]]
    BY <1>1, <1>2 DEF Typed
  <2> QED BY <1>1, <1>2, <2>1 DEF Typed
<1>4. MemoIsPure'
  BY <1>1, <1>2 DEF MemoIsPure
<1>5. Local(r)'
  <2>1. pc'[r] = "failed" /\ todo'[r] = {}
    BY <1>1, <1>2 DEF Typed
  <2>2. request'[r] # None
    BY <1>1, <1>2 DEF Local
  <2> QED BY <2>1, <2>2 DEF Local, AtWork, Busy
<1>6. \A q \in Requests : q # r => Local(q)'
  BY <1>1, <1>2, OthersKeepTheirState DEF Typed
<1> QED BY <1>3, <1>4, <1>5, <1>6 DEF IInv
-----------------------------------------------------------------------------
LEMMA StepPreserves == IInv /\ [Next]_vars => IInv'
<1> SUFFICES ASSUME IInv, [Next]_vars  PROVE IInv'
  OBVIOUS
<1>1. CASE UNCHANGED vars
  BY <1>1 DEF IInv, Typed, MemoIsPure, vars, local, Local, Started, AtWork, MyPositions,
     Pending, Pure, PathOf, Conv, Family, Text, Position, Key, PieceCount
<1>2. CASE \E r \in Requests : Receive(r) \/ Step(r) \/ Recover(r)
  <2>1. PICK r \in Requests : Receive(r) \/ Step(r) \/ Recover(r)
    BY <1>2
  <2>2. CASE Receive(r)
    BY <2>2, ReceivePreserves
  <2>3. CASE NextTarget(r)
    BY <2>3, NextTargetPreserves
  <2>4. CASE OutOfBounds(r) \/ NotDistilled(r)
    BY <2>4, OutOfBoundsPreserves
  <2>5. CASE MemoHit(r)
    BY <2>5, MemoHitPreserves
  <2>6. CASE Distill(r) \/ StoreOriginal(r)
    BY <2>6, StoringPreserves
  <2>7. CASE PinDecision(r)
    BY <2>7, PinDecisionPreserves
  <2>8. CASE EndTarget(r)
    BY <2>8, EndTargetPreserves
  <2>9. CASE Reply(r)
    BY <2>9, ReplyPreserves
  <2>10. CASE Recover(r)
    BY <2>10, RecoverPreserves
  <2> QED BY <2>1, <2>2, <2>3, <2>4, <2>5, <2>6, <2>7, <2>8, <2>9, <2>10 DEF Step
<1> QED BY <1>1, <1>2 DEF Next, Finished

LEMMA Invariance == Spec => []IInv
<1>1. Init => IInv
  BY InitEstablishes
<1>2. IInv /\ [Next]_vars => IInv'
  BY StepPreserves
<1> QED BY <1>1, <1>2, PTL DEF Spec
-----------------------------------------------------------------------------
(* Type correctness of the engine, for every instance. *)
THEOREM TypeCorrect == Spec => []TypeOK
<1>1. IInv => TypeOK
  <2> SUFFICES ASSUME IInv  PROVE TypeOK
    OBVIOUS
  <2>1. Typed /\ \A r \in Requests : Local(r)
    BY DEF IInv
  <2>2. ASSUME NEW r \in Requests
        PROVE  /\ pc[r] = "idle" <=> request[r] = None
               /\ pc[r] \notin {"done", "failed"} => reply[r] = None
               /\ pc[r] # "idle" => todo[r] \subseteq Targets(PathOf(r), Conv(r))
               /\ pc[r] \in {"piece", "store", "pin"} =>
                    cur[r] \in Targets(PathOf(r), Conv(r)) \ todo[r]
               /\ pc[r] \in {"store", "pin"} => piece[r] <= PieceCount(r)
    BY <2>1 DEF Local, Started, AtWork, Busy
  <2> QED BY <2>1, <2>2 DEF TypeOK, Typed
<1> QED BY <1>1, Invariance, PTL

(* storeAndMemo stores the original before it pins the decision, so a block  *)
(* the memo can serve can always be resolved.                                *)
THEOREM PinnedOriginalsAreStored == Spec => []PinnedIsStored
<1>1. IInv => PinnedIsStored
  BY DEF IInv, MemoIsPure, PinnedIsStored
<1> QED BY <1>1, Invariance, PTL

(* When Apply returns, the original of every text it had rewritten is in the *)
(* store, whichever request rewrote it first and however often the memo      *)
(* evicted the decision since.                                               *)
THEOREM AnswersAreReversible == Spec => []AnswerIsReversible
<1>1. IInv => AnswerIsReversible
  <2> SUFFICES ASSUME IInv, NEW r \in Requests, pc[r] = "done",
                      NEW pos \in DOMAIN res[r], res[r][pos] # Nothing
               PROVE  PieceAt(PathOf(r), Conv(r), pos) \in orig
    BY DEF AnswerIsReversible
  <2>1. Started(r)
    BY DEF IInv, Local
  <2> QED BY <2>1 DEF Started
<1> QED BY <1>1, Invariance, PTL

(* A block replaced by a reference to an earlier copy is never lost: the     *)
(* copy it names is itself sent intact, or distilled and then resolvable.    *)
THEOREM ReferencesAreRecoverable == Spec => []ReferentRecoverable
<1>1. IInv => ReferentRecoverable
  <2> SUFFICES ASSUME IInv, NEW r \in Requests, pc[r] = "done",
                      NEW target \in Targets(PathOf(r), Conv(r)),
                      Repeats(PathOf(r), Conv(r), target),
                      NEW t, t = TextAt(Conv(r), target),
                      NEW first, first = FirstTurn(TurnsOf(PathOf(r), Conv(r), t)),
                      NEW k \in DOMAIN Conv(r)[first].texts, Conv(r)[first].texts[k] = t
               PROVE  t \in orig \/ reply[r][first][k] = Intact(t)
    BY DEF ReferentRecoverable
  <2>1. PICK path, conv : path = PathOf(r) /\ conv = Conv(r)
    OBVIOUS
  <2>2. /\ Typed /\ Local(r) /\ Started(r) /\ todo[r] = {}
        /\ conv \in Seq(Messages)
        /\ reply[r] = Sent(Family(r), conv)
    <3>1. Typed /\ Local(r) /\ pc[r] # "idle"
      BY DEF IInv
    <3>2. Conv(r) \in Seq(Messages) /\ PathOf(r) = Path(Conv(r))
      BY <3>1, RequestIsTyped
    <3>3. Started(r) /\ todo[r] = {} /\ reply[r] = Sent(Family(r), Conv(r))
      BY <3>1 DEF Local
    <3> QED BY <2>1, <3>1, <3>2, <3>3
  <2>10. path = Path(conv)
    BY <2>1, RequestIsTyped DEF IInv
  <2>3. PICK at : at = <<first, k>>
    OBVIOUS
  <2>4. /\ at \in Targets(path, conv) /\ IsBlock(path, conv, at)
        /\ ~Repeats(path, conv, at) /\ TextAt(conv, at) = t
    BY <2>1, <2>2, <2>3, FirstCopyIsBlock
  <2>5. PiecesOf(path, conv, at) = <<t>>
    BY <2>4 DEF PiecesOf
  <2>6. PICK pos : pos = <<first, k, 1>>
    OBVIOUS
  <2>7. pos \in Positions(path, conv) /\ PieceAt(path, conv, pos) = t
    <3>1. at[1] = first /\ at[2] = k
      BY <2>3
    <3>2. 1 <= Len(PiecesOf(path, conv, at)) /\ 1 \in Nat \ {0}
      BY <2>5
    <3>3. <<at[1], at[2], 1>> \in Positions(path, conv)
      BY <2>2, <2>4, <3>2, PositionOf
    <3>4. <<pos[1], pos[2]>> = at /\ pos[3] = 1
      BY <2>3, <2>6
    <3>5. PieceAt(path, conv, pos) = PiecesOf(path, conv, at)[1]
      BY <3>4 DEF PieceAt
    <3> QED BY <2>5, <2>6, <3>1, <3>3, <3>5
  <2>8. CASE Pure(r, pos) = Nothing
    <3>1. PICK outs : outs = Results(path, conv, PureResults(Family(r), path, conv), at)
      OBVIOUS
    <3>2. \A p \in DOMAIN outs : outs[p] = Nothing
      <4>1. /\ DOMAIN outs = DOMAIN PiecesOf(path, conv, at)
            /\ \A p \in DOMAIN outs :
                 outs[p] = PureResults(Family(r), path, conv)[<<at[1], at[2], p>>]
        BY <3>1 DEF Results
      <4>2. DOMAIN outs = {1}
        BY <2>5, <4>1
      <4>3. <<at[1], at[2], 1>> = pos
        BY <2>3, <2>6
      <4>4. PureResults(Family(r), path, conv)[pos] = Nothing
        BY <2>1, <2>7, <2>8 DEF PureResults, Pure
      <4> QED BY <4>1, <4>2, <4>3, <4>4
    <3>4. Replacement(path, conv, PureResults(Family(r), path, conv), at) = Intact(t)
      BY <2>4, <3>1, <3>2 DEF Replacement
    <3>5. first \in DOMAIN conv /\ k \in DOMAIN conv[first].texts
      <4>1. at[1] = first /\ at[2] = k
        BY <2>3
      <4> QED BY <2>2, <2>4, <4>1, TargetsAre
    <3>6. reply[r][first][k] = Replacement(path, conv, PureResults(Family(r), path, conv), at)
      <4>1. reply[r] = Stitched(path, conv, PureResults(Family(r), path, conv))
        BY <2>1, <2>2, <2>10 DEF Sent
      <4> QED BY <2>3, <2>4, <3>5, <4>1 DEF Stitched
    <3> QED BY <3>4, <3>6
  <2>9. CASE Pure(r, pos) # Nothing
    <3>1. ~Pending(r, pos)
      BY <2>2 DEF Pending, Busy
    <3>2. pos \in MyPositions(r)
      BY <2>1, <2>7 DEF MyPositions
    <3>3. res[r][pos] = Pure(r, pos)
      BY <2>2, <3>1, <3>2 DEF Started
    <3> QED BY <2>1, <2>2, <2>7, <2>9, <3>2, <3>3 DEF Started
  <2> QED BY <2>8, <2>9
<1> QED BY <1>1, Invariance, PTL

(* Concurrent requests, the memo and its evictions implement the pure        *)
(* transform of Squeeze: every request is answered as if it were alone and   *)
(* the first.                                                                *)
THEOREM EngineImplementsSqueeze == Spec => AnswersArePure
<1>1. Init => Promise!Init
  BY DEF Init, Promise!Init
<1>2. ASSUME IInv, [Next]_vars  PROVE [Promise!Next]_<<request, reply>>
  <2>1. CASE UNCHANGED vars
    BY <2>1 DEF vars
  <2>2. CASE \E r \in Requests : Receive(r) \/ Step(r) \/ Recover(r)
    <3>1. PICK r \in Requests : Receive(r) \/ Step(r) \/ Recover(r)
      BY <2>2
    <3>2. CASE Receive(r)
      <4>1. request[r] = None
        BY <1>2, <3>2 DEF IInv, Local, Receive
      <4>2. Promise!Receive(r)
        BY <3>2, <4>1 DEF Receive, Promise!Receive
      <4> QED BY <4>2 DEF Promise!Next
    <3>3. CASE Reply(r)
      <4>1. /\ request[r] # None /\ reply[r] = None
            /\ Stitched(PathOf(r), Conv(r), res[r]) = Sent(Family(r), Conv(r))
        BY <1>2, <3>3, ReplyIsPure
      <4>2. /\ request[r] \in [family : Families, conv : Conversations]
            /\ Family(r) = request[r].family /\ Conv(r) = request[r].conv
        BY <1>2, <4>1 DEF IInv, Typed, Family, Conv
      <4>3. reply' = [reply EXCEPT ![r] = Sent(Family(r), Conv(r))]
        BY <3>3, <4>1 DEF Reply
      <4>4. UNCHANGED request
        BY <3>3 DEF Reply
      <4>5. [fc \in Families \X Conversations |-> Sent(fc[1], fc[2])]
              [<<request[r].family, request[r].conv>>] = Sent(Family(r), Conv(r))
        <5>1. PICK mine : mine = <<request[r].family, request[r].conv>>
          OBVIOUS
        <5>2. /\ mine \in Families \X Conversations
              /\ mine[1] = Family(r) /\ mine[2] = Conv(r)
          BY <4>2, <5>1
        <5> QED BY <5>1, <5>2
      <4>6. Promise!Respond(r)
        BY <4>1, <4>3, <4>4, <4>5 DEF Promise!Respond
      <4> QED BY <4>6 DEF Promise!Next
    <3>4. CASE /\ ~Receive(r) /\ ~Reply(r)
               /\ Step(r)
      BY <3>4 DEF Step, NextTarget, OutOfBounds, MemoHit, NotDistilled, Distill,
         StoreOriginal, PinDecision, EndTarget
    <3>5. CASE Recover(r)
      <4>1. request[r] # None /\ reply[r] = None
        BY <1>2, <3>5 DEF IInv, Local, Recover
      <4>2. /\ request[r].conv \in Conversations
            /\ Conv(r) = request[r].conv
        BY <1>2, <4>1 DEF IInv, Typed, Conv
      <4>3. [conv \in Conversations |-> Verbatim(conv)][request[r].conv] = Verbatim(Conv(r))
        BY <4>2
      <4>4. reply' = [reply EXCEPT ![r] = Verbatim(Conv(r))] /\ UNCHANGED request
        BY <3>5 DEF Recover
      <4>5. Promise!PassThrough(r)
        BY <4>1, <4>3, <4>4 DEF Promise!PassThrough
      <4> QED BY <4>5 DEF Promise!Next
    <3> QED BY <3>1, <3>2, <3>3, <3>4, <3>5
  <2> QED BY <1>2, <2>1, <2>2 DEF Next, Finished
<1> QED BY <1>1, <1>2, Invariance, PTL DEF Spec, AnswersArePure, Promise!Spec
=============================================================================
