---------------------------- MODULE Turns_proofs -----------------------------
(* Prefix stability, for every set of texts and messages, every family and   *)
(* every bound: as long as a conversation stays on its path through Apply,   *)
(* a message is sent in every later turn exactly as in its first.            *)
EXTENDS Dedup, Transform_proofs, SequenceTheorems, TLAPS

(* What appending a turn does to a conversation. *)
Grown(c, d) ==
  /\ DOMAIN c \subseteq DOMAIN d
  /\ \A i \in DOMAIN c : d[i] = c[i]
  /\ \A i \in DOMAIN c, j \in DOMAIN d \ DOMAIN c : i < j

LEMMA AppendingGrows ==
  ASSUME NEW c \in Seq(Messages), NEW delta \in Seq(Messages)
  PROVE  c \o delta \in Seq(Messages) /\ Grown(c, c \o delta)
BY DEF Grown

LEMMA SameBlocks ==
  ASSUME NEW path, NEW c \in Seq(Messages), NEW d \in Seq(Messages), Grown(c, d),
         NEW target, target[1] \in DOMAIN c
  PROVE  /\ target \in Targets(path, d) <=> target \in Targets(path, c)
         /\ IsBlock(path, d, target) <=> IsBlock(path, c, target)
         /\ TextAt(d, target) = TextAt(c, target)
<1>1. d[target[1]] = c[target[1]] /\ target[1] \in DOMAIN d
  BY DEF Grown
<1> QED BY <1>1, TargetsAre DEF IsBlock, TextAt

(* A later copy of a text does not move its first turn. *)
LEMMA FirstTurnStays ==
  ASSUME NEW path, NEW c \in Seq(Messages), NEW d \in Seq(Messages), Grown(c, d),
         NEW x, TurnsOf(path, c, x) # {}
  PROVE  FirstTurn(TurnsOf(path, d, x)) = FirstTurn(TurnsOf(path, c, x))
<1>1. PICK s, t : s = TurnsOf(path, c, x) /\ t = TurnsOf(path, d, x)
  OBVIOUS
<1>2. s \subseteq DOMAIN c /\ t \subseteq DOMAIN d /\ DOMAIN c \subseteq Nat /\ DOMAIN d \subseteq Nat
  BY <1>1 DEF TurnsOf
<1>3. \A i \in DOMAIN c : i \in t <=> i \in s
  <2> SUFFICES ASSUME NEW i \in DOMAIN c  PROVE i \in t <=> i \in s
    OBVIOUS
  <2>1. d[i] = c[i] /\ i \in DOMAIN d
    BY DEF Grown
  <2>2. \A k : IsBlock(path, d, <<i, k>>) <=> IsBlock(path, c, <<i, k>>)
    <3> TAKE k
    <3>1. PICK at : at = <<i, k>>
      OBVIOUS
    <3>2. at[1] \in DOMAIN c
      BY <3>1
    <3> QED BY <3>1, <3>2, SameBlocks
  <2> QED BY <1>1, <2>1, <2>2 DEF TurnsOf
<1>4. PICK m : m = FirstTurn(s)
  OBVIOUS
<1>5. m \in s /\ \A j \in s : m <= j
  BY <1>1, <1>2, <1>4, FirstTurnIsFirst
<1>6. m \in t /\ \A j \in t : m <= j
  <2>1. m \in DOMAIN c /\ m \in Nat
    BY <1>2, <1>5
  <2>2. ASSUME NEW j \in t, j \notin DOMAIN c  PROVE m <= j
    <3>1. m < j /\ j \in Nat
      BY <1>2, <2>1, <2>2 DEF Grown
    <3> QED BY <2>1, <3>1
  <2> QED BY <1>3, <1>5, <2>1, <2>2
<1>7. FirstTurn(t) \in t /\ \A j \in t : FirstTurn(t) <= j
  BY <1>2, <1>6, FirstTurnIsFirst
<1>8. FirstTurn(t) <= m /\ m <= FirstTurn(t) /\ FirstTurn(t) \in Nat /\ m \in Nat
  BY <1>2, <1>6, <1>7
<1>9. FirstTurn(t) = m
  <2>1. PICK n : n = FirstTurn(t)
    OBVIOUS
  <2> QED BY <1>8, <2>1
<1> QED BY <1>1, <1>4, <1>9

LEMMA SameRepeats ==
  ASSUME NEW path, NEW c \in Seq(Messages), NEW d \in Seq(Messages), Grown(c, d),
         NEW target \in Targets(path, c)
  PROVE  /\ Repeats(path, d, target) <=> Repeats(path, c, target)
         /\ Repeats(path, c, target) =>
              DedupMarker(path, d, target) = DedupMarker(path, c, target)
         /\ PiecesOf(path, d, target) = PiecesOf(path, c, target)
<1>1. /\ target = <<target[1], target[2]>>
      /\ target[1] \in DOMAIN c /\ target[2] \in DOMAIN c[target[1]].texts
  BY TargetsAre
<1>2. /\ IsBlock(path, d, target) <=> IsBlock(path, c, target)
      /\ TextAt(d, target) = TextAt(c, target)
  BY <1>1, SameBlocks
<1>3. CASE IsBlock(path, c, target)
  <2>1. target[1] \in TurnsOf(path, c, TextAt(c, target))
    BY <1>1, <1>3 DEF TurnsOf, TextAt
  <2>2. FirstTurn(TurnsOf(path, d, TextAt(c, target)))
          = FirstTurn(TurnsOf(path, c, TextAt(c, target)))
    BY <2>1, FirstTurnStays
  <2> QED BY <1>2, <2>2 DEF Repeats, DedupMarker, PiecesOf
<1>4. CASE ~IsBlock(path, c, target)
  BY <1>2, <1>4 DEF Repeats, PiecesOf
<1> QED BY <1>3, <1>4

LEMMA SameReplacement ==
  ASSUME NEW path, NEW c \in Seq(Messages), NEW d \in Seq(Messages), Grown(c, d),
         NEW target \in Targets(path, c), NEW f
  PROVE  Replacement(path, d, PureResults(f, path, d), target)
           = Replacement(path, c, PureResults(f, path, c), target)
<1>1. target[1] \in DOMAIN c /\ target = <<target[1], target[2]>>
  BY TargetsAre
<1>2. /\ target \in Targets(path, d)
      /\ IsBlock(path, d, target) <=> IsBlock(path, c, target)
      /\ TextAt(d, target) = TextAt(c, target)
  BY <1>1, SameBlocks
<1>3. PICK pieces : pieces = PiecesOf(path, c, target)
  OBVIOUS
<1>4. PiecesOf(path, d, target) = pieces
  BY <1>3, SameRepeats
<1>5. \A p \in DOMAIN pieces :
        /\ PureResults(f, path, c)[<<target[1], target[2], p>>] = DistillText(f, pieces[p])
        /\ PureResults(f, path, d)[<<target[1], target[2], p>>] = DistillText(f, pieces[p])
  <2> SUFFICES ASSUME NEW p \in DOMAIN pieces
               PROVE  /\ PureResults(f, path, c)[<<target[1], target[2], p>>]
                           = DistillText(f, pieces[p])
                      /\ PureResults(f, path, d)[<<target[1], target[2], p>>]
                           = DistillText(f, pieces[p])
    OBVIOUS
  <2>1. PICK pos : pos = <<target[1], target[2], p>>
    OBVIOUS
  <2>2. pos \in Positions(path, c) /\ pos \in Positions(path, d)
    BY <1>2, <1>3, <1>4, <2>1, PositionsAre
  <2>3. <<pos[1], pos[2]>> = target /\ pos[3] = p
    BY <1>1, <2>1
  <2>4. PieceAt(path, c, pos) = pieces[p] /\ PieceAt(path, d, pos) = pieces[p]
    BY <1>3, <1>4, <2>3 DEF PieceAt
  <2> QED BY <2>1, <2>2, <2>4 DEF PureResults
<1>6. Results(path, d, PureResults(f, path, d), target)
        = Results(path, c, PureResults(f, path, c), target)
  BY <1>3, <1>4, <1>5 DEF Results
<1>7. /\ Repeats(path, d, target) <=> Repeats(path, c, target)
      /\ Repeats(path, c, target) =>
           DedupMarker(path, d, target) = DedupMarker(path, c, target)
  BY SameRepeats
<1> QED BY <1>2, <1>6, <1>7 DEF Replacement

(* Growing a conversation changes nothing about the messages it already had. *)
LEMMA SameMessages ==
  ASSUME NEW path, NEW c \in Seq(Messages), NEW d \in Seq(Messages), Grown(c, d), NEW f,
         NEW old, old = Stitched(path, c, PureResults(f, path, c)),
         NEW new, new = Stitched(path, d, PureResults(f, path, d))
  PROVE  KeptIn(old, new)
<1>1. DOMAIN old = DOMAIN c /\ DOMAIN new = DOMAIN d /\ DOMAIN c \subseteq DOMAIN d
  BY DEF Stitched, Grown
<1>2. ASSUME NEW i \in DOMAIN c  PROVE new[i] = old[i]
  <2>1. d[i] = c[i] /\ i \in DOMAIN d
    BY DEF Grown
  <2>2. ASSUME NEW k \in DOMAIN c[i].texts
        PROVE  /\ <<i, k>> \in Targets(path, d) <=> <<i, k>> \in Targets(path, c)
               /\ <<i, k>> \in Targets(path, c) =>
                    Replacement(path, d, PureResults(f, path, d), <<i, k>>)
                      = Replacement(path, c, PureResults(f, path, c), <<i, k>>)
    <3>1. PICK at : at = <<i, k>>
      OBVIOUS
    <3>2. at[1] \in DOMAIN c
      BY <3>1
    <3> QED BY <3>1, <3>2, SameBlocks, SameReplacement
  <2>3. old[i] = [k \in DOMAIN c[i].texts |->
                    IF <<i, k>> \in Targets(path, c)
                      THEN Replacement(path, c, PureResults(f, path, c), <<i, k>>)
                      ELSE Intact(c[i].texts[k])]
    BY DEF Stitched
  <2>4. new[i] = [k \in DOMAIN c[i].texts |->
                    IF <<i, k>> \in Targets(path, d)
                      THEN Replacement(path, d, PureResults(f, path, d), <<i, k>>)
                      ELSE Intact(c[i].texts[k])]
    BY <2>1 DEF Stitched
  <2> QED BY <2>2, <2>3, <2>4
<1> QED BY <1>1, <1>2 DEF KeptIn
-----------------------------------------------------------------------------
IInv ==
  /\ conv \in Seq(Messages)
  /\ Len(conv) <= MaxMessages
  /\ (conv = <<>> /\ sent = <<>>) \/ sent = Sent(Family, conv)

LEMMA Invariance == Spec => []IInv
<1>1. Init => IInv
  BY TurnsAssumption DEF Init, IInv
<1>2. IInv /\ [Next]_vars => IInv'
  <2> SUFFICES ASSUME IInv, [Next]_vars  PROVE IInv'
    OBVIOUS
  <2>1. CASE Turn
    <3>1. PICK delta \in Deltas :
            /\ Len(conv) + Len(delta) <= MaxMessages
            /\ conv' = conv \o delta
            /\ sent' = Sent(Family, conv')
      BY <2>1 DEF Turn
    <3>2. delta \in Seq(Messages)
      BY TurnsAssumption
    <3>3. conv' \in Seq(Messages) /\ Len(conv') = Len(conv) + Len(delta)
      BY <3>1, <3>2 DEF IInv
    <3> QED BY <3>1, <3>3 DEF IInv
  <2>2. CASE UNCHANGED vars
    BY <2>2 DEF IInv, vars
  <2> QED BY <2>1, <2>2 DEF Next, Over
<1> QED BY <1>1, <1>2, PTL DEF Spec

(* Type correctness, for every instance. *)
THEOREM TypeCorrect == Spec => []TypeOK
<1>1. IInv => TypeOK
  BY DEF IInv, TypeOK, Sent, Stitched
<1> QED BY <1>1, Invariance, PTL

(* The cache guard: on one path through Apply, no later turn rewrites a      *)
(* message the provider has already seen.                                    *)
THEOREM PrefixIsKept == Spec => PrefixKept
<1>1. ASSUME IInv, [Next]_vars, Path(conv') = Path(conv)  PROVE KeptIn(sent, sent')
  <2>1. CASE Turn
    <3>1. PICK delta \in Deltas : conv' = conv \o delta /\ sent' = Sent(Family, conv')
      BY <2>1 DEF Turn
    <3>2. delta \in Seq(Messages) /\ conv \in Seq(Messages)
      BY <1>1, TurnsAssumption DEF IInv
    <3>3. conv' \in Seq(Messages) /\ Grown(conv, conv')
      BY <3>1, <3>2, AppendingGrows
    <3>4. CASE conv = <<>> /\ sent = <<>>
      BY <3>4 DEF KeptIn
    <3>5. CASE sent = Sent(Family, conv)
      <4>1. PICK path : path = Path(conv)
        OBVIOUS
      <4>2. /\ sent = Stitched(path, conv, PureResults(Family, path, conv))
            /\ sent' = Stitched(path, conv', PureResults(Family, path, conv'))
        BY <1>1, <3>1, <3>5, <4>1 DEF Sent
      <4> QED BY <3>2, <3>3, <4>2, SameMessages
    <3> QED BY <1>1, <3>4, <3>5 DEF IInv
  <2>2. CASE UNCHANGED vars
    BY <2>2 DEF vars, KeptIn
  <2> QED BY <1>1, <2>1, <2>2 DEF Next, Over
<1>2. IInv /\ [Next]_vars => [Path(conv') = Path(conv) => KeptIn(sent, sent')]_vars
  BY <1>1
<1> QED BY <1>2, Invariance, PTL DEF Spec, PrefixKept

(* "Bytes already sent to the provider are never rewritten" (README,         *)
(* "Cache-safe") holds for the clients whose path cannot change: tools       *)
(* declared, a system prompt, no body cap, and no body below the floor.      *)
THEOREM StableClientsAreNeverRewritten ==
  ASSUME DeclaresTools = TRUE, HasSystem = TRUE, MaxBody = 0,
         \A c \in Seq(Messages) : ~(Bytes(c) < MinBytes)
  PROVE  Spec => NeverRewritten
<1>1. \A c \in Seq(Messages) : Path(c) = Format(<<>>)
  <2> SUFFICES ASSUME NEW c \in Seq(Messages)  PROVE Path(c) = Format(<<>>)
    OBVIOUS
  <2>1. Format(c) = Format(<<>>)
    BY DEF Format
  <2>2. ~(MaxBody > 0) /\ ~(Bytes(c) < MinBytes) /\ HasCandidate(c)
    BY DEF HasCandidate
  <2> QED BY <2>1, <2>2 DEF Path
<1>2. IInv /\ IInv' => Path(conv') = Path(conv)
  BY <1>1 DEF IInv
<1>3. IInv /\ IInv' /\ [Path(conv') = Path(conv) => KeptIn(sent, sent')]_vars
        => [KeptIn(sent, sent')]_vars
  BY <1>2
<1> QED BY <1>3, Invariance, PrefixIsKept, PTL DEF PrefixKept, NeverRewritten

(* What a message is sent as says whether it repeats an earlier one. *)
LEMMA RepeatsAreMarked ==
  ASSUME NEW path, NEW c \in Seq(Messages), NEW res, NEW target \in Targets(path, c)
  PROVE  /\ Repeats(path, c, target) <=> Replacement(path, c, res, target)[1] = "repeat"
         /\ Repeats(path, c, target) =>
              Replacement(path, c, res, target)[2] = DedupMarker(path, c, target)
<1>1. CASE Repeats(path, c, target)
  BY <1>1 DEF Replacement
<1>2. CASE ~Repeats(path, c, target)
  BY <1>2 DEF Replacement, Intact
<1> QED BY <1>1, <1>2

(* A reference leads to an earlier message that holds the text itself. *)
THEOREM ReferencesAlwaysLead == Spec => []ReferencesLead
<1>1. IInv => ReferencesLead
  <2> SUFFICES ASSUME IInv, NEW i \in DOMAIN sent, NEW k \in DOMAIN sent[i],
                      sent[i][k][1] = "repeat", NEW marker, marker = sent[i][k][2]
               PROVE  /\ marker.first < i
                      /\ \E n \in DOMAIN sent[marker.first] :
                           /\ conv[marker.first].texts[n] = marker.of
                           /\ sent[marker.first][n][1] # "repeat"
    BY DEF ReferencesLead
  <2>1. conv \in Seq(Messages) /\ sent = Sent(Family, conv)
    BY DEF IInv
  <2>2. PICK path, res : path = Path(conv) /\ res = PureResults(Family, path, conv)
    OBVIOUS
  <2>3. sent = Stitched(path, conv, res)
    BY <2>1, <2>2 DEF Sent
  <2>4. /\ DOMAIN sent = DOMAIN conv
        /\ \A m \in DOMAIN conv : DOMAIN sent[m] = DOMAIN conv[m].texts
        /\ \A m \in DOMAIN conv : \A n \in DOMAIN conv[m].texts :
             sent[m][n] = IF <<m, n>> \in Targets(path, conv)
                            THEN Replacement(path, conv, res, <<m, n>>)
                            ELSE Intact(conv[m].texts[n])
    BY <2>3 DEF Stitched
  <2>5. PICK at : at = <<i, k>>
    OBVIOUS
  <2>6. at[1] = i /\ at[2] = k
    BY <2>5
  <2>7. at \in Targets(path, conv) /\ sent[i][k] = Replacement(path, conv, res, at)
    <3>1. Intact(conv[i].texts[k])[1] # "repeat"
      BY DEF Intact
    <3> QED BY <2>4, <2>5, <3>1
  <2>8. Repeats(path, conv, at) /\ marker = DedupMarker(path, conv, at)
    BY <2>1, <2>7, RepeatsAreMarked
  <2>9. PICK t, first : t = TextAt(conv, at) /\ first = FirstTurn(TurnsOf(path, conv, t))
    OBVIOUS
  <2>10. marker.first = first /\ marker.of = t /\ first < i
    <3>1. i > first
      BY <2>6, <2>8, <2>9 DEF Repeats
    <3>2. first \in Nat /\ i \in Nat
      <4>1. TurnsOf(path, conv, t) \subseteq Nat /\ DOMAIN conv \subseteq Nat
        BY <2>1 DEF TurnsOf
      <4>2. i \in TurnsOf(path, conv, t)
        BY <2>4, <2>5, <2>6, <2>8, <2>9 DEF TurnsOf, Repeats, TextAt
      <4> QED BY <2>9, <4>1, <4>2, FirstTurnIsFirst
    <3> QED BY <2>8, <2>9, <3>1, <3>2 DEF DedupMarker
  <2>11. PICK n : /\ n \in DOMAIN conv[first].texts /\ conv[first].texts[n] = t
                  /\ first \in DOMAIN conv
    <3>1. i \in TurnsOf(path, conv, t) /\ TurnsOf(path, conv, t) \subseteq Nat
      BY <2>1, <2>4, <2>5, <2>6, <2>8, <2>9 DEF TurnsOf, Repeats, TextAt
    <3>2. first \in TurnsOf(path, conv, t)
      BY <2>9, <3>1, FirstTurnIsFirst
    <3> QED BY <3>2 DEF TurnsOf
  <2>12. PICK copy : copy = <<first, n>>
    OBVIOUS
  <2>13. copy \in Targets(path, conv) /\ ~Repeats(path, conv, copy)
    BY <2>1, <2>8, <2>9, <2>11, <2>12, FirstCopyIsBlock
  <2>14. sent[first][n][1] # "repeat"
    <3>1. sent[first][n] = Replacement(path, conv, res, copy)
      BY <2>4, <2>11, <2>12, <2>13
    <3> QED BY <2>1, <2>13, <3>1, RepeatsAreMarked
  <2> QED BY <2>4, <2>10, <2>11, <2>14
<1> QED BY <1>1, Invariance, PTL
-----------------------------------------------------------------------------
(* The bytes of a request are sums over its messages and their texts, which  *)
(* Transform writes as recursive functions on an interval of numbers: such a *)
(* function exists, is unique, and only grows.                               *)
IsSum(f, base, len, w) ==
  /\ DOMAIN f = 0 .. len
  /\ f[0] = base
  /\ \A n \in 1 .. len : f[n] = f[n - 1] + w[n]

(* Sums over the same terms agree as far as the shorter one goes. *)
LEMMA SumsAgree ==
  ASSUME NEW base, NEW m \in Nat, NEW n \in Nat, m <= n, NEW v, NEW w,
         NEW f, IsSum(f, base, m, v), NEW g, IsSum(g, base, n, w),
         \A i \in 1 .. m : v[i] = w[i]
  PROVE  \A i \in 0 .. m : f[i] = g[i]
<1> DEFINE P == {i \in 0 .. m : f[i] = g[i]}
<1>1. 0 \in P
  BY DEF IsSum
<1>2. ASSUME NEW i \in 1 .. m, i - 1 \in P  PROVE i \in P
  <2>1. f[i] = f[i - 1] + v[i] /\ g[i] = g[i - 1] + w[i] /\ v[i] = w[i]
    BY DEF IsSum
  <2> QED BY <1>2, <2>1
<1>3. \A i \in 0 .. m : i \in P
  <2> HIDE DEF P
  <2> QED BY <1>1, <1>2, IntervalInduction
<1> QED BY <1>3

LEMMA SumGrows ==
  ASSUME NEW base, NEW len \in Nat, NEW w \in [1 .. len -> Nat],
         NEW f \in [0 .. len -> Nat], IsSum(f, base, len, w), NEW m \in 0 .. len
  PROVE  f[m] <= f[len]
<1> DEFINE P == {i \in 0 .. len : m <= i => f[m] <= f[i]}
<1>1. 0 \in P
  OBVIOUS
<1>2. ASSUME NEW i \in 1 .. len, i - 1 \in P  PROVE i \in P
  <2>1. f[i] = f[i - 1] + w[i] /\ w[i] \in Nat /\ f[i - 1] \in Nat /\ f[m] \in Nat
    BY DEF IsSum
  <2>2. CASE m = i
    BY <2>1, <2>2
  <2>3. CASE m < i
    <3>1. f[m] <= f[i - 1]
      BY <1>2, <2>3
    <3> QED BY <2>1, <3>1
  <2> QED BY <2>2, <2>3
<1>3. \A i \in 0 .. len : i \in P
  <2> HIDE DEF P
  <2> QED BY <1>1, <1>2, IntervalInduction
<1> QED BY <1>3

(* A recursive definition of a sum defines it. *)
Summing(f, base, len, w) ==
  [n \in 0 .. len |-> IF n = 0 THEN base ELSE f[n - 1] + w[n]]

LEMMA SummingSums ==
  ASSUME NEW base \in Nat, NEW len \in Nat, NEW w \in [1 .. len -> Nat]
  PROVE  /\ \E g : g = Summing(g, base, len, w)
         /\ \A f : f = Summing(f, base, len, w) =>
              f \in [0 .. len -> Nat] /\ IsSum(f, base, len, w)
<1>1. \E g : g = Summing(g, base, len, w)
  <2>1. PICK step : step = [n \in 1 .. len |-> [x \in Nat |-> x + w[n]]]
    OBVIOUS
  <2>2. step \in [1 .. len -> [Nat -> Nat]]
    BY <2>1
  <2>3. \E g \in [0 .. len -> Nat] : IsRecursion(g, base, len, step)
    BY <2>2, RecursionExists
  <2>4. PICK g \in [0 .. len -> Nat] : IsRecursion(g, base, len, step)
    BY <2>3
  <2>5. ASSUME NEW n \in 0 .. len
        PROVE  g[n] = IF n = 0 THEN base ELSE g[n - 1] + w[n]
    <3>1. CASE n = 0
      BY <2>4, <3>1 DEF IsRecursion
    <3>2. CASE n # 0
      <4>1. n \in 1 .. len /\ g[n - 1] \in Nat
        BY <3>2
      <4>2. g[n] = step[n][g[n - 1]]
        BY <2>4, <4>1 DEF IsRecursion
      <4>3. step[n][g[n - 1]] = g[n - 1] + w[n]
        BY <2>1, <4>1
      <4> QED BY <3>2, <4>2, <4>3
    <3> QED BY <3>1, <3>2
  <2>6. g = Summing(g, base, len, w)
    BY <2>5 DEF Summing
  <2> QED BY <2>6
<1>2. ASSUME NEW f, f = Summing(f, base, len, w)
      PROVE  f \in [0 .. len -> Nat] /\ IsSum(f, base, len, w)
  <2>1. PICK h : h = Summing(f, base, len, w)
    OBVIOUS
  <2>2. /\ DOMAIN h = 0 .. len /\ h[0] = base /\ h = [n \in 0 .. len |-> h[n]]
        /\ \A n \in 1 .. len : h[n] = f[n - 1] + w[n]
    BY <2>1 DEF Summing
  <2>3. IsSum(f, base, len, w) /\ f = [n \in 0 .. len |-> f[n]]
    BY <1>2, <2>1, <2>2 DEF IsSum
  <2> DEFINE P == {n \in 0 .. len : f[n] \in Nat}
  <2>4. 0 \in P
    BY <2>3 DEF IsSum
  <2>5. ASSUME NEW n \in 1 .. len, n - 1 \in P  PROVE n \in P
    BY <2>3, <2>5 DEF IsSum
  <2>6. \A n \in 0 .. len : n \in P
    <3> HIDE DEF P
    <3> QED BY <2>4, <2>5, IntervalInduction
  <2> QED BY <2>3, <2>6
<1> QED BY <1>1, <1>2

LEMMA MessageBytesAre ==
  ASSUME NEW m \in Messages
  PROVE  MessageBytes(m) \in Nat
<1> DEFINE last == Len(m.texts)
           Sums(f) == [n \in 0 .. last |->
                         IF n = 0 THEN 0 ELSE f[n - 1] + Size[m.texts[n]]]
<1>1. PICK w : w = [n \in 1 .. last |-> Size[m.texts[n]]]
  OBVIOUS
<1>2. m.texts \in Seq(Texts) /\ last \in Nat
  BY DEF Messages
<1>3. w \in [1 .. last -> Nat]
  <2>1. \A n \in 1 .. last : m.texts[n] \in Texts
    BY <1>2
  <2> QED BY <1>1, <2>1, TransformAssumption
<1>4. PICK upTo : upTo = CHOOSE f : f = Sums(f)
  OBVIOUS
<1>5. MessageBytes(m) = upTo[last]
  BY <1>4 DEF MessageBytes
<1> HIDE DEF last
<1>6. \A f : Sums(f) = Summing(f, 0, last, w)
  <2> TAKE f
  <2>1. \A n \in 0 .. last : n = 0 \/ w[n] = Size[m.texts[n]]
    BY <1>1, <1>2
  <2> QED BY <2>1 DEF Summing
<1>7. /\ \E g : g = Summing(g, 0, last, w)
      /\ \A f : f = Summing(f, 0, last, w) =>
           f \in [0 .. last -> Nat] /\ IsSum(f, 0, last, w)
  BY <1>2, <1>3, SummingSums
<1>8. upTo = Summing(upTo, 0, last, w)
  BY <1>4, <1>6, <1>7
<1> QED BY <1>2, <1>5, <1>7, <1>8

LEMMA BytesAre ==
  ASSUME NEW c \in Seq(Messages)
  PROVE  \E w \in [1 .. Len(c) -> Nat], f \in [0 .. Len(c) -> Nat] :
           /\ w = [n \in 1 .. Len(c) |-> MessageBytes(c[n])]
           /\ IsSum(f, BaseBytes, Len(c), w)
           /\ Bytes(c) = f[Len(c)]
<1> DEFINE last == Len(c)
           Sums(f) == [n \in 0 .. last |->
                         IF n = 0 THEN BaseBytes ELSE f[n - 1] + MessageBytes(c[n])]
<1>1. PICK w : w = [n \in 1 .. last |-> MessageBytes(c[n])]
  OBVIOUS
<1>2. last \in Nat /\ BaseBytes \in Nat
  BY TransformAssumption
<1>3. w \in [1 .. last -> Nat]
  <2>1. \A n \in 1 .. last : c[n] \in Messages
    OBVIOUS
  <2> QED BY <1>1, <2>1, MessageBytesAre
<1>4. PICK upTo : upTo = CHOOSE f : f = Sums(f)
  OBVIOUS
<1>5. Bytes(c) = upTo[last]
  BY <1>4 DEF Bytes
<1> HIDE DEF last
<1>6. \A f : Sums(f) = Summing(f, BaseBytes, last, w)
  <2> TAKE f
  <2>1. \A n \in 0 .. last : n = 0 \/ w[n] = MessageBytes(c[n])
    BY <1>1, <1>2
  <2> QED BY <2>1 DEF Summing
<1>7. /\ \E g : g = Summing(g, BaseBytes, last, w)
      /\ \A f : f = Summing(f, BaseBytes, last, w) =>
           f \in [0 .. last -> Nat] /\ IsSum(f, BaseBytes, last, w)
  BY <1>2, <1>3, SummingSums
<1>8. upTo = Summing(upTo, BaseBytes, last, w)
  BY <1>4, <1>6, <1>7
<1> QED BY <1>1, <1>3, <1>5, <1>7, <1>8 DEF last

(* A conversation never gets smaller. *)
LEMMA BytesGrow ==
  ASSUME NEW c \in Seq(Messages), NEW d \in Seq(Messages), Grown(c, d)
  PROVE  Bytes(c) \in Nat /\ Bytes(d) \in Nat /\ Bytes(c) <= Bytes(d)
<1>1. PICK m \in Nat, n \in Nat : m = Len(c) /\ n = Len(d)
  OBVIOUS
<1>2. m <= n /\ \A i \in 1 .. m : d[i] = c[i]
  <2>1. 1 .. m \subseteq 1 .. n /\ \A i \in 1 .. m : d[i] = c[i]
    BY <1>1 DEF Grown
  <2>2. m = 0 \/ m \in 1 .. m
    BY <1>1
  <2> QED BY <1>1, <2>1, <2>2
<1>3. PICK v \in [1 .. m -> Nat], f \in [0 .. m -> Nat] :
           /\ v = [i \in 1 .. m |-> MessageBytes(c[i])]
           /\ IsSum(f, BaseBytes, m, v)
           /\ Bytes(c) = f[m]
  BY <1>1, BytesAre
<1>4. PICK w \in [1 .. n -> Nat], g \in [0 .. n -> Nat] :
           /\ w = [i \in 1 .. n |-> MessageBytes(d[i])]
           /\ IsSum(g, BaseBytes, n, w)
           /\ Bytes(d) = g[n]
  BY <1>1, BytesAre
<1>5. \A i \in 1 .. m : v[i] = w[i]
  BY <1>1, <1>2, <1>3, <1>4
<1>6. f[m] = g[m]
  <2>1. \A i \in 0 .. m : f[i] = g[i]
    <3>1. PICK shorter, longer, x, y, b :
            shorter = f /\ longer = g /\ x = v /\ y = w /\ b = BaseBytes
      OBVIOUS
    <3>2. IsSum(shorter, b, m, x) /\ IsSum(longer, b, n, y)
          /\ \A i \in 1 .. m : x[i] = y[i]
      BY <1>1, <1>3, <1>4, <1>5, <3>1
    <3>3. \A i \in 0 .. m : shorter[i] = longer[i]
      BY ONLY <1>1, <1>2, <3>2, SumsAgree
    <3> QED BY <3>1, <3>3
  <2> QED BY <1>1, <2>1
<1>7. g[m] <= g[n]
  <2>1. m \in 0 .. n
    BY <1>1, <1>2
  <2> QED BY <1>1, <1>4, <2>1, SumGrows
<1> QED BY <1>1, <1>3, <1>4, <1>6, <1>7

(* What a body is let through for stays in it. *)
LEMMA MarksStay ==
  ASSUME NEW c \in Seq(Messages), NEW d \in Seq(Messages), Grown(c, d)
  PROVE  /\ HasCandidate(c) => HasCandidate(d)
         /\ Format(c) = "responses" <=> Format(d) = "responses"
         /\ Format(c) = "anthropic" => Format(d) = "anthropic"
         /\ Format(c) \in {"chat", "anthropic", "responses"}
         /\ Format(d) \in {"chat", "anthropic", "responses"}
<1>1. ASSUME NEW kind, Has(c, kind)  PROVE Has(d, kind)
  BY <1>1 DEF Has, Grown
<1>2. HasCandidate(c) => HasCandidate(d)
  <2>1. ASSUME NEW i \in DOMAIN c, NEW k \in DOMAIN c[i].texts, c[i].texts[k] \in Signals
        PROVE  \E j \in DOMAIN d : \E l \in DOMAIN d[j].texts : d[j].texts[l] \in Signals
    BY <2>1 DEF Grown
  <2> QED BY <1>1, <2>1 DEF HasCandidate
<1>3. ASSUME NEW e  PROVE /\ Format(e) \in {"chat", "anthropic", "responses"}
                          /\ Format(e) = "responses" <=> IsResponses
                          /\ Format(e) = "anthropic" <=>
                               ~ IsResponses /\ (HasSystem \/ Has(e, "results"))
  BY DEF Format
<1> QED BY <1>1, <1>2, <1>3

(* Gates and format detection only ever move a growing conversation forward: *)
(* no path is taken again once left (engine.go:137-168, format.go).          *)
THEOREM PathsOnlyAdvance == Spec => PathsAdvance
<1>1. ASSUME NEW c \in Seq(Messages), NEW d \in Seq(Messages), Grown(c, d)
      PROVE  Rank(Path(c)) <= Rank(Path(d))
  <2>1. Bytes(c) \in Nat /\ Bytes(d) \in Nat /\ Bytes(c) <= Bytes(d)
    BY <1>1, BytesGrow
  <2>2. MaxBody \in Nat /\ MinBytes \in Nat
    BY TransformAssumption
  <2>3. /\ HasCandidate(c) => HasCandidate(d)
        /\ Format(c) = "responses" <=> Format(d) = "responses"
        /\ Format(c) = "anthropic" => Format(d) = "anthropic"
        /\ Format(c) \in {"chat", "anthropic", "responses"}
        /\ Format(d) \in {"chat", "anthropic", "responses"}
    BY <1>1, MarksStay
  <2>4. /\ Rank("bailed") = 0 /\ Rank("chat") = 1 /\ Rank("anthropic") = 2
        /\ Rank("responses") = 2 /\ Rank("skipped") = 3
    BY DEF Rank
  <2>5. CASE MaxBody > 0 /\ Bytes(c) > MaxBody
    <3>1. Path(c) = "skipped" /\ Path(d) = "skipped"
      BY <2>1, <2>2, <2>5 DEF Path
    <3> QED BY <2>4, <3>1
  <2>6. CASE ~(MaxBody > 0 /\ Bytes(c) > MaxBody)
             /\ (Bytes(c) < MinBytes \/ ~HasCandidate(c))
    <3>1. Path(c) = "bailed"
      BY <2>6 DEF Path
    <3>2. Path(d) \in {"skipped", "bailed", "chat", "anthropic", "responses"}
      BY <2>3 DEF Path
    <3> QED BY <2>4, <3>1, <3>2
  <2>7. CASE ~(MaxBody > 0 /\ Bytes(c) > MaxBody)
             /\ ~(Bytes(c) < MinBytes) /\ HasCandidate(c)
    <3>1. Path(c) = Format(c)
      BY <2>7 DEF Path
    <3>2. Path(d) = "skipped" \/ Path(d) = Format(d)
      BY <2>1, <2>2, <2>3, <2>7 DEF Path
    <3> QED BY <2>3, <2>4, <3>1, <3>2
  <2> QED BY <2>5, <2>6, <2>7
<1>2. ASSUME IInv, [Next]_vars  PROVE [Rank(Path(conv)) <= Rank(Path(conv'))]_vars
  <2>1. CASE Turn
    <3>1. PICK delta \in Deltas : conv' = conv \o delta
      BY <2>1 DEF Turn
    <3>2. delta \in Seq(Messages) /\ conv \in Seq(Messages)
      BY <1>2, TurnsAssumption DEF IInv
    <3>3. conv' \in Seq(Messages) /\ Grown(conv, conv')
      BY <3>1, <3>2, AppendingGrows
    <3> QED BY <1>1, <3>2, <3>3
  <2>2. CASE UNCHANGED vars
    BY <2>2
  <2> QED BY <1>2, <2>1, <2>2 DEF Next, Over
<1>3. IInv /\ [Next]_vars => [Rank(Path(conv)) <= Rank(Path(conv'))]_vars
  BY <1>2
<1> QED BY <1>3, Invariance, PTL DEF Spec, PathsAdvance
-----------------------------------------------------------------------------
(* Dedup's two loops.  First, what the scanners hand over: every tool output *)
(* of the messages so far, each once and in the order of its message.        *)
Records == [turn : Nat, at : Nat, content : Texts]

ListsBlocks(u, path, c, i) ==
  /\ u \in Seq(Records)
  /\ \A n \in 1 .. Len(u) :
       /\ u[n].turn <= i
       /\ IsBlock(path, c, <<u[n].turn, u[n].at>>)
       /\ u[n].content = c[u[n].turn].texts[u[n].at]
  /\ \A j \in 1 .. i : \A k : IsBlock(path, c, <<j, k>>) =>
       \E n \in 1 .. Len(u) : u[n].turn = j /\ u[n].at = k
  /\ \A m, n \in 1 .. Len(u) : m < n => u[m].turn <= u[n].turn

HandsOver(v, path, c, i) ==
  /\ v \in Seq(Records)
  /\ \A k \in 1 .. Len(v) :
       /\ v[k] = [turn |-> i, at |-> k, content |-> c[i].texts[k]]
       /\ IsBlock(path, c, <<i, k>>)
  /\ \A k : IsBlock(path, c, <<i, k>>) => k \in 1 .. Len(v)

LEMMA BlocksOfMessage ==
  ASSUME NEW path, NEW c \in Seq(Messages), NEW i \in DOMAIN c
  PROVE  HandsOver(BlocksOf(path, c, i), path, c, i)
<1>0. PICK v : v = BlocksOf(path, c, i)
  OBVIOUS
<1>1. c[i] \in Messages /\ i \in Nat /\ i \in DOMAIN c
  OBVIOUS
<1>2. PICK texts : texts = c[i].texts
  OBVIOUS
<1>3. texts \in Seq(Texts)
  BY <1>1, <1>2 DEF Messages
<1>4. \A k : IsBlock(path, c, <<i, k>>) <=>
        k \in DOMAIN texts /\ Scanned(path, c[i]) /\ c[i].kind # "user"
  BY <1>1, <1>2, BlocksAre
<1>5. CASE Scanned(path, c[i]) /\ c[i].kind # "user"
  <2>1. v = [k \in 1 .. Len(texts) |-> [turn |-> i, at |-> k, content |-> texts[k]]]
    BY <1>0, <1>2, <1>3, <1>5 DEF BlocksOf
  <2>2. \A k \in 1 .. Len(texts) :
          [turn |-> i, at |-> k, content |-> texts[k]] \in Records
    BY <1>1, <1>3 DEF Records
  <2>3. v \in Seq(Records) /\ Len(v) = Len(texts)
    BY <1>3, <2>1, <2>2
  <2>4. DOMAIN texts = 1 .. Len(v)
    BY <1>3, <2>3
  <2> QED BY <1>0, <1>2, <1>4, <1>5, <2>1, <2>3, <2>4 DEF HandsOver
<1>6. CASE ~(Scanned(path, c[i]) /\ c[i].kind # "user")
  <2>1. v = <<>>
    BY <1>0, <1>6 DEF BlocksOf
  <2> QED BY <1>0, <1>4, <1>6, <2>1 DEF HandsOver
<1> QED BY <1>5, <1>6

LEMMA BlocksGrow ==
  ASSUME NEW path, NEW c \in Seq(Messages), NEW i \in 1 .. Len(c), NEW u,
         ListsBlocks(u, path, c, i - 1)
  PROVE  ListsBlocks(u \o BlocksOf(path, c, i), path, c, i)
<1>1. PICK v : v = BlocksOf(path, c, i)
  OBVIOUS
<1>2. /\ v \in Seq(Records)
      /\ \A k \in 1 .. Len(v) :
           /\ v[k] = [turn |-> i, at |-> k, content |-> c[i].texts[k]]
           /\ IsBlock(path, c, <<i, k>>)
      /\ \A k : IsBlock(path, c, <<i, k>>) => k \in 1 .. Len(v)
  <2>1. HandsOver(v, path, c, i)
    BY <1>1, BlocksOfMessage
  <2> QED BY <2>1 DEF HandsOver
<1>3. u \in Seq(Records)
  BY DEF ListsBlocks
<1>4. PICK m \in Nat, l \in Nat : m = Len(u) /\ l = Len(v)
  <2>1. Len(u) \in Nat /\ Len(v) \in Nat
    BY <1>2, <1>3
  <2> QED BY <2>1
<1>5. PICK w : w = u \o v
  OBVIOUS
<1>6. /\ w \in Seq(Records) /\ Len(w) = m + l
      /\ \A n \in 1 .. m + l : w[n] = IF n <= m THEN u[n] ELSE v[n - m]
  BY <1>2, <1>3, <1>4, <1>5, ConcatProperties
<1>7. /\ \A n \in 1 .. m + l : n <= m => n \in 1 .. Len(u) /\ w[n] = u[n]
      /\ \A n \in 1 .. m + l : ~(n <= m) =>
           \E k \in 1 .. Len(v) :
             k = n - m /\ w[n] = [turn |-> i, at |-> k, content |-> c[i].texts[k]]
  <2>1. ASSUME NEW n \in 1 .. m + l, n <= m  PROVE n \in 1 .. Len(u) /\ w[n] = u[n]
    BY <1>4, <1>6, <2>1
  <2>2. ASSUME NEW n \in 1 .. m + l, ~(n <= m)
        PROVE  \E k \in 1 .. Len(v) :
                 k = n - m /\ w[n] = [turn |-> i, at |-> k, content |-> c[i].texts[k]]
    <3>1. PICK k \in 1 .. l : k = n - m
      BY <2>2
    <3>2. w[n] = v[k] /\ k \in 1 .. Len(v)
      BY <1>4, <1>6, <2>2, <3>1
    <3> QED BY <1>2, <3>1, <3>2
  <2> QED BY <2>1, <2>2
<1>8. \A n \in 1 .. m + l :
        /\ w[n].turn <= i
        /\ IsBlock(path, c, <<w[n].turn, w[n].at>>)
        /\ w[n].content = c[w[n].turn].texts[w[n].at]
  <2> TAKE n \in 1 .. m + l
  <2>1. CASE n <= m
    <3>1. n \in 1 .. Len(u) /\ w[n] = u[n] /\ u[n] \in Records
      <4>1. n \in 1 .. Len(u) /\ w[n] = u[n]
        BY <1>7, <2>1
      <4> QED BY <1>3, <4>1
    <3>2. /\ u[n].turn <= i - 1 /\ u[n].turn \in Nat
          /\ IsBlock(path, c, <<u[n].turn, u[n].at>>)
          /\ u[n].content = c[u[n].turn].texts[u[n].at]
      BY <3>1 DEF ListsBlocks, Records
    <3>3. u[n].turn <= i
      BY <3>2
    <3> QED BY <3>1, <3>2, <3>3
  <2>2. CASE ~(n <= m)
    <3>2. PICK k \in 1 .. Len(v) :
            w[n] = [turn |-> i, at |-> k, content |-> c[i].texts[k]]
      BY <1>7, <2>2
    <3>3. w[n].turn = i /\ w[n].at = k /\ w[n].content = c[i].texts[k]
      BY <3>2
    <3> QED BY <1>2, <3>2, <3>3
  <2> QED BY <2>1, <2>2
<1>9. ASSUME NEW j \in 1 .. i, NEW k, IsBlock(path, c, <<j, k>>)
      PROVE  \E n \in 1 .. m + l : w[n].turn = j /\ w[n].at = k
  <2>1. CASE j = i
    <3>1. k \in 1 .. l
      BY <1>2, <1>4, <1>9, <2>1
    <3>2. m + k \in 1 .. m + l /\ ~(m + k <= m) /\ (m + k) - m = k
      BY <3>1
    <3>3. w[m + k] = [turn |-> i, at |-> k, content |-> c[i].texts[k]]
      <4>1. w[m + k] = v[k]
        BY <1>6, <3>2
      <4> QED BY <1>2, <1>4, <3>1, <4>1
    <3> QED BY <2>1, <3>2, <3>3
  <2>2. CASE j # i
    <3>1. j \in 1 .. i - 1
      BY <2>2
    <3>2. PICK n \in 1 .. Len(u) : u[n].turn = j /\ u[n].at = k
      BY <1>9, <3>1 DEF ListsBlocks
    <3>3. n \in 1 .. m + l /\ n <= m
      BY <1>4, <3>2
    <3> QED BY <1>7, <3>2, <3>3
  <2> QED BY <2>1, <2>2
<1>10. ASSUME NEW n \in 1 .. m + l, NEW o \in 1 .. m + l, n < o
       PROVE  w[n].turn <= w[o].turn
  <2>1. CASE o <= m
    <3>1. n \in 1 .. Len(u) /\ o \in 1 .. Len(u) /\ w[n] = u[n] /\ w[o] = u[o]
      <4>1. n <= m
        BY <1>10, <2>1
      <4> QED BY <1>7, <2>1, <4>1
    <3> QED BY <1>10, <3>1 DEF ListsBlocks
  <2>2. CASE ~(o <= m)
    <3>1. w[o].turn = i
      <4>1. PICK k : w[o] = [turn |-> i, at |-> k, content |-> c[i].texts[k]]
        BY <1>7, <2>2
      <4> QED BY <4>1
    <3> QED BY <1>8, <3>1
  <2> QED BY <2>1, <2>2
<1>11. ListsBlocks(w, path, c, i)
  <2>1. Len(w) = m + l
    BY <1>6
  <2> QED BY <1>6, <1>8, <1>9, <1>10, <2>1 DEF ListsBlocks
<1> QED BY <1>1, <1>5, <1>11

LEMMA BlocksAreListed ==
  ASSUME NEW path, NEW c \in Seq(Messages)
  PROVE  ListsBlocks(Blocks(path, c), path, c, Len(c))
<1> DEFINE last == Len(c)
           Listing(f) == [i \in 0 .. last |->
                            IF i = 0 THEN <<>> ELSE f[i - 1] \o BlocksOf(path, c, i)]
<1>1. PICK upTo : upTo = CHOOSE f : f = Listing(f)
  OBVIOUS
<1>2. Blocks(path, c) = upTo[last]
  BY <1>1 DEF Blocks
<1>3. last \in Nat /\ \A i \in 1 .. last : BlocksOf(path, c, i) \in Seq(Records)
  <2>1. last \in Nat /\ \A i \in 1 .. last : i \in DOMAIN c
    OBVIOUS
  <2> QED BY <2>1, BlocksOfMessage DEF HandsOver
<1>4. PICK len \in Nat : len = last
  BY <1>3
<1> HIDE DEF last
<1>5. upTo = Listing(upTo)
  <2>1. PICK S : S = Seq(Records)
    OBVIOUS
  <2>2. PICK step : step = [i \in 1 .. len |-> [u \in S |-> u \o BlocksOf(path, c, i)]]
    OBVIOUS
  <2>3. step \in [1 .. len -> [S -> S]]
    <3>1. \A i \in 1 .. len, u \in S : u \o BlocksOf(path, c, i) \in S
      BY <1>3, <1>4, <2>1
    <3> QED BY <2>2, <3>1
  <2>4. \E g \in [0 .. len -> S] : IsRecursion(g, <<>>, len, step)
    <3>1. <<>> \in S
      BY <2>1
    <3> QED BY <2>3, <3>1, RecursionExists
  <2>5. PICK g \in [0 .. len -> S] : IsRecursion(g, <<>>, len, step)
    BY <2>4
  <2>6. ASSUME NEW i \in 0 .. len
        PROVE  g[i] = IF i = 0 THEN <<>> ELSE g[i - 1] \o BlocksOf(path, c, i)
    <3>1. CASE i = 0
      BY <2>5, <3>1 DEF IsRecursion
    <3>2. CASE i # 0
      <4>1. i \in 1 .. len /\ g[i - 1] \in S
        BY <3>2
      <4>2. g[i] = step[i][g[i - 1]]
        BY <2>5, <4>1 DEF IsRecursion
      <4>3. step[i][g[i - 1]] = g[i - 1] \o BlocksOf(path, c, i)
        BY <2>2, <4>1
      <4> QED BY <3>2, <4>2, <4>3
    <3> QED BY <3>1, <3>2
  <2>7. g = Listing(g)
    BY <1>4, <2>6
  <2> HIDE DEF Listing
  <2> QED BY <1>1, <2>7
<1>6. /\ upTo[0] = <<>>
      /\ \A i \in 1 .. len : upTo[i] = upTo[i - 1] \o BlocksOf(path, c, i)
  <2>1. PICK h : h = Listing(upTo)
    OBVIOUS
  <2>2. h[0] = <<>> /\ \A i \in 1 .. len : h[i] = upTo[i - 1] \o BlocksOf(path, c, i)
    BY <1>4, <2>1
  <2> QED BY <1>5, <2>1, <2>2
<1> DEFINE P == {i \in 0 .. len : ListsBlocks(upTo[i], path, c, i)}
<1>7. 0 \in P
  <2>1. PICK none : none = upTo[0]
    OBVIOUS
  <2>2. none \in Seq(Records) /\ Len(none) = 0
    BY <1>6, <2>1
  <2>3. ListsBlocks(none, path, c, 0)
    BY <2>2 DEF ListsBlocks
  <2> QED BY <2>1, <2>3
<1>8. ASSUME NEW i \in 1 .. len, i - 1 \in P  PROVE i \in P
  <2>1. ListsBlocks(upTo[i - 1], path, c, i - 1) /\ i \in 1 .. Len(c)
    BY <1>4, <1>8 DEF last
  <2>2. ListsBlocks(upTo[i - 1] \o BlocksOf(path, c, i), path, c, i)
    BY <2>1, BlocksGrow
  <2>3. ListsBlocks(upTo[i], path, c, i)
    BY <1>6, <2>2
  <2> QED BY <2>3
<1>9. \A i \in 0 .. len : i \in P
  <2> HIDE DEF P
  <2> QED BY <1>7, <1>8, IntervalInduction
<1> QED BY <1>2, <1>4, <1>9 DEF last
-----------------------------------------------------------------------------
(* The first loop: of the blocks it has seen, it knows the least turn of     *)
(* every hash.                                                               *)
Noted(f, blocks, n) ==
  /\ \A m \in 1 .. n : Large(blocks[m]) =>
       /\ Hash[blocks[m].content] \in DOMAIN f
       /\ f[Hash[blocks[m].content]] <= blocks[m].turn
  /\ \A h \in DOMAIN f : \E m \in 1 .. n :
       /\ Large(blocks[m])
       /\ Hash[blocks[m].content] = h
       /\ f[h] = blocks[m].turn

LEMMA NoteNotes ==
  ASSUME NEW blocks \in Seq(Records), NEW n \in 1 .. Len(blocks), NEW f,
         \A k, m \in 1 .. Len(blocks) : k < m => blocks[k].turn <= blocks[m].turn,
         Noted(f, blocks, n - 1)
  PROVE  Noted(Note(f, blocks[n]), blocks, n)
<1>1. PICK b : b = blocks[n]
  OBVIOUS
<1>2. PICK g : g = Note(f, b)
  OBVIOUS
<1>3. b \in Records /\ b.turn \in Nat
  <2>1. b \in Records
    BY <1>1
  <2> QED BY <2>1 DEF Records
<1>4. \A m \in 1 .. n : m \in 1 .. n - 1 \/ m = n
  OBVIOUS
<1>5. 1 .. n - 1 \subseteq 1 .. n /\ n \in 1 .. n
  OBVIOUS
<1>6. CASE Large(b) /\ Hash[b.content] \notin DOMAIN f
  <2>1. PICK h : h = Hash[b.content]
    OBVIOUS
  <2>2. /\ DOMAIN g = DOMAIN f \cup {h}
        /\ g[h] = b.turn
        /\ \A x \in DOMAIN f : g[x] = f[x]
    BY <1>2, <1>6, <2>1 DEF Note
  <2>3. \A m \in 1 .. n : Large(blocks[m]) =>
          /\ Hash[blocks[m].content] \in DOMAIN g
          /\ g[Hash[blocks[m].content]] <= blocks[m].turn
    <3> TAKE m \in 1 .. n
    <3>1. CASE m \in 1 .. n - 1
      BY <2>2, <3>1 DEF Noted
    <3>2. CASE m = n
      BY <1>1, <1>3, <2>1, <2>2, <3>2
    <3> QED BY <1>4, <3>1, <3>2
  <2>4. \A x \in DOMAIN g : \E m \in 1 .. n :
          /\ Large(blocks[m])
          /\ Hash[blocks[m].content] = x
          /\ g[x] = blocks[m].turn
    <3> TAKE x \in DOMAIN g
    <3>1. CASE x = h
      BY <1>1, <1>5, <1>6, <2>1, <2>2, <3>1
    <3>2. CASE x \in DOMAIN f
      BY <1>5, <2>2, <3>2 DEF Noted
    <3> QED BY <2>2, <3>1, <3>2
  <2> QED BY <1>1, <1>2, <2>3, <2>4 DEF Noted
<1>7. CASE ~(Large(b) /\ Hash[b.content] \notin DOMAIN f)
  <2>1. g = f
    BY <1>2, <1>7 DEF Note
  <2>2. \A m \in 1 .. n : Large(blocks[m]) =>
          /\ Hash[blocks[m].content] \in DOMAIN f
          /\ f[Hash[blocks[m].content]] <= blocks[m].turn
    <3> TAKE m \in 1 .. n
    <3>1. CASE m \in 1 .. n - 1
      BY <3>1 DEF Noted
    <3>2. CASE m = n /\ Large(b)
      <4>1. PICK h : h = Hash[b.content]
        OBVIOUS
      <4>2. h \in DOMAIN f
        BY <1>7, <3>2, <4>1
      <4>3. PICK k \in 1 .. n - 1 : f[h] = blocks[k].turn
        BY <4>2 DEF Noted
      <4>4. k \in 1 .. Len(blocks) /\ k < n
        BY <4>3
      <4>5. blocks[k].turn <= blocks[n].turn
        BY <4>4
      <4> QED BY <1>1, <3>2, <4>1, <4>2, <4>3, <4>5
    <3>3. CASE m = n /\ ~Large(b)
      BY <1>1, <3>3
    <3> QED BY <1>4, <3>1, <3>2, <3>3
  <2> QED BY <1>1, <1>2, <1>5, <2>1, <2>2 DEF Noted
<1> QED BY <1>6, <1>7

LEMMA FirstTurnsAreNoted ==
  ASSUME NEW blocks \in Seq(Records),
         \A k, m \in 1 .. Len(blocks) : k < m => blocks[k].turn <= blocks[m].turn
  PROVE  Noted(FirstTurns(blocks), blocks, Len(blocks))
<1> DEFINE last == Len(blocks)
           Noting(f) == [n \in 0 .. last |->
                           IF n = 0 THEN [h \in {} |-> 0] ELSE Note(f[n - 1], blocks[n])]
<1>1. PICK noted : noted = CHOOSE f : f = Noting(f)
  OBVIOUS
<1>2. FirstTurns(blocks) = noted[last]
  BY <1>1 DEF FirstTurns
<1>3. last \in Nat /\ \A n \in 1 .. last : blocks[n] \in Records
  OBVIOUS
<1>4. PICK len \in Nat : len = last
  BY <1>3
<1> HIDE DEF last
<1>5. noted = Noting(noted)
  <2>1. PICK S : S = UNION {[D -> Nat] : D \in SUBSET {Hash[t] : t \in Texts}}
    OBVIOUS
  <2>2. PICK step : step = [n \in 1 .. len |-> [f \in S |-> Note(f, blocks[n])]]
    OBVIOUS
  <2>3. step \in [1 .. len -> [S -> S]]
    <3>1. ASSUME NEW f \in S, NEW b \in Records  PROVE Note(f, b) \in S
      <4>1. PICK D \in SUBSET {Hash[t] : t \in Texts} : f \in [D -> Nat]
        BY <2>1
      <4>2. PICK h : h = Hash[b.content]
        OBVIOUS
      <4>3. b.turn \in Nat /\ D \cup {h} \in SUBSET {Hash[t] : t \in Texts}
        BY <4>1, <4>2 DEF Records
      <4>4. CASE Note(f, b) = f
        BY <4>4
      <4>5. CASE Note(f, b) = [x \in DOMAIN f \cup {h} |-> IF x = h THEN b.turn ELSE f[x]]
        <5>1. Note(f, b) \in [D \cup {h} -> Nat]
          BY <4>1, <4>3, <4>5
        <5> QED BY <2>1, <4>3, <5>1
      <4> QED BY <4>2, <4>4, <4>5 DEF Note
    <3>2. \A n \in 1 .. len, f \in S : Note(f, blocks[n]) \in S
      BY <1>3, <1>4, <3>1
    <3> QED BY <2>2, <3>2
  <2>4. PICK none : none = [h \in {} |-> 0]
    OBVIOUS
  <2>5. \E g \in [0 .. len -> S] : IsRecursion(g, none, len, step)
    <3>1. none \in S
      <4>1. none \in [{} -> Nat] /\ {} \in SUBSET {Hash[t] : t \in Texts}
        BY <2>4
      <4> QED BY <2>1, <4>1
    <3> QED BY <2>3, <3>1, RecursionExists
  <2>6. PICK g \in [0 .. len -> S] : IsRecursion(g, none, len, step)
    BY <2>5
  <2>7. ASSUME NEW n \in 0 .. len
        PROVE  g[n] = IF n = 0 THEN none ELSE Note(g[n - 1], blocks[n])
    <3>1. CASE n = 0
      BY <2>6, <3>1 DEF IsRecursion
    <3>2. CASE n # 0
      <4>1. n \in 1 .. len /\ g[n - 1] \in S
        BY <3>2
      <4>2. g[n] = step[n][g[n - 1]]
        BY <2>6, <4>1 DEF IsRecursion
      <4>3. step[n][g[n - 1]] = Note(g[n - 1], blocks[n])
        BY <2>2, <4>1
      <4> QED BY <3>2, <4>2, <4>3
    <3> QED BY <3>1, <3>2
  <2>8. g = Noting(g)
    BY <1>4, <2>4, <2>7
  <2> HIDE DEF Noting
  <2> QED BY <1>1, <2>8
<1>6. /\ noted[0] = [h \in {} |-> 0]
      /\ \A n \in 1 .. len : noted[n] = Note(noted[n - 1], blocks[n])
  <2>1. PICK h : h = Noting(noted)
    OBVIOUS
  <2>2. /\ h[0] = [x \in {} |-> 0]
        /\ \A n \in 1 .. len : h[n] = Note(noted[n - 1], blocks[n])
    BY <1>4, <2>1
  <2> QED BY <1>5, <2>1, <2>2
<1> DEFINE P == {n \in 0 .. len : Noted(noted[n], blocks, n)}
<1>7. 0 \in P
  <2>1. PICK none : none = noted[0]
    OBVIOUS
  <2>2. DOMAIN none = {}
    BY <1>6, <2>1
  <2>3. Noted(none, blocks, 0)
    BY <2>2 DEF Noted
  <2> QED BY <2>1, <2>3
<1>8. ASSUME NEW n \in 1 .. len, n - 1 \in P  PROVE n \in P
  <2>1. Noted(noted[n - 1], blocks, n - 1) /\ n \in 1 .. Len(blocks)
    BY <1>4, <1>8 DEF last
  <2>2. Noted(Note(noted[n - 1], blocks[n]), blocks, n)
    BY <2>1, NoteNotes
  <2>3. Noted(noted[n], blocks, n)
    BY <1>6, <2>2
  <2> QED BY <2>3
<1>9. \A n \in 0 .. len : n \in P
  <2> HIDE DEF P
  <2> QED BY <1>7, <1>8, IntervalInduction
<1> QED BY <1>2, <1>4, <1>9 DEF last

(* Without collisions, the turn noted for a large block's hash is the first  *)
(* turn that holds its text.                                                 *)
LEMMA NotedIsFirstTurn ==
  ASSUME NEW path, NEW c \in Seq(Messages),
         NEW blocks, ListsBlocks(blocks, path, c, Len(c)),
         NEW f, Noted(f, blocks, Len(blocks)),
         \A s, t \in Texts : Hash[s] = Hash[t] => s = t,
         NEW n \in 1 .. Len(blocks), Large(blocks[n])
  PROVE  /\ f[Hash[blocks[n].content]] = FirstTurn(TurnsOf(path, c, blocks[n].content))
         /\ f[Hash[blocks[n].content]] \in Nat
         /\ \E m \in 1 .. Len(blocks) :
              /\ blocks[m].turn = f[Hash[blocks[n].content]]
              /\ blocks[m].content = blocks[n].content
<1>1. PICK t, h, turns : t = blocks[n].content /\ h = Hash[t] /\ turns = TurnsOf(path, c, t)
  OBVIOUS
<1>2. /\ \A m \in 1 .. Len(blocks) : blocks[m] \in Records
      /\ \A m \in 1 .. Len(blocks) : /\ blocks[m].turn \in Nat
                                     /\ blocks[m].content \in Texts
  <2>1. \A m \in 1 .. Len(blocks) : blocks[m] \in Records
    BY DEF ListsBlocks
  <2> QED BY <2>1 DEF Records
<1>3. h \in DOMAIN f
  BY <1>1 DEF Noted
<1>4. PICK m \in 1 .. Len(blocks) :
        Large(blocks[m]) /\ Hash[blocks[m].content] = h /\ f[h] = blocks[m].turn
  BY <1>3 DEF Noted
<1>5. blocks[m].content = t
  BY <1>1, <1>2, <1>4
<1>6. turns \subseteq DOMAIN c /\ DOMAIN c = 1 .. Len(c)
  BY <1>1 DEF TurnsOf
<1>7. f[h] \in turns
  <2>1. PICK i, k : i = blocks[m].turn /\ k = blocks[m].at
    OBVIOUS
  <2>2. IsBlock(path, c, <<i, k>>) /\ c[i].texts[k] = t
    BY <1>5, <2>1 DEF ListsBlocks
  <2>3. i \in DOMAIN c /\ k \in DOMAIN c[i].texts
    BY <2>2, BlocksAre
  <2> QED BY <1>1, <1>4, <2>1, <2>2, <2>3 DEF TurnsOf
<1>8. ASSUME NEW j \in turns  PROVE f[h] <= j
  <2>1. PICK k : IsBlock(path, c, <<j, k>>) /\ c[j].texts[k] = t
    BY <1>1 DEF TurnsOf
  <2>2. j \in 1 .. Len(c)
    BY <1>6
  <2>3. PICK o \in 1 .. Len(blocks) : blocks[o].turn = j /\ blocks[o].at = k
    BY <2>1, <2>2 DEF ListsBlocks
  <2>4. blocks[o].content = t
    BY <2>1, <2>3 DEF ListsBlocks
  <2>5. Large(blocks[o])
    BY <1>1, <2>4 DEF Large
  <2> QED BY <1>1, <2>3, <2>4, <2>5 DEF Noted
<1>9. f[h] = FirstTurn(turns)
  <2>1. PICK first, noted : first = FirstTurn(turns) /\ noted = f[h]
    OBVIOUS
  <2>2. turns \subseteq Nat
    BY <1>6
  <2>3. first \in turns /\ first <= noted
    BY <1>7, <2>1, <2>2, FirstTurnIsFirst
  <2>4. noted <= first
    BY <1>8, <2>1, <2>3
  <2>5. first \in Nat /\ noted \in Nat
    BY <1>7, <2>1, <2>2, <2>3
  <2> QED BY <2>1, <2>3, <2>4, <2>5
<1> QED BY <1>1, <1>2, <1>4, <1>5, <1>9

ExactAt(n, path, c, blocks, out, target) ==
  /\ out[n] = IF Repeats(path, c, target)
                THEN <<"repeat", DedupMarker(path, c, target)>>
                ELSE <<"copy", TextAt(c, target)>>
  /\ out[n][1] = "repeat" =>
       \E m \in 1 .. n - 1 :
         /\ blocks[m].turn = out[n][2].first
         /\ out[m] = <<"copy", blocks[n].content>>

LEMMA DedupDoesWhatTransformSays ==
  ASSUME NEW path, NEW c \in Seq(Messages),
         \A s, t \in Texts : Hash[s] = Hash[t] => s = t
  PROVE  LET blocks == Blocks(path, c)
         IN  \A n \in DOMAIN blocks :
               ExactAt(n, path, c, blocks, Deduplicated(blocks),
                       <<blocks[n].turn, blocks[n].at>>)
<1>a. PICK blocks : blocks = Blocks(path, c)
  OBVIOUS
<1>b. PICK out : out = Deduplicated(blocks)
  OBVIOUS
<1> SUFFICES ASSUME NEW n \in DOMAIN blocks,
                    NEW target, target = <<blocks[n].turn, blocks[n].at>>
             PROVE  ExactAt(n, path, c, blocks, out, target)
  BY <1>a, <1>b
<1>1. ListsBlocks(blocks, path, c, Len(c)) /\ blocks \in Seq(Records)
  <2>1. ListsBlocks(blocks, path, c, Len(c))
    BY <1>a, BlocksAreListed
  <2> QED BY <2>1 DEF ListsBlocks
<1>2. PICK len \in Nat : len = Len(blocks)
  BY <1>1
<1>3. DOMAIN blocks = 1 .. len /\ n \in 1 .. len
  BY <1>1, <1>2
<1>4. \A m \in 1 .. len : /\ blocks[m].turn \in Nat
                          /\ blocks[m].content \in Texts
  <2>1. \A m \in 1 .. len : blocks[m] \in Records
    BY <1>1, <1>2
  <2> QED BY <2>1 DEF Records
<1>5. \A k, m \in 1 .. len : k < m => blocks[k].turn <= blocks[m].turn
  BY <1>1, <1>2 DEF ListsBlocks
<1>6. PICK f : f = FirstTurns(blocks)
  OBVIOUS
<1>7. Noted(f, blocks, len)
  BY <1>1, <1>2, <1>5, <1>6, FirstTurnsAreNoted
<1>8. PICK t, i : t = blocks[n].content /\ i = blocks[n].turn
  OBVIOUS
<1>9. target[1] = i /\ IsBlock(path, c, target) /\ TextAt(c, target) = t
  <2>1. PICK k : k = blocks[n].at
    OBVIOUS
  <2>2. target[1] = i /\ target[2] = k /\ target = <<i, k>>
    BY <1>8, <2>1
  <2>3. IsBlock(path, c, <<i, k>>) /\ c[i].texts[k] = t
    BY <1>1, <1>2, <1>3, <1>8, <2>1 DEF ListsBlocks
  <2> QED BY <2>2, <2>3 DEF TextAt
<1>10. \A m \in 1 .. len :
         out[m] = IF len >= 2 /\ Later(blocks[m], f)
                    THEN <<"repeat", [first |-> f[Hash[blocks[m].content]],
                                      of |-> blocks[m].content]>>
                    ELSE <<"copy", blocks[m].content>>
  BY <1>b, <1>2, <1>3, <1>6 DEF Deduplicated
<1>11. CASE ~Large(blocks[n])
  <2>1. ~Repeats(path, c, target)
    BY <1>8, <1>9, <1>11 DEF Repeats, Large
  <2>2. out[n] = <<"copy", t>>
    BY <1>3, <1>8, <1>10, <1>11 DEF Later
  <2>3. out[n][1] # "repeat"
    BY <2>2
  <2> QED BY <1>9, <2>1, <2>2, <2>3 DEF ExactAt
<1>12. CASE Large(blocks[n])
  <2>1. PICK first : first = f[Hash[t]]
    OBVIOUS
  <2>2. /\ first = FirstTurn(TurnsOf(path, c, t))
        /\ first \in Nat
        /\ \E m \in 1 .. len : blocks[m].turn = first /\ blocks[m].content = t
    <3>1. /\ ListsBlocks(blocks, path, c, Len(c))
          /\ Noted(f, blocks, Len(blocks))
          /\ n \in 1 .. Len(blocks) /\ Large(blocks[n])
      BY <1>1, <1>2, <1>3, <1>7, <1>12
    <3>2. /\ f[Hash[blocks[n].content]] = FirstTurn(TurnsOf(path, c, blocks[n].content))
          /\ f[Hash[blocks[n].content]] \in Nat
          /\ \E m \in 1 .. Len(blocks) :
               /\ blocks[m].turn = f[Hash[blocks[n].content]]
               /\ blocks[m].content = blocks[n].content
      BY <3>1, NotedIsFirstTurn
    <3> QED BY <1>2, <1>8, <2>1, <3>2
  <2>3. Repeats(path, c, target) <=> i > first
    BY <1>8, <1>9, <1>12, <2>2 DEF Repeats, Large
  <2>4. Later(blocks[n], f) <=> i > first
    BY <1>8, <1>12, <2>1 DEF Later
  <2>5. CASE ~(i > first)
    <3>1. out[n] = <<"copy", t>>
      BY <1>3, <1>8, <1>10, <2>4, <2>5
    <3>2. out[n][1] # "repeat"
      BY <3>1
    <3> QED BY <1>9, <2>3, <2>5, <3>1, <3>2 DEF ExactAt
  <2>6. CASE i > first
    <3>1. PICK m \in 1 .. len : blocks[m].turn = first /\ blocks[m].content = t
      BY <2>2
    <3>2. m < n
      <4>1. m # n
        BY <1>3, <1>4, <1>8, <2>2, <2>6, <3>1
      <4>2. ~(n < m)
        BY <1>3, <1>4, <1>5, <1>8, <2>2, <2>6, <3>1
      <4> QED BY <1>3, <4>1, <4>2
    <3>3. len >= 2 /\ m \in 1 .. n - 1
      BY <1>2, <1>3, <3>1, <3>2
    <3>4. out[n] = <<"repeat", [first |-> first, of |-> t]>>
      BY <1>3, <1>8, <1>10, <2>1, <2>4, <2>6, <3>3
    <3>5. DedupMarker(path, c, target) = [first |-> first, of |-> t]
      BY <1>9, <2>2 DEF DedupMarker
    <3>6. out[m] = <<"copy", t>>
      <4>1. PICK b : b = blocks[m]
        OBVIOUS
      <4>2. b.turn = first /\ f[Hash[b.content]] = first /\ ~(first > first)
        <5>1. b.turn = first /\ b.content = t
          BY <3>1, <4>1
        <5>2. f[Hash[b.content]] = first
          BY <2>1, <5>1
        <5>3. ~(first > first)
          BY <2>2
        <5> QED BY <5>1, <5>2, <5>3
      <4>3. ~Later(b, f)
        BY <4>2 DEF Later
      <4> QED BY <1>10, <3>1, <4>1, <4>3
    <3>7. out[n][2].first = first
      BY <3>4
    <3> QED BY <1>8, <2>3, <2>6, <3>1, <3>3, <3>4, <3>5, <3>6, <3>7
           DEF ExactAt
  <2> QED BY <2>5, <2>6
<1> QED BY <1>11, <1>12

(* The two loops of dedup replace exactly the blocks Transform says by the   *)
(* references it says, and the copy a reference names stays, in every        *)
(* conversation and for every hash that tells its texts apart                *)
(* (dedup.go:56-93).                                                         *)
THEOREM DedupIsExact ==
  ASSUME \A s, t \in Texts : Hash[s] = Hash[t] => s = t
  PROVE  Spec => []DedupLosesNothing
<1>1. IInv => DedupLosesNothing
  <2> SUFFICES ASSUME IInv  PROVE DedupLosesNothing
    OBVIOUS
  <2>1. conv \in Seq(Messages)
    BY DEF IInv
  <2>2. PICK path : path = Path(conv)
    OBVIOUS
  <2>3. PICK blocks : blocks = Blocks(path, conv)
    OBVIOUS
  <2>4. \A n \in DOMAIN blocks :
          ExactAt(n, path, conv, blocks, Deduplicated(blocks),
                  <<blocks[n].turn, blocks[n].at>>)
    BY <2>1, <2>3, DedupDoesWhatTransformSays
  <2> QED BY <2>2, <2>3, <2>4 DEF DedupLosesNothing, ExactAt
<1> QED BY <1>1, Invariance, PTL
=============================================================================
