-------------------------- MODULE Transform_proofs --------------------------
(* Facts about the pure transform that the proofs about the engine and about *)
(* growing conversations rest on.                                            *)
EXTENDS Transform, WellFoundedInduction, TLAPS

LEMMA HasLeast ==
  ASSUME NEW S, S \subseteq Nat, S # {}
  PROVE  \E m \in S : \A n \in S : m <= n
<1> DEFINE less == OpToRel(<, Nat)
<1>1. IsWellFoundedOn(less, Nat)
  BY NatLessThanWellFounded
<1>2. PICK m \in S : \A n \in S : ~(<<n, m>> \in less)
  <2> HIDE DEF less
  <2> QED BY <1>1, WFMin
<1>3. ASSUME NEW n \in S  PROVE m <= n
  <2>1. less = {ss \in Nat \X Nat : ss[1] < ss[2]}
    BY DEF OpToRel
  <2> HIDE DEF less
  <2>2. PICK p : p = <<n, m>>
    OBVIOUS
  <2>3. p \in Nat \X Nat /\ p[1] = n /\ p[2] = m
    BY <2>2
  <2>4. ~(n < m)
    BY <1>2, <2>1, <2>2, <2>3
  <2> QED BY <2>4
<1> QED BY <1>3

(* Induction along an interval, and what it gives: a function defined along  *)
(* one by recursion exists.                                                  *)
LEMMA IntervalInduction ==
  ASSUME NEW len \in Nat, NEW P, 0 \in P, \A n \in 1 .. len : n - 1 \in P => n \in P
  PROVE  \A n \in 0 .. len : n \in P
<1> DEFINE bad == {n \in 0 .. len : n \notin P}
<1> SUFFICES ASSUME bad # {}  PROVE FALSE
  OBVIOUS
<1>1. bad \subseteq Nat
  OBVIOUS
<1>2. PICK m \in bad : \A n \in bad : m <= n
  <2> HIDE DEF bad
  <2> QED BY <1>1, HasLeast
<1>3. m # 0 /\ m - 1 \in 0 .. len /\ m \in 1 .. len
  OBVIOUS
<1>4. m - 1 \in P
  BY <1>2, <1>3
<1> QED BY <1>3, <1>4

IsRecursion(f, base, len, step) ==
  /\ DOMAIN f = 0 .. len
  /\ f[0] = base
  /\ \A n \in 1 .. len : f[n] = step[n][f[n - 1]]

LEMMA RecursionExists ==
  ASSUME NEW S, NEW base \in S, NEW len \in Nat, NEW step \in [1 .. len -> [S -> S]]
  PROVE  \E f \in [0 .. len -> S] : IsRecursion(f, base, len, step)
<1> DEFINE defined(m) == \E f \in [0 .. m -> S] : IsRecursion(f, base, m, step)
           P == {m \in 0 .. len : defined(m)}
<1>1. defined(0)
  <2>1. PICK f : f = [n \in 0 .. 0 |-> base]
    OBVIOUS
  <2>2. f \in [0 .. 0 -> S] /\ IsRecursion(f, base, 0, step)
    BY <2>1 DEF IsRecursion
  <2> QED BY <2>2
<1>2. ASSUME NEW m \in 1 .. len, defined(m - 1)  PROVE defined(m)
  <2>1. PICK g \in [0 .. m - 1 -> S] : IsRecursion(g, base, m - 1, step)
    BY <1>2
  <2>2. PICK f : f = [n \in 0 .. m |-> IF n = m THEN step[m][g[m - 1]] ELSE g[n]]
    OBVIOUS
  <2>3. f \in [0 .. m -> S]
    <3>1. step[m][g[m - 1]] \in S
      OBVIOUS
    <3>2. \A n \in 0 .. m : n # m => g[n] \in S
      OBVIOUS
    <3> QED BY <2>2, <3>1, <3>2
  <2>4. IsRecursion(f, base, m, step)
    <3>1. f[0] = base
      BY <2>1, <2>2 DEF IsRecursion
    <3>2. ASSUME NEW n \in 1 .. m  PROVE f[n] = step[n][f[n - 1]]
      <4>1. f[n - 1] = g[n - 1]
        BY <2>2
      <4>2. CASE n = m
        BY <2>2, <4>1, <4>2
      <4>3. CASE n # m
        <5>1. n \in 1 .. m - 1 /\ f[n] = g[n]
          BY <2>2, <4>3
        <5> QED BY <2>1, <4>1, <5>1 DEF IsRecursion
      <4> QED BY <4>2, <4>3
    <3> QED BY <2>3, <3>1, <3>2 DEF IsRecursion
  <2> QED BY <2>3, <2>4
<1> HIDE DEF defined
<1>3. \A m \in 0 .. len : m \in P
  <2>1. 0 \in P /\ \A n \in 1 .. len : n - 1 \in P => n \in P
    BY <1>1, <1>2
  <2> HIDE DEF P
  <2> QED BY <2>1, IntervalInduction
<1>4. defined(len)
  BY <1>3
<1> QED BY <1>4 DEF defined
-----------------------------------------------------------------------------
(* What the scanners collect has the types the engine relies on. *)
LEMMA TargetsAre ==
  ASSUME NEW path, NEW conv \in Seq(Messages)
  PROVE  \A t : t \in Targets(path, conv) <=>
           /\ t = <<t[1], t[2]>>
           /\ t[1] \in DOMAIN conv /\ t[2] \in DOMAIN conv[t[1]].texts
           /\ Scanned(path, conv[t[1]])
BY DEF Targets

LEMMA TargetsAreTyped ==
  ASSUME NEW path, NEW conv \in Seq(Messages), NEW t \in Targets(path, conv)
  PROVE  /\ t \in Nat \X Nat
         /\ TextAt(conv, t) \in Texts
         /\ conv[t[1]] \in Messages
<1>1. /\ t = <<t[1], t[2]>>
      /\ t[1] \in DOMAIN conv /\ t[2] \in DOMAIN conv[t[1]].texts
  BY TargetsAre
<1>2. conv[t[1]] \in Messages
  BY <1>1
<1>3. conv[t[1]].texts \in Seq(Texts)
  BY <1>2 DEF Messages
<1>4. conv[t[1]].texts[t[2]] \in Texts
  BY <1>1, <1>3
<1> QED BY <1>1, <1>2, <1>3, <1>4 DEF TextAt

LEMMA PiecesAreTyped ==
  ASSUME NEW path, NEW conv \in Seq(Messages), NEW t \in Targets(path, conv)
  PROVE  PiecesOf(path, conv, t) \in Seq(Texts)
<1>1. TextAt(conv, t) \in Texts
  BY TargetsAreTyped
<1> QED BY <1>1, TransformAssumption DEF PiecesOf

LEMMA PositionsAre ==
  ASSUME NEW path, NEW conv
  PROVE  \A pos : pos \in Positions(path, conv) <=>
           \E t \in Targets(path, conv) : \E p \in DOMAIN PiecesOf(path, conv, t) :
             pos = <<t[1], t[2], p>>
BY DEF Positions

LEMMA PositionParts ==
  ASSUME NEW path, NEW conv \in Seq(Messages), NEW pos \in Positions(path, conv)
  PROVE  /\ pos = <<pos[1], pos[2], pos[3]>>
         /\ <<pos[1], pos[2]>> \in Targets(path, conv)
         /\ pos[3] \in 1 .. Len(PiecesOf(path, conv, <<pos[1], pos[2]>>))
         /\ pos[3] \in Nat
         /\ PieceAt(path, conv, pos) \in Texts
<1>0. PICK t \in Targets(path, conv) :
         \E p \in DOMAIN PiecesOf(path, conv, t) : pos = <<t[1], t[2], p>>
  BY PositionsAre
<1>1. PICK p \in DOMAIN PiecesOf(path, conv, t) : pos = <<t[1], t[2], p>>
  BY <1>0
<1>2. t = <<t[1], t[2]>>
  BY TargetsAre
<1>3. PiecesOf(path, conv, t) \in Seq(Texts)
  BY PiecesAreTyped
<1>4. pos = <<pos[1], pos[2], pos[3]>> /\ <<pos[1], pos[2]>> = t /\ pos[3] = p
  BY <1>1, <1>2
<1>5. p \in 1 .. Len(PiecesOf(path, conv, t)) /\ PiecesOf(path, conv, t)[p] \in Texts
  <2> DEFINE seq == PiecesOf(path, conv, t)
  <2>1. seq \in Seq(Texts) /\ p \in DOMAIN seq
    BY <1>1, <1>3
  <2> HIDE DEF seq
  <2>2. p \in 1 .. Len(seq) /\ seq[p] \in Texts
    BY <2>1
  <2> QED BY <2>2 DEF seq
<1>6. PieceAt(path, conv, pos) \in Texts
  BY <1>4, <1>5 DEF PieceAt
<1>7. p \in Nat
  BY <1>3, <1>5
<1> QED BY <1>1, <1>4, <1>5, <1>6, <1>7

LEMMA PositionOf ==
  ASSUME NEW path, NEW conv \in Seq(Messages), NEW t \in Targets(path, conv),
         NEW p \in Nat \ {0}, p <= Len(PiecesOf(path, conv, t))
  PROVE  /\ <<t[1], t[2], p>> \in Positions(path, conv)
         /\ t = <<t[1], t[2]>>
<1>1. t = <<t[1], t[2]>>
  BY TargetsAre
<1>2. PiecesOf(path, conv, t) \in Seq(Texts)
  BY PiecesAreTyped
<1>3. p \in DOMAIN PiecesOf(path, conv, t)
  BY <1>2
<1> QED BY <1>1, <1>3, PositionsAre
-----------------------------------------------------------------------------
(* A text that occurs as a block has a first turn, and a turn that holds it  *)
(* holds it as a block wherever it holds it.                                 *)
LEMMA FirstTurnIsFirst ==
  ASSUME NEW S, S \subseteq Nat, S # {}
  PROVE  FirstTurn(S) \in S /\ \A j \in S : FirstTurn(S) <= j
BY HasLeast DEF FirstTurn

LEMMA BlocksAre ==
  ASSUME NEW path, NEW conv \in Seq(Messages), NEW i, NEW k
  PROVE  IsBlock(path, conv, <<i, k>>) <=>
           /\ i \in DOMAIN conv /\ k \in DOMAIN conv[i].texts
           /\ Scanned(path, conv[i]) /\ conv[i].kind # "user"
<1>1. PICK p : p = <<i, k>>
  OBVIOUS
<1>2. p[1] = i /\ p[2] = k /\ p = <<p[1], p[2]>>
  BY <1>1
<1> QED BY <1>1, <1>2, TargetsAre DEF IsBlock

LEMMA FirstCopyIsBlock ==
  ASSUME NEW path, NEW conv \in Seq(Messages), NEW target, Repeats(path, conv, target),
         NEW first, first = FirstTurn(TurnsOf(path, conv, TextAt(conv, target))),
         NEW k \in DOMAIN conv[first].texts, conv[first].texts[k] = TextAt(conv, target)
  PROVE  /\ <<first, k>> \in Targets(path, conv)
         /\ IsBlock(path, conv, <<first, k>>)
         /\ ~Repeats(path, conv, <<first, k>>)
         /\ TextAt(conv, <<first, k>>) = TextAt(conv, target)
<1>1. PICK t : t = TextAt(conv, target)
  OBVIOUS
<1>2. PICK turns : turns = TurnsOf(path, conv, t)
  OBVIOUS
<1>3. target[1] \in turns
  <2>1. IsBlock(path, conv, target) /\ target \in Targets(path, conv)
    BY DEF Repeats, IsBlock
  <2>2. /\ target = <<target[1], target[2]>>
        /\ target[1] \in DOMAIN conv /\ target[2] \in DOMAIN conv[target[1]].texts
        /\ conv[target[1]].texts[target[2]] = t
    BY <1>1, <2>1, TargetsAre DEF TextAt
  <2> QED BY <1>2, <2>1, <2>2 DEF TurnsOf
<1>4. turns \subseteq Nat /\ first \in turns
  <2>1. turns \subseteq DOMAIN conv /\ DOMAIN conv \subseteq Nat
    BY <1>2 DEF TurnsOf
  <2> QED BY <1>1, <1>2, <1>3, <2>1, FirstTurnIsFirst
<1>5. PICK at : at = <<first, k>>
  OBVIOUS
<1>6. at[1] = first /\ at[2] = k /\ at = <<at[1], at[2]>>
  BY <1>5
<1>7. /\ first \in DOMAIN conv /\ Scanned(path, conv[first]) /\ conv[first].kind # "user"
  <2>1. PICK j \in DOMAIN conv[first].texts : IsBlock(path, conv, <<first, j>>)
    BY <1>2, <1>4 DEF TurnsOf
  <2> QED BY <2>1, BlocksAre
<1>8. at \in Targets(path, conv) /\ IsBlock(path, conv, at)
  BY <1>6, <1>7, TargetsAre DEF IsBlock
<1>9. TextAt(conv, at) = t
  BY <1>1, <1>6 DEF TextAt
<1>10. ~Repeats(path, conv, at)
  <2>1. ~(first > first)
    BY <1>4
  <2> QED BY <1>1, <1>6, <1>9, <2>1 DEF Repeats
<1> QED BY <1>1, <1>5, <1>8, <1>9, <1>10
=============================================================================
