---------------------------- MODULE Passes_proofs ----------------------------
(* What TLAPS proves of the cascade of passes, for every set of texts, every *)
(* router and every line size; of terminal hygiene, its last pass; of        *)
(* compress.Text, its third, for blobs of any length, every pattern of       *)
(* failure lines and all parameters; of DistillDiff, its first, for texts of *)
(* any length and all parameters; of DistillJSON, its second, for documents  *)
(* of any size and depth; and of the search in a user text, which hands the  *)
(* regions it finds to the cascade, for any wrappers.                        *)
EXTENDS Passes, Compress, DiffPass, UserText, JSONTable, FiniteSetTheorems, SequenceTheorems, WellFoundedInduction, TLAPS

(* A non-empty set of naturals has a least element. *)
LEMMA HasLeast ==
  ASSUME NEW S, S \subseteq Nat, S # {}
  PROVE  \E m \in S : \A n \in S : m <= n
<1> DEFINE less == OpToRel(<, Nat)
<1>1. IsWellFoundedOn(less, Nat)
  BY NatLessThanWellFounded
<1>2. PICK m \in S : \A n \in S : ~(<<n, m>> \in less)
  <2> HIDE DEF less
  <2> QED BY <1>1, WFMin
<1>3. ASSUME NEW n \in S  PROVE m <= n
  <2>1. less = {ss \in Nat \X Nat : ss[1] < ss[2]}
    BY DEF OpToRel
  <2> HIDE DEF less
  <2>2. PICK p : p = <<n, m>>
    OBVIOUS
  <2>3. p \in Nat \X Nat /\ p[1] = n /\ p[2] = m
    BY <2>2
  <2>4. ~(n < m)
    BY <1>2, <2>1, <2>2, <2>3
  <2> QED BY <2>4
<1> QED BY <1>3

(* Induction along an interval, and what it gives: a function defined along  *)
(* one by recursion exists.                                                  *)
LEMMA IntervalInduction ==
  ASSUME NEW len \in Nat, NEW P, 0 \in P, \A n \in 1 .. len : n - 1 \in P => n \in P
  PROVE  \A n \in 0 .. len : n \in P
<1> DEFINE bad == {n \in 0 .. len : n \notin P}
<1> SUFFICES ASSUME bad # {}  PROVE FALSE
  OBVIOUS
<1>1. bad \subseteq Nat
  OBVIOUS
<1>2. PICK m \in bad : \A n \in bad : m <= n
  <2> HIDE DEF bad
  <2> QED BY <1>1, HasLeast
<1>3. m # 0 /\ m - 1 \in 0 .. len /\ m \in 1 .. len
  OBVIOUS
<1>4. m - 1 \in P
  BY <1>2, <1>3
<1> QED BY <1>3, <1>4

IsRecursion(f, base, len, step) ==
  /\ DOMAIN f = 0 .. len
  /\ f[0] = base
  /\ \A n \in 1 .. len : f[n] = step[n][f[n - 1]]

LEMMA RecursionExists ==
  ASSUME NEW S, NEW base \in S, NEW len \in Nat, NEW step \in [1 .. len -> [S -> S]]
  PROVE  \E f \in [0 .. len -> S] : IsRecursion(f, base, len, step)
<1> DEFINE defined(m) == \E f \in [0 .. m -> S] : IsRecursion(f, base, m, step)
           P == {m \in 0 .. len : defined(m)}
<1>1. defined(0)
  <2>1. PICK f : f = [n \in 0 .. 0 |-> base]
    OBVIOUS
  <2>2. f \in [0 .. 0 -> S] /\ IsRecursion(f, base, 0, step)
    BY <2>1 DEF IsRecursion
  <2> QED BY <2>2
<1>2. ASSUME NEW m \in 1 .. len, defined(m - 1)  PROVE defined(m)
  <2>1. PICK g \in [0 .. m - 1 -> S] : IsRecursion(g, base, m - 1, step)
    BY <1>2
  <2>2. PICK f : f = [n \in 0 .. m |-> IF n = m THEN step[m][g[m - 1]] ELSE g[n]]
    OBVIOUS
  <2>3. f \in [0 .. m -> S]
    <3>1. step[m][g[m - 1]] \in S
      OBVIOUS
    <3>2. \A n \in 0 .. m : n # m => g[n] \in S
      OBVIOUS
    <3> QED BY <2>2, <3>1, <3>2
  <2>4. IsRecursion(f, base, m, step)
    <3>1. f[0] = base
      BY <2>1, <2>2 DEF IsRecursion
    <3>2. ASSUME NEW n \in 1 .. m  PROVE f[n] = step[n][f[n - 1]]
      <4>1. f[n - 1] = g[n - 1]
        BY <2>2
      <4>2. CASE n = m
        BY <2>2, <4>1, <4>2
      <4>3. CASE n # m
        <5>1. n \in 1 .. m - 1 /\ f[n] = g[n]
          BY <2>2, <4>3
        <5> QED BY <2>1, <4>1, <5>1 DEF IsRecursion
      <4> QED BY <4>2, <4>3
    <3> QED BY <2>3, <3>1, <3>2 DEF IsRecursion
  <2> QED BY <2>3, <2>4
<1> HIDE DEF defined
<1>3. \A m \in 0 .. len : m \in P
  <2>1. 0 \in P /\ \A n \in 1 .. len : n - 1 \in P => n \in P
    BY <1>1, <1>2
  <2> HIDE DEF P
  <2> QED BY <2>1, IntervalInduction
<1>4. defined(len)
  BY <1>3
<1> QED BY <1>4 DEF defined
-----------------------------------------------------------------------------
(* Terminal hygiene: what the loop of FoldRepeatedLines goes through. *)
ItemsOf(L) == ({"line"} \X L) \cup ({"repeated"} \X Nat)
StatesOf(L) == [out : Seq(ItemsOf(L)), currLine : L, repeatCount : Nat]
Nothing == [out |-> <<>>, currLine |-> EmptyLine, repeatCount |-> 0]

LEMMA FoldedIs ==
  ASSUME NEW L, NEW line \in L, NEW count \in Nat
  PROVE  /\ Folded(line, count) \in Seq(ItemsOf(L))
         /\ count <= 3 => /\ Len(Folded(line, count)) = count
                          /\ \A n \in 1 .. count : Folded(line, count)[n] = <<"line", line>>
         /\ count > 3 => Folded(line, count) = <<<<"line", line>>, <<"repeated", count - 1>>>>
<1>1. <<"line", line>> \in ItemsOf(L)
  BY DEF ItemsOf
<1>2. CASE count > 3
  <2>1. count - 1 \in Nat /\ <<"repeated", count - 1>> \in ItemsOf(L)
    BY <1>2 DEF ItemsOf
  <2> QED BY <1>1, <1>2, <2>1 DEF Folded
<1>3. CASE ~(count > 3)
  <2>1. PICK x : x = <<"line", line>>
    OBVIOUS
  <2>2. Folded(line, count) = [n \in 1 .. count |-> x]
    BY <1>3, <2>1 DEF Folded
  <2> QED BY <1>1, <1>3, <2>1, <2>2
<1> QED BY <1>2, <1>3

LEMMA TakenIsTyped ==
  ASSUME NEW L, NEW f \in StatesOf(L), NEW line \in L
  PROVE  Flushed(f) \in Seq(ItemsOf(L)) /\ Taken(f, line) \in StatesOf(L)
<1>1. f.out \in Seq(ItemsOf(L)) /\ f.currLine \in L /\ f.repeatCount \in Nat
  BY DEF StatesOf
<1>2. Folded(f.currLine, f.repeatCount) \in Seq(ItemsOf(L))
  BY <1>1, FoldedIs
<1>3. Flushed(f) \in Seq(ItemsOf(L))
  BY <1>1, <1>2, ConcatProperties DEF Flushed
<1>4. [f EXCEPT !.repeatCount = @ + 1] \in StatesOf(L)
  BY <1>1 DEF StatesOf
<1>5. [out |-> Flushed(f), currLine |-> line, repeatCount |-> 1] \in StatesOf(L)
  BY <1>3 DEF StatesOf
<1> QED BY <1>3, <1>4, <1>5 DEF Taken

(* The states of the loop over t. *)
IsFold(f, L, t) ==
  /\ f[0] = Nothing
  /\ \A i \in 0 .. Len(t) : f[i] \in StatesOf(L)
  /\ \A i \in 1 .. Len(t) : f[i] = Taken(f[i - 1], t[i])
  /\ FoldRepeatedLines(t) = Flushed(f[Len(t)])

LEMMA FoldIs ==
  ASSUME NEW L, EmptyLine \in L, NEW t \in Seq(L)
  PROVE  \E f : IsFold(f, L, t)
<1> DEFINE Folding(f) == [i \in 0 .. Len(t) |-> IF i = 0 THEN Nothing ELSE Taken(f[i - 1], t[i])]
<1>1. PICK upTo : upTo = CHOOSE f : f = Folding(f)
  OBVIOUS
<1>2. FoldRepeatedLines(t) = Flushed(upTo[Len(t)])
  BY <1>1 DEF FoldRepeatedLines, Nothing
<1>3. PICK len \in Nat : len = Len(t)
  OBVIOUS
<1>4. PICK S : S = StatesOf(L)
  OBVIOUS
<1>5. PICK step : step = [i \in 1 .. len |-> [u \in S |-> Taken(u, t[i])]]
  OBVIOUS
<1>6. \E f : f \in [0 .. len -> S] /\ IsRecursion(f, Nothing, len, step)
  <2>1. \A i \in 1 .. len : t[i] \in L
    BY <1>3
  <2>2. \A i \in 1 .. len, u \in S : Taken(u, t[i]) \in S
    BY <1>4, <2>1, TakenIsTyped
  <2>3. Nothing \in S
    BY <1>4 DEF Nothing, StatesOf
  <2>4. step \in [1 .. len -> [S -> S]]
    BY <1>5, <2>2
  <2> QED BY <2>3, <2>4, RecursionExists
<1>7. PICK g : g \in [0 .. len -> S] /\ IsRecursion(g, Nothing, len, step)
  BY <1>6
<1>8. ASSUME NEW i \in 0 .. len
      PROVE  g[i] = IF i = 0 THEN Nothing ELSE Taken(g[i - 1], t[i])
  <2>1. CASE i = 0
    BY <1>7, <2>1 DEF IsRecursion
  <2>2. CASE i # 0
    <3>1. i \in 1 .. len /\ i - 1 \in 0 .. len
      BY <2>2
    <3>2. g[i] = step[i][g[i - 1]] /\ g[i - 1] \in S
      BY <1>7, <3>1 DEF IsRecursion
    <3>3. step[i][g[i - 1]] = Taken(g[i - 1], t[i])
      BY <1>5, <3>1, <3>2
    <3> QED BY <2>2, <3>2, <3>3
  <2> QED BY <2>1, <2>2
<1>9. g = Folding(g)
  BY <1>3, <1>7, <1>8
<1>10. upTo = Folding(upTo)
  <2> HIDE DEF Folding
  <2> QED BY <1>1, <1>9
<1>11. \A i \in 0 .. len : upTo[i] = IF i = 0 THEN Nothing ELSE Taken(upTo[i - 1], t[i])
  <2>1. PICK h : h = Folding(upTo)
    OBVIOUS
  <2>2. \A i \in 0 .. len : h[i] = IF i = 0 THEN Nothing ELSE Taken(upTo[i - 1], t[i])
    BY <1>3, <2>1
  <2> HIDE DEF Folding
  <2> QED BY <1>10, <2>1, <2>2
<1> HIDE DEF Folding
<1>12. \A i \in 1 .. len : upTo[i] = Taken(upTo[i - 1], t[i])
  BY <1>11
<1>13. upTo[0] = Nothing
  BY <1>11
<1> DEFINE P == {i \in 0 .. len : upTo[i] \in StatesOf(L)}
<1>14. 0 \in P
  <2>1. Nothing \in StatesOf(L)
    BY DEF Nothing, StatesOf
  <2> QED BY <1>13, <2>1
<1>15. ASSUME NEW i \in 1 .. len, i - 1 \in P  PROVE i \in P
  <2>1. t[i] \in L /\ upTo[i - 1] \in StatesOf(L)
    BY <1>3, <1>15
  <2>2. upTo[i] \in StatesOf(L)
    BY <1>12, <2>1, TakenIsTyped
  <2> QED BY <2>2
<1>16. \A i \in 0 .. len : i \in P
  <2> HIDE DEF P
  <2> QED BY <1>14, <1>15, IntervalInduction
<1> QED BY <1>2, <1>3, <1>12, <1>13, <1>16 DEF IsFold
-----------------------------------------------------------------------------
(* Expanding: a fold marker repeats the line before it. *)
Copies(line, count) == [n \in 1 .. count |-> line]

Odd == (<<>>)[0]                        \* what a marker without a line before it repeats

LEMMA UnfoldedIs ==
  ASSUME NEW L, NEW u \in Seq(L \cup {Odd}), NEW item \in ItemsOf(L)
  PROVE  Unfolded(u, item) \in Seq(L \cup {Odd})
<1>1. CASE item[1] = "line"
  <2>1. item[2] \in L
    BY <1>1 DEF ItemsOf
  <2> QED BY <1>1, <2>1 DEF Unfolded
<1>2. CASE item[1] # "line"
  <2>1. item[2] \in Nat
    BY <1>2 DEF ItemsOf
  <2>2. PICK x : x = u[Len(u)]
    OBVIOUS
  <2>3. x \in L \cup {Odd}
    <3>1. CASE u = <<>>
      BY <2>2, <3>1 DEF Odd
    <3>2. CASE u # <<>>
      BY <2>2, <3>2
    <3> QED BY <3>1, <3>2
  <2>4. [n \in 1 .. item[2] |-> x] \in Seq(L \cup {Odd})
    BY <2>1, <2>3
  <2>5. Unfolded(u, item) = u \o [n \in 1 .. item[2] |-> x]
    BY <1>2, <2>2 DEF Unfolded
  <2> QED BY <2>4, <2>5, ConcatProperties
<1> QED BY <1>1, <1>2

IsExpansion(f, L, items) ==
  /\ f[0] = <<>>
  /\ \A n \in 0 .. Len(items) : f[n] \in Seq(L \cup {Odd})
  /\ \A n \in 1 .. Len(items) : f[n] = Unfolded(f[n - 1], items[n])
  /\ Expanded(items) = f[Len(items)]

LEMMA ExpansionIs ==
  ASSUME NEW L, NEW items \in Seq(ItemsOf(L))
  PROVE  \E f : IsExpansion(f, L, items)
<1> DEFINE Expanding(f) ==
             [n \in 0 .. Len(items) |-> IF n = 0 THEN <<>> ELSE Unfolded(f[n - 1], items[n])]
<1>1. PICK upTo : upTo = CHOOSE f : f = Expanding(f)
  OBVIOUS
<1>2. Expanded(items) = upTo[Len(items)]
  BY <1>1 DEF Expanded
<1>3. PICK len \in Nat : len = Len(items)
  OBVIOUS
<1>4. PICK S : S = Seq(L \cup {Odd})
  OBVIOUS
<1>5. PICK step : step = [n \in 1 .. len |-> [u \in S |-> Unfolded(u, items[n])]]
  OBVIOUS
<1>6. \E f : f \in [0 .. len -> S] /\ IsRecursion(f, <<>>, len, step)
  <2>1. \A n \in 1 .. len : items[n] \in ItemsOf(L)
    BY <1>3
  <2>2. \A n \in 1 .. len, u \in S : Unfolded(u, items[n]) \in S
    BY <1>4, <2>1, UnfoldedIs
  <2>3. <<>> \in S
    BY <1>4
  <2>4. step \in [1 .. len -> [S -> S]]
    BY <1>5, <2>2
  <2> QED BY <2>3, <2>4, RecursionExists
<1>7. PICK g : g \in [0 .. len -> S] /\ IsRecursion(g, <<>>, len, step)
  BY <1>6
<1>8. ASSUME NEW n \in 0 .. len
      PROVE  g[n] = IF n = 0 THEN <<>> ELSE Unfolded(g[n - 1], items[n])
  <2>1. CASE n = 0
    BY <1>7, <2>1 DEF IsRecursion
  <2>2. CASE n # 0
    <3>1. n \in 1 .. len /\ n - 1 \in 0 .. len
      BY <2>2
    <3>2. g[n] = step[n][g[n - 1]] /\ g[n - 1] \in S
      BY <1>7, <3>1 DEF IsRecursion
    <3>3. step[n][g[n - 1]] = Unfolded(g[n - 1], items[n])
      BY <1>5, <3>1, <3>2
    <3> QED BY <2>2, <3>2, <3>3
  <2> QED BY <2>1, <2>2
<1>9. g = Expanding(g)
  BY <1>3, <1>7, <1>8
<1>10. upTo = Expanding(upTo)
  <2> HIDE DEF Expanding
  <2> QED BY <1>1, <1>9
<1>11. \A n \in 0 .. len : upTo[n] = IF n = 0 THEN <<>> ELSE Unfolded(upTo[n - 1], items[n])
  <2>1. PICK h : h = Expanding(upTo)
    OBVIOUS
  <2>2. \A n \in 0 .. len : h[n] = IF n = 0 THEN <<>> ELSE Unfolded(upTo[n - 1], items[n])
    BY <1>3, <2>1
  <2> HIDE DEF Expanding
  <2> QED BY <1>10, <2>1, <2>2
<1> HIDE DEF Expanding
<1>12. upTo[0] = <<>> /\ \A n \in 1 .. len : upTo[n] = Unfolded(upTo[n - 1], items[n])
  BY <1>11
<1> DEFINE P == {n \in 0 .. len : upTo[n] \in S}
<1>13. 0 \in P
  <2>1. <<>> \in S
    BY <1>4
  <2> QED BY <1>12, <2>1
<1>14. ASSUME NEW n \in 1 .. len, n - 1 \in P  PROVE n \in P
  <2>1. items[n] \in ItemsOf(L) /\ upTo[n - 1] \in Seq(L \cup {Odd})
    BY <1>3, <1>4, <1>14
  <2>2. upTo[n] \in S
    BY <1>4, <1>12, <2>1, UnfoldedIs
  <2> QED BY <2>2
<1>15. \A n \in 0 .. len : n \in P
  <2> HIDE DEF P
  <2> QED BY <1>13, <1>14, IntervalInduction
<1> QED BY <1>2, <1>3, <1>4, <1>12, <1>15 DEF IsExpansion

(* One more item unfolds onto what the items before it expand to. *)
LEMMA ExpandedAppends ==
  ASSUME NEW L, NEW items \in Seq(ItemsOf(L)), NEW x \in ItemsOf(L)
  PROVE  Expanded(Append(items, x)) = Unfolded(Expanded(items), x)
<1>1. PICK more : more = Append(items, x)
  OBVIOUS
<1>2. PICK len \in Nat : len = Len(items)
  OBVIOUS
<1>3. /\ more \in Seq(ItemsOf(L)) /\ Len(more) = len + 1 /\ more[len + 1] = x
      /\ \A n \in 1 .. len : more[n] = items[n]
  BY <1>1, <1>2
<1>4. PICK f : IsExpansion(f, L, items)
  BY ExpansionIs
<1>5. PICK g : IsExpansion(g, L, more)
  BY <1>3, ExpansionIs
<1> DEFINE P == {n \in 0 .. len : g[n] = f[n]}
<1>6. 0 \in P
  BY <1>4, <1>5 DEF IsExpansion
<1>7. ASSUME NEW n \in 1 .. len, n - 1 \in P  PROVE n \in P
  <2>1. n \in 1 .. len + 1 /\ more[n] = items[n] /\ g[n - 1] = f[n - 1]
    BY <1>3, <1>7
  <2>2. f[n] = Unfolded(f[n - 1], items[n]) /\ g[n] = Unfolded(g[n - 1], more[n])
    BY <1>2, <1>3, <1>4, <1>5, <2>1 DEF IsExpansion
  <2>3. g[n] = f[n]
    BY <2>1, <2>2
  <2> QED BY <2>3
<1>8. \A n \in 0 .. len : n \in P
  <2> HIDE DEF P
  <2> QED BY <1>6, <1>7, IntervalInduction
<1>9. g[len] = f[len] /\ len + 1 - 1 = len /\ len + 1 \in 1 .. len + 1
  BY <1>8
<1>10. Expanded(more) = g[len + 1] /\ g[len + 1] = Unfolded(g[len], x)
  BY <1>3, <1>5, <1>9 DEF IsExpansion
<1>11. Expanded(items) = f[len]
  BY <1>2, <1>4 DEF IsExpansion
<1> QED BY <1>1, <1>9, <1>10, <1>11

Prolongs(w, L, e, m, line, k) ==
  /\ w \in Seq(L) /\ Len(w) = m + k
  /\ \A n \in 1 .. m : w[n] = e[n]
  /\ \A n \in m + 1 .. m + k : w[n] = line

LEMMA CopiesAre ==
  ASSUME NEW L, NEW line \in L, NEW e \in Seq(L), NEW k \in Nat
  PROVE  Prolongs(e \o Copies(line, k), L, e, Len(e), line, k)
<1>1. PICK c : c = Copies(line, k)
  OBVIOUS
<1>2. c \in Seq(L) /\ Len(c) = k /\ \A n \in 1 .. k : c[n] = line
  BY <1>1 DEF Copies
<1>3. PICK m \in Nat : m = Len(e)
  OBVIOUS
<1>4. PICK w : w = e \o c
  OBVIOUS
<1>5. /\ w \in Seq(L) /\ Len(w) = m + k
      /\ \A n \in 1 .. m + k : w[n] = IF n <= m THEN e[n] ELSE c[n - m]
  BY <1>2, <1>3, <1>4, ConcatProperties
<1>6. ASSUME NEW n \in m + 1 .. m + k  PROVE w[n] = line
  <2>1. n \in 1 .. m + k /\ ~(n <= m) /\ n - m \in 1 .. k
    OBVIOUS
  <2> QED BY <1>2, <1>5, <2>1
<1>7. \A n \in 1 .. m : w[n] = e[n]
  BY <1>5
<1> QED BY <1>1, <1>3, <1>4, <1>5, <1>6, <1>7 DEF Prolongs

LEMMA OneMoreCopy ==
  ASSUME NEW L, NEW line \in L, NEW e \in Seq(L), NEW k \in Nat
  PROVE  e \o Copies(line, k + 1) = Append(e \o Copies(line, k), line)
<1>1. PICK a : a = e \o Copies(line, k)
  OBVIOUS
<1>2. PICK b : b = e \o Copies(line, k + 1)
  OBVIOUS
<1>3. PICK m \in Nat : m = Len(e)
  OBVIOUS
<1>4. /\ a \in Seq(L) /\ Len(a) = m + k
      /\ \A n \in 1 .. m : a[n] = e[n]
      /\ \A n \in m + 1 .. m + k : a[n] = line
  <2>1. Prolongs(a, L, e, m, line, k)
    BY <1>1, <1>3, CopiesAre
  <2> QED BY <2>1 DEF Prolongs
<1>5. /\ b \in Seq(L) /\ Len(b) = m + (k + 1)
      /\ \A n \in 1 .. m : b[n] = e[n]
      /\ \A n \in m + 1 .. m + (k + 1) : b[n] = line
  <2>1. k + 1 \in Nat
    OBVIOUS
  <2>2. Prolongs(b, L, e, m, line, k + 1)
    BY <1>2, <1>3, <2>1, CopiesAre
  <2> QED BY <2>2 DEF Prolongs
<1>6. PICK c : c = Append(a, line)
  OBVIOUS
<1>7. /\ c \in Seq(L) /\ Len(c) = m + (k + 1)
      /\ \A n \in 1 .. m + k : c[n] = a[n]
      /\ c[m + k + 1] = line
  <2>1. a \in Seq(L) /\ line \in L
    BY <1>4
  <2>2. /\ c \in Seq(L) /\ Len(c) = Len(a) + 1
        /\ \A n \in 1 .. Len(a) : c[n] = a[n]
        /\ c[Len(a) + 1] = line
    <3>1. /\ Append(a, line) \in Seq(L) /\ Len(Append(a, line)) = Len(a) + 1
          /\ \A n \in 1 .. Len(a) : Append(a, line)[n] = a[n]
          /\ Append(a, line)[Len(a) + 1] = line
      BY ONLY <2>1, AppendProperties
    <3> QED BY ONLY <1>6, <3>1
  <2>3. Len(a) = m + k
    BY <1>4
  <2>4. c \in Seq(L) /\ Len(c) = m + (k + 1)
    BY <2>2, <2>3
  <2>5. \A n \in 1 .. m + k : c[n] = a[n]
    BY <2>2, <2>3
  <2>6. c[m + k + 1] = line
    BY <2>2, <2>3
  <2> QED BY <2>4, <2>5, <2>6
<1>8. ASSUME NEW n \in 1 .. m + (k + 1)  PROVE b[n] = c[n]
  <2>1. CASE n \in 1 .. m
    <3>1. n \in 1 .. m + k
      BY <2>1
    <3>2. c[n] = a[n] /\ a[n] = e[n]
      BY <1>4, <1>7, <2>1, <3>1
    <3> QED BY <1>5, <2>1, <3>2
  <2>2. CASE n \in m + 1 .. m + k
    <3>1. b[n] = line /\ a[n] = line /\ c[n] = a[n]
      BY <1>4, <1>5, <1>7, <2>2
    <3> QED BY <3>1
  <2>3. CASE n = m + k + 1
    <3>1. n \in m + 1 .. m + (k + 1)
      BY <2>3
    <3> QED BY <1>5, <1>7, <2>3, <3>1
  <2> QED BY <2>1, <2>2, <2>3
<1>9. b = c
  BY <1>5, <1>7, <1>8, SeqEqual
<1> QED BY <1>1, <1>2, <1>6, <1>9

LEMMA ConcatAppend ==
  ASSUME NEW S, NEW a \in Seq(S), NEW b \in Seq(S), NEW x \in S
  PROVE  a \o Append(b, x) = Append(a \o b, x)
<1>0. PICK one : one = <<x>>
  OBVIOUS
<1>1. one \in Seq(S)
  BY <1>0
<1>2. \A u \in Seq(S) : Append(u, x) = u \o one
  BY <1>0
<1>3. a \o b \in Seq(S)
  OBVIOUS
<1>4. (a \o b) \o one = a \o (b \o one)
  BY <1>1, ConcatAssociative
<1> QED BY <1>2, <1>3, <1>4

LEMMA ConcatTwo ==
  ASSUME NEW S, NEW a \in Seq(S), NEW x \in S, NEW y \in S
  PROVE  a \o <<x, y>> = Append(Append(a, x), y)
<1>1. PICK one : one = <<x>>
  OBVIOUS
<1>2. Append(one, y) = <<x, y>> /\ a \o one = Append(a, x)
  <2>1. Append(one, y) = <<x, y>>
    <3>1. PICK c, d : c = Append(one, y) /\ d = <<x, y>>
      OBVIOUS
    <3>2. one \in Seq(S) /\ Len(one) = 1 /\ one[1] = x
      BY <1>1
    <3>3. c \in Seq(S) /\ Len(c) = 2 /\ c[1] = x /\ c[2] = y
      <4>1. c \in Seq(S) /\ Len(c) = 2
        BY <3>1, <3>2
      <4>2. c[1] = x
        BY <3>1, <3>2, AppendProperties
      <4>3. c[2] = y
        <5>1. c[Len(one) + 1] = y
          BY <3>1, <3>2, AppendProperties
        <5>2. Len(one) + 1 = 2
          BY <3>2
        <5> QED BY <5>1, <5>2
      <4> QED BY <4>1, <4>2, <4>3
    <3>4. d \in Seq(S) /\ Len(d) = 2 /\ d[1] = x /\ d[2] = y
      BY <3>1
    <3>5. \A n \in 1 .. 2 : c[n] = d[n]
      BY <3>3, <3>4
    <3> QED BY ONLY <3>1, <3>3, <3>4, <3>5, SeqEqual
  <2>2. a \o one = Append(a, x)
    BY <1>1
  <2> QED BY <2>1, <2>2
<1>3. one \in Seq(S)
  BY <1>1
<1>4. a \o Append(one, y) = Append(a \o one, y)
  BY ONLY <1>3, a \in Seq(S), y \in S, ConcatAppend, SMTT(30)
<1> QED BY <1>2, <1>4

(* Folded expands to what it folds. *)
LEMMA FoldedUnfolds ==
  ASSUME NEW L, NEW items \in Seq(ItemsOf(L)), Expanded(items) \in Seq(L),
         NEW line \in L, NEW count \in Nat
  PROVE  Expanded(items \o Folded(line, count)) = Expanded(items) \o Copies(line, count)
<1>1. PICK e : e = Expanded(items) /\ e \in Seq(L)
  OBVIOUS
<1>2. PICK x : x = <<"line", line>>
  OBVIOUS
<1>3. x \in ItemsOf(L) /\ \A u : Unfolded(u, x) = Append(u, line)
  BY <1>2 DEF ItemsOf, Unfolded
<1> DEFINE Holds(k) == /\ items \o Folded(line, k) \in Seq(ItemsOf(L))
                       /\ Expanded(items \o Folded(line, k)) = e \o Copies(line, k)
           P == {k \in 0 .. 3 : Holds(k)}
<1>4. 0 \in P
  <2>1. Folded(line, 0) = <<>> /\ Copies(line, 0) = <<>>
    BY DEF Folded, Copies
  <2>2. items \o <<>> = items /\ e \o <<>> = e
    BY <1>1, ConcatEmptySeq
  <2>3. items \o Folded(line, 0) = items /\ e \o Copies(line, 0) = e
    BY <2>1, <2>2
  <2>4. Holds(0)
    BY <1>1, <2>3
  <2> HIDE DEF Holds
  <2> QED BY <2>4
<1>5. ASSUME NEW k \in 1 .. 3, k - 1 \in P  PROVE k \in P
  <2>1. PICK a : a = items \o Folded(line, k - 1)
    OBVIOUS
  <2>2. a \in Seq(ItemsOf(L)) /\ Expanded(a) = e \o Copies(line, k - 1)
    BY <1>5, <2>1
  <2>3. items \o Folded(line, k) = Append(a, x)
    <3>1. PICK j \in 0 .. 2 : j = k - 1
      OBVIOUS
    <3>2. PICK v, w : v = Folded(line, j) /\ w = Folded(line, k)
      OBVIOUS
    <3>3. /\ v \in Seq(ItemsOf(L)) /\ Len(v) = j /\ \A n \in 1 .. j : v[n] = x
          /\ w \in Seq(ItemsOf(L)) /\ Len(w) = k /\ \A n \in 1 .. k : w[n] = x
      <4>1. j \in Nat /\ j <= 3 /\ k \in Nat /\ k <= 3
        BY <3>1
      <4> QED BY <1>2, <3>2, <4>1, FoldedIs
    <3>4. w = Append(v, x)
      <4>1. PICK I : I = ItemsOf(L)
        OBVIOUS
      <4>2. PICK c : c = Append(v, x)
        OBVIOUS
      <4>3. v \in Seq(I) /\ Len(v) = j /\ x \in I /\ k = j + 1
        BY <1>3, <3>1, <3>3, <4>1
      <4>4. c \in Seq(I) /\ Len(c) = k /\ \A n \in 1 .. j : c[n] = v[n]
        BY <4>2, <4>3
      <4>5. c[k] = x
        BY <4>2, <4>3
      <4>6. \A n \in 1 .. k : w[n] = c[n]
        <5>1. \A n \in 1 .. k : n = k \/ n \in 1 .. j
          BY <4>3
        <5> QED BY <3>3, <4>4, <4>5, <5>1
      <4>7. w \in Seq(I) /\ Len(w) = Len(c)
        BY <3>3, <4>1, <4>4
      <4> QED BY ONLY <4>2, <4>4, <4>6, <4>7, SeqEqual
    <3>5. items \o Append(v, x) = Append(items \o v, x)
      <4>1. PICK I : I = ItemsOf(L)
        OBVIOUS
      <4>2. items \in Seq(I) /\ v \in Seq(I) /\ x \in I
        BY <1>3, <3>3, <4>1
      <4> QED BY ONLY <4>2, ConcatAppend
    <3> QED BY <2>1, <3>1, <3>2, <3>4, <3>5
  <2>4. Append(a, x) \in Seq(ItemsOf(L))
    BY <1>3, <2>2
  <2>5. Expanded(Append(a, x)) = Append(e \o Copies(line, k - 1), line)
    BY <1>3, <2>2, ExpandedAppends
  <2>6. e \o Copies(line, k) = Append(e \o Copies(line, k - 1), line)
    <3>1. PICK j \in Nat : j = k - 1 /\ k = j + 1
      OBVIOUS
    <3> QED BY <1>1, <3>1, OneMoreCopy
  <2>7. Expanded(items \o Folded(line, k)) = e \o Copies(line, k)
    BY <2>3, <2>5, <2>6
  <2>8. items \o Folded(line, k) \in Seq(ItemsOf(L))
    BY <2>3, <2>4
  <2>9. Holds(k)
    BY <2>7, <2>8
  <2> HIDE DEF Holds
  <2> QED BY <2>9
<1>6. \A k \in 0 .. 3 : k \in P
  <2> HIDE DEF P
  <2>1. 3 \in Nat
    OBVIOUS
  <2> QED BY <1>4, <1>5, <2>1, IntervalInduction
<1> HIDE DEF P
<1>7. CASE count <= 3
  <2>1. count \in P
    BY <1>6, <1>7
  <2> QED BY <1>1, <2>1 DEF P
<1>8. CASE ~(count <= 3)
  <2>1. PICK a : a = Append(items, x)
    OBVIOUS
  <2>2. PICK j \in Nat : j = count - 1 /\ count = j + 1
    BY <1>8
  <2>3. PICK y : y = <<"repeated", j>>
    OBVIOUS
  <2>4. y \in ItemsOf(L) /\ a \in Seq(ItemsOf(L))
    <3>1. y \in ItemsOf(L)
      BY <2>3 DEF ItemsOf
    <3> QED BY <1>3, <2>1, <3>1
  <2>5. items \o Folded(line, count) = Append(a, y)
    <3>1. Folded(line, count) = <<x, y>>
      <4>1. count > 3 /\ count - 1 = j
        BY <1>8, <2>2
      <4>2. Folded(line, count) = <<<<"line", line>>, <<"repeated", count - 1>>>>
        BY <4>1 DEF Folded
      <4> QED BY <1>2, <2>3, <4>1, <4>2
    <3>2. items \o <<x, y>> = Append(Append(items, x), y)
      <4>1. PICK I : I = ItemsOf(L)
        OBVIOUS
      <4>2. items \in Seq(I) /\ x \in I /\ y \in I
        BY <1>3, <2>4, <4>1
      <4> QED BY ONLY <4>2, ConcatTwo
    <3> QED BY <2>1, <3>1, <3>2
  <2>6. Expanded(a) = Append(e, line)
    BY <1>1, <1>3, <2>1, ExpandedAppends
  <2>7. PICK u : u = Append(e, line)
    OBVIOUS
  <2>8. u \in Seq(L) /\ u[Len(u)] = line
    BY <1>1, <2>7
  <2>9. Unfolded(u, y) = u \o Copies(line, j)
    BY <2>3, <2>8 DEF Unfolded, Copies
  <2>10. u \o Copies(line, j) = e \o Copies(line, count)
    <3>1. PICK m \in Nat : m = Len(e) /\ Len(u) = m + 1
      BY <1>1, <2>7
    <3>2. PICK v, w : v = u \o Copies(line, j) /\ w = e \o Copies(line, count)
      OBVIOUS
    <3>a. Prolongs(v, L, u, m + 1, line, j)
      BY <2>8, <3>1, <3>2, CopiesAre
    <3>b. Prolongs(w, L, e, m, line, count)
      BY <1>1, <3>1, <3>2, CopiesAre
    <3>3. /\ v \in Seq(L) /\ Len(v) = m + 1 + j
          /\ \A n \in 1 .. m + 1 : v[n] = u[n]
          /\ \A n \in m + 1 + 1 .. m + 1 + j : v[n] = line
      BY <3>a DEF Prolongs
    <3>4. /\ w \in Seq(L) /\ Len(w) = m + count
          /\ \A n \in 1 .. m : w[n] = e[n]
          /\ \A n \in m + 1 .. m + count : w[n] = line
      BY <3>b DEF Prolongs
    <3>5. u[m + 1] = line /\ \A n \in 1 .. m : u[n] = e[n]
      BY <1>1, <2>7, <3>1
    <3>6. ASSUME NEW n \in 1 .. m + count  PROVE v[n] = w[n]
      <4>1. CASE n <= m
        BY <3>3, <3>4, <3>5, <4>1
      <4>2. CASE n = m + 1
        BY <2>2, <3>3, <3>4, <3>5, <4>2
      <4>3. CASE n > m + 1
        BY <2>2, <3>3, <3>4, <4>3
      <4> QED BY <4>1, <4>2, <4>3
    <3>7. Len(v) = Len(w)
      <4>1. m + 1 + j = m + count
        BY <2>2
      <4>2. Len(v) = m + 1 + j /\ Len(w) = m + count
        BY <3>3, <3>4
      <4> QED BY <4>1, <4>2
    <3> QED BY <3>2, <3>3, <3>4, <3>6, <3>7, SeqEqual
  <2>11. Expanded(Append(a, y)) = Unfolded(Expanded(a), y)
    BY <2>4, ExpandedAppends
  <2> QED BY <1>1, <2>5, <2>6, <2>7, <2>9, <2>10, <2>11
<1> QED BY <1>7, <1>8

LEMMA OneMoreOf ==
  ASSUME NEW L, NEW t \in Seq(L), NEW i \in 1 .. Len(t)
  PROVE  SubSeq(t, 1, i) = Append(SubSeq(t, 1, i - 1), t[i])
<1>1. PICK len \in Nat : len = Len(t)
  OBVIOUS
<1>2. PICK a, b : a = SubSeq(t, 1, i - 1) /\ b = SubSeq(t, 1, i)
  OBVIOUS
<1>3. a \in Seq(L) /\ Len(a) = i - 1 /\ \A n \in 1 .. i - 1 : a[n] = t[n]
  BY <1>1, <1>2, SubSeqProperties
<1>4. b \in Seq(L) /\ Len(b) = i /\ \A n \in 1 .. i : b[n] = t[n]
  BY <1>1, <1>2, SubSeqProperties
<1>5. PICK c : c = Append(a, t[i])
  OBVIOUS
<1>6. c \in Seq(L) /\ Len(c) = i /\ \A n \in 1 .. i - 1 : c[n] = a[n]
  BY <1>1, <1>3, <1>5
<1>7. c[i] = t[i]
  BY <1>1, <1>3, <1>5
<1>8. ASSUME NEW n \in 1 .. i  PROVE b[n] = c[n]
  <2>1. b[n] = t[n]
    BY <1>4
  <2>2. CASE n = i
    BY <1>7, <2>1, <2>2
  <2>3. CASE n # i
    <3>1. n \in 1 .. i - 1
      BY <2>3
    <3> QED BY <1>3, <1>6, <2>1, <3>1
  <2> QED BY <2>2, <2>3
<1> QED BY <1>2, <1>4, <1>5, <1>6, <1>8, SeqEqual

(* Expanding what the loop has written and appending the run it holds gives  *)
(* the lines it has read.                                                    *)
HasRead(u, L, t, i) ==
  /\ Expanded(u.out) \in Seq(L)
  /\ Expanded(u.out) \o Copies(u.currLine, u.repeatCount) = SubSeq(t, 1, i)

LEMMA TakenReads ==
  ASSUME NEW L, NEW t \in Seq(L), NEW i \in 1 .. Len(t), NEW u \in StatesOf(L),
         HasRead(u, L, t, i - 1)
  PROVE  HasRead(Taken(u, t[i]), L, t, i)
<1>1. PICK line \in L : line = t[i]
  OBVIOUS
<1>2. u.out \in Seq(ItemsOf(L)) /\ u.currLine \in L /\ u.repeatCount \in Nat
  BY DEF StatesOf
<1>3. PICK e \in Seq(L) : e = Expanded(u.out)
  BY DEF HasRead
<1>4. PICK before \in Seq(L) : before = SubSeq(t, 1, i - 1)
  <2>1. SubSeq(t, 1, i - 1) \in Seq(L)
    BY SubSeqProperties
  <2> QED BY <2>1
<1>5. e \o Copies(u.currLine, u.repeatCount) = before
  BY <1>3, <1>4 DEF HasRead
<1>6. SubSeq(t, 1, i) = Append(before, line)
  BY <1>1, <1>4, OneMoreOf
<1>7. CASE line = u.currLine /\ Shows(line)
  <2>1. PICK v : v = Taken(u, line)
    OBVIOUS
  <2>2. v = [u EXCEPT !.repeatCount = u.repeatCount + 1]
    BY <1>7, <2>1 DEF Taken
  <2>3. v.out = u.out /\ v.currLine = line /\ v.repeatCount = u.repeatCount + 1
    BY <1>7, <2>2 DEF StatesOf
  <2>4. e \o Copies(line, u.repeatCount + 1) = Append(before, line)
    BY <1>2, <1>5, <1>7, OneMoreCopy
  <2> QED BY <1>1, <1>3, <1>6, <2>1, <2>3, <2>4 DEF HasRead
<1>8. CASE ~(line = u.currLine /\ Shows(line))
  <2>1. PICK v : v = Taken(u, line)
    OBVIOUS
  <2>2. v = [out |-> Flushed(u), currLine |-> line, repeatCount |-> 1]
    BY <1>8, <2>1 DEF Taken
  <2>3. v.out = u.out \o Folded(u.currLine, u.repeatCount) /\ v.currLine = line /\ v.repeatCount = 1
    BY <2>2 DEF Flushed
  <2>4. Expanded(v.out) = before
    <3>1. Expanded(u.out \o Folded(u.currLine, u.repeatCount))
            = Expanded(u.out) \o Copies(u.currLine, u.repeatCount)
      BY <1>2, <1>3, FoldedUnfolds
    <3> QED BY <1>3, <1>5, <2>3, <3>1
  <2>5. before \o Copies(line, 1) = Append(before, line)
    <3>1. before \o Copies(line, 0 + 1) = Append(before \o Copies(line, 0), line)
      BY OneMoreCopy
    <3>2. before \o Copies(line, 0) = before
      <4>1. Copies(line, 0) = <<>>
        BY DEF Copies
      <4> QED BY <4>1, ConcatEmptySeq
    <3>3. 0 + 1 = 1
      OBVIOUS
    <3> QED BY <3>1, <3>2, <3>3
  <2> QED BY <1>1, <1>6, <2>1, <2>3, <2>4, <2>5 DEF HasRead
<1> QED BY <1>7, <1>8

(* Folding loses nothing, for every text. *)
LEMMA FoldingRestores ==
  ASSUME NEW L, EmptyLine \in L, NEW t \in Seq(L)
  PROVE  /\ FoldRepeatedLines(t) \in Seq(ItemsOf(L))
         /\ Expanded(FoldRepeatedLines(t)) = t
<1>1. PICK f : IsFold(f, L, t)
  BY FoldIs
<1>2. PICK len \in Nat : len = Len(t)
  OBVIOUS
<1> DEFINE Holds(i) == HasRead(f[i], L, t, i)
           P == {i \in 0 .. len : Holds(i)}
<1>3. 0 \in P
  <2>1. f[0].out = <<>> /\ f[0].repeatCount = 0
    BY <1>1 DEF IsFold, Nothing
  <2>2. Copies(f[0].currLine, f[0].repeatCount) = <<>>
    BY <2>1 DEF Copies
  <2>3. Expanded(f[0].out) = <<>>
    <3>1. <<>> \in Seq(ItemsOf(L))
      OBVIOUS
    <3>2. PICK g : IsExpansion(g, L, <<>>)
      BY <3>1, ExpansionIs
    <3>3. Expanded(<<>>) = <<>>
      BY <3>2 DEF IsExpansion
    <3> QED BY <2>1, <3>3
  <2>4. <<>> \in Seq(L) /\ <<>> \o <<>> = <<>> /\ SubSeq(t, 1, 0) = <<>>
    OBVIOUS
  <2>5. Holds(0)
    BY <2>2, <2>3, <2>4 DEF HasRead
  <2> HIDE DEF Holds
  <2> QED BY <2>5
<1>4. ASSUME NEW i \in 1 .. len, i - 1 \in P  PROVE i \in P
  <2>1. f[i - 1] \in StatesOf(L) /\ f[i] = Taken(f[i - 1], t[i]) /\ HasRead(f[i - 1], L, t, i - 1)
    BY <1>1, <1>2, <1>4 DEF IsFold
  <2>2. Holds(i)
    BY <1>2, <2>1, TakenReads
  <2> HIDE DEF Holds
  <2> QED BY <2>2
<1>5. len \in P
  <2> HIDE DEF P
  <2>1. \A i \in 0 .. len : i \in P
    BY <1>3, <1>4, IntervalInduction
  <2> QED BY <2>1
<1>6. PICK u \in StatesOf(L) : u = f[len]
  BY <1>1, <1>2 DEF IsFold
<1>7. HasRead(u, L, t, len)
  BY <1>5, <1>6
<1>8. u.out \in Seq(ItemsOf(L)) /\ u.currLine \in L /\ u.repeatCount \in Nat
  BY DEF StatesOf
<1>9. FoldRepeatedLines(t) = u.out \o Folded(u.currLine, u.repeatCount)
  BY <1>1, <1>2, <1>6 DEF IsFold, Flushed
<1>10. Expanded(u.out \o Folded(u.currLine, u.repeatCount))
         = Expanded(u.out) \o Copies(u.currLine, u.repeatCount)
  BY <1>7, <1>8, FoldedUnfolds DEF HasRead
<1>11. SubSeq(t, 1, len) = t
  BY <1>2
<1>12. FoldRepeatedLines(t) \in Seq(ItemsOf(L))
  BY <1>9, <1>6, TakenIsTyped DEF Flushed
<1> QED BY <1>7, <1>9, <1>10, <1>11, <1>12 DEF HasRead
-----------------------------------------------------------------------------
(* Without fold markers the items are the lines. *)
LEMMA OnlyLines ==
  ASSUME NEW L, NEW items \in Seq(ItemsOf(L)),
         \A n \in DOMAIN items : items[n][1] # "repeated"
  PROVE  items = AsLines(Expanded(items))
<1>1. PICK len \in Nat : len = Len(items)
  OBVIOUS
<1>2. PICK f : IsExpansion(f, L, items)
  BY ExpansionIs
<1>3. ASSUME NEW n \in 1 .. len
      PROVE  items[n][2] \in L /\ items[n] = <<"line", items[n][2]>>
  <2>1. items[n] \in ItemsOf(L) /\ items[n][1] # "repeated"
    BY <1>1
  <2> QED BY <2>1 DEF ItemsOf
<1> DEFINE Holds(n) == f[n] \in Seq(L) /\ Len(f[n]) = n /\ \A i \in 1 .. n : f[n][i] = items[i][2]
           P == {n \in 0 .. len : Holds(n)}
<1>4. 0 \in P
  <2>1. f[0] = <<>>
    BY <1>2 DEF IsExpansion
  <2>2. Holds(0)
    BY <2>1
  <2> HIDE DEF Holds
  <2> QED BY <2>2
<1>5. ASSUME NEW n \in 1 .. len, n - 1 \in P  PROVE n \in P
  <2>1. PICK u \in Seq(L) : u = f[n - 1] /\ Len(u) = n - 1 /\ \A i \in 1 .. n - 1 : u[i] = items[i][2]
    BY <1>5
  <2>2. PICK x \in L : x = items[n][2]
    BY <1>3
  <2>3. f[n] = Append(u, x)
    <3>1. f[n] = Unfolded(u, items[n])
      BY <1>1, <1>2, <2>1 DEF IsExpansion
    <3>2. items[n][1] = "line"
      BY <1>3
    <3> QED BY <2>2, <3>1, <3>2 DEF Unfolded
  <2>4. Holds(n)
    BY <2>1, <2>2, <2>3
  <2> HIDE DEF Holds
  <2> QED BY <2>4
<1>6. \A n \in 0 .. len : n \in P
  <2> HIDE DEF P
  <2> QED BY <1>4, <1>5, IntervalInduction
<1>7. PICK u : u = Expanded(items)
  OBVIOUS
<1>8. u \in Seq(L) /\ Len(u) = len /\ \A i \in 1 .. len : u[i] = items[i][2]
  BY <1>1, <1>2, <1>6, <1>7 DEF IsExpansion
<1>9. AsLines(u) = [i \in 1 .. len |-> <<"line", u[i]>>]
  BY <1>8 DEF AsLines
<1>10. \A i \in 1 .. len : items[i] = AsLines(u)[i]
  BY <1>3, <1>8, <1>9
<1>11. DOMAIN items = 1 .. len /\ items = [i \in 1 .. len |-> items[i]]
  BY <1>1
<1> QED BY <1>7, <1>9, <1>10, <1>11

LEMMA SummedIsNat ==
  ASSUME NEW base \in Nat, NEW sizes \in Seq(Nat)
  PROVE  Summed(base, sizes) \in Nat
<1> DEFINE Summing(f) ==
             [n \in 0 .. Len(sizes) |-> IF n = 0 THEN base ELSE f[n - 1] + sizes[n]]
<1>1. PICK upTo : upTo = CHOOSE f : f = Summing(f)
  OBVIOUS
<1>2. Summed(base, sizes) = upTo[Len(sizes)]
  BY <1>1 DEF Summed
<1>3. PICK len \in Nat : len = Len(sizes)
  OBVIOUS
<1>4. PICK step : step = [n \in 1 .. len |-> [u \in Nat |-> u + sizes[n]]]
  OBVIOUS
<1>5. step \in [1 .. len -> [Nat -> Nat]]
  <2>1. \A n \in 1 .. len : sizes[n] \in Nat
    BY <1>3
  <2>2. \A n \in 1 .. len, u \in Nat : u + sizes[n] \in Nat
    BY <2>1
  <2> QED BY <1>4, <2>2
<1>6. PICK g : g \in [0 .. len -> Nat] /\ IsRecursion(g, base, len, step)
  BY <1>5, RecursionExists
<1>7. ASSUME NEW n \in 0 .. len
      PROVE  g[n] = IF n = 0 THEN base ELSE g[n - 1] + sizes[n]
  <2>1. CASE n = 0
    BY <1>6, <2>1 DEF IsRecursion
  <2>2. CASE n # 0
    <3>1. n \in 1 .. len /\ n - 1 \in 0 .. len
      BY <2>2
    <3>2. g[n] = step[n][g[n - 1]] /\ g[n - 1] \in Nat
      BY <1>6, <3>1 DEF IsRecursion
    <3>3. step[n][g[n - 1]] = g[n - 1] + sizes[n]
      BY <1>4, <3>1, <3>2
    <3> QED BY <2>2, <3>2, <3>3
  <2> QED BY <2>1, <2>2
<1>8. g = Summing(g)
  BY <1>3, <1>6, <1>7
<1>9. upTo = Summing(upTo)
  <2> HIDE DEF Summing
  <2> QED BY <1>1, <1>8
<1>10. \A n \in 0 .. len : upTo[n] = IF n = 0 THEN base ELSE upTo[n - 1] + sizes[n]
  <2>1. PICK h : h = Summing(upTo)
    OBVIOUS
  <2>2. \A n \in 0 .. len : h[n] = IF n = 0 THEN base ELSE upTo[n - 1] + sizes[n]
    BY <1>3, <2>1
  <2> HIDE DEF Summing
  <2> QED BY <1>9, <2>1, <2>2
<1> HIDE DEF Summing
<1> DEFINE P == {n \in 0 .. len : upTo[n] \in Nat}
<1>11. 0 \in P
  BY <1>10
<1>12. ASSUME NEW n \in 1 .. len, n - 1 \in P  PROVE n \in P
  <2>1. upTo[n - 1] \in Nat /\ sizes[n] \in Nat /\ upTo[n] = upTo[n - 1] + sizes[n]
    BY <1>3, <1>10, <1>12
  <2>2. upTo[n] \in Nat
    BY <2>1
  <2> QED BY <2>2
<1>13. \A n \in 0 .. len : n \in P
  <2> HIDE DEF P
  <2> QED BY <1>11, <1>12, IntervalInduction
<1> QED BY <1>2, <1>3, <1>13

LEMMA LinesAre ==
  ASSUME NEW line \in Lines
  PROVE  /\ line.esc \in BOOLEAN
         /\ line.segs \in Seq(Segments) /\ Len(line.segs) \in 1 .. 2
         /\ line = [esc |-> line.esc, segs |-> line.segs]
<1>1. line.esc \in BOOLEAN /\ line = [esc |-> line.esc, segs |-> line.segs]
  BY DEF Lines
<1>2. PICK n \in 1 .. 2 : line.segs \in [1 .. n -> Segments]
  BY DEF Lines
<1>3. PICK segs : segs = line.segs
  OBVIOUS
<1>4. segs \in [1 .. n -> Segments]
  BY <1>2, <1>3
<1>5. segs \in Seq(Segments) /\ Len(segs) = n
  BY <1>4
<1> QED BY <1>1, <1>3, <1>5

LEMMA SizesAreNat ==
  /\ \A line \in Lines : LineSize(line) \in Nat
  /\ \A t \in Seq(Lines) : Size(t) \in Nat
<1>1. ASSUME NEW line \in Lines  PROVE LineSize(line) \in Nat
  <2>1. line.segs \in Seq(Segments)
    BY LinesAre
  <2>2. \A s \in Segments : SegSize(s) \in Nat
    BY PassesAssumption DEF SegSize
  <2>3. PICK sizes : sizes = [n \in DOMAIN line.segs |-> SegSize(line.segs[n])]
    OBVIOUS
  <2>4. sizes \in Seq(Nat)
    BY <2>1, <2>2, <2>3
  <2>5. PICK base \in Nat : base = IF line.esc THEN 4 ELSE 0
    OBVIOUS
  <2>6. LineSize(line) = Summed(base, sizes)
    BY <2>3, <2>5 DEF LineSize
  <2> QED BY <2>4, <2>6, SummedIsNat
<1>2. ASSUME NEW t \in Seq(Lines)  PROVE Size(t) \in Nat
  <2>1. PICK sizes : sizes = [i \in DOMAIN t |-> LineSize(t[i])]
    OBVIOUS
  <2>2. sizes \in Seq(Nat)
    BY <1>1, <2>1
  <2> QED BY <2>1, <2>2, SummedIsNat DEF Size
<1> QED BY <1>1, <1>2

LEMMA LinesKeepTheirSize ==
  ASSUME NEW t \in Seq(Lines)
  PROVE  OutSize(AsLines(t)) = Size(t)
<1>1. PICK items : items = AsLines(t)
  OBVIOUS
<1>2. DOMAIN items = DOMAIN t /\ \A i \in DOMAIN t : items[i] = <<"line", t[i]>>
  BY <1>1 DEF AsLines
<1>3. \A i \in DOMAIN t : ItemSize(items[i]) = LineSize(t[i])
  BY <1>2 DEF ItemSize
<1>4. [n \in DOMAIN items |-> ItemSize(items[n])] = [i \in DOMAIN t |-> LineSize(t[i])]
  BY <1>2, <1>3
<1> QED BY <1>1, <1>4 DEF OutSize, Size

(* Cleaning keeps the lines apart and leaves one segment of each. *)
Cleaned(t) == CleanCarriageReturns(StripANSI(t))

LEMMA MaxIs ==
  ASSUME NEW S, S \subseteq Nat, NEW m \in S, \A n \in S : n <= m
  PROVE  Max(S) = m
<1>1. PICK x : x = Max(S)
  OBVIOUS
<1>2. x \in S /\ \A y \in S : x >= y
  BY <1>1 DEF Max
<1> QED BY <1>1, <1>2

LEMMA LastShownIs ==
  ASSUME NEW segs \in Seq(Segments), Len(segs) \in 1 .. 2
  PROVE  /\ LastShown(segs) \in Segments
         /\ Len(segs) = 1 => LastShown(segs) = segs[1]
         /\ \A n \in DOMAIN segs :
              segs[n] # Blank /\ (\A m \in DOMAIN segs : m > n => segs[m] = Blank)
                => LastShown(segs) = segs[n]
<1> DEFINE shown == {n \in DOMAIN segs : segs[n] # Blank}
<1>0. DOMAIN segs = 1 .. Len(segs) /\ \A n \in DOMAIN segs : n \in Nat /\ segs[n] \in Segments
  OBVIOUS
<1>1. \A n \in DOMAIN segs :
        segs[n] # Blank /\ (\A m \in DOMAIN segs : m > n => segs[m] = Blank)
          => LastShown(segs) = segs[n]
  <2> SUFFICES ASSUME NEW n \in DOMAIN segs, segs[n] # Blank,
                      \A m \in DOMAIN segs : m > n => segs[m] = Blank
               PROVE  LastShown(segs) = segs[n]
    OBVIOUS
  <2>1. shown \subseteq Nat /\ n \in shown /\ \A m \in shown : m <= n
    BY <1>0
  <2>2. Max(shown) = n
    <3> HIDE DEF shown
    <3> QED BY <2>1, MaxIs
  <2> QED BY <2>1, <2>2 DEF LastShown
<1>2. CASE shown = {}
  <2>1. LastShown(segs) = Blank /\ segs[1] = Blank /\ Blank \in Segments
    BY <1>0, <1>2 DEF LastShown, Segments
  <2> QED BY <1>1, <2>1
<1>3. CASE shown # {}
  <2>1. \E n \in DOMAIN segs :
          segs[n] # Blank /\ \A m \in DOMAIN segs : m > n => segs[m] = Blank
    <3>1. CASE segs[Len(segs)] # Blank
      BY <1>0, <3>1
    <3>2. CASE segs[Len(segs)] = Blank
      <4>1. segs[1] # Blank /\ Len(segs) = 2
        BY <1>0, <1>3, <3>2
      <4> QED BY <1>0, <3>2, <4>1
    <3> QED BY <3>1, <3>2
  <2>2. PICK n \in DOMAIN segs :
          segs[n] # Blank /\ \A m \in DOMAIN segs : m > n => segs[m] = Blank
    BY <2>1
  <2>3. LastShown(segs) = segs[n]
    BY <1>1, <2>2
  <2>4. Len(segs) = 1 => n = 1
    BY <1>0
  <2> QED BY <1>0, <1>1, <2>3, <2>4
<1> QED BY <1>2, <1>3

LEMMA CleanedIs ==
  ASSUME NEW t \in Seq(Lines)
  PROVE  /\ Cleaned(t) \in Seq(Lines) /\ DOMAIN Cleaned(t) = DOMAIN t
         /\ \A i \in DOMAIN t : Cleaned(t)[i].segs = <<LastShown(t[i].segs)>>
         /\ (\A i \in DOMAIN t : ~t[i].esc /\ ~(Len(t[i].segs) > 1)) => Cleaned(t) = t
<1>1. PICK s : s = StripANSI(t)
  OBVIOUS
<1>2. PICK c : c = CleanCarriageReturns(s)
  OBVIOUS
<1>3. DOMAIN s = DOMAIN t /\ DOMAIN c = DOMAIN t
  BY <1>1, <1>2 DEF StripANSI, CleanCarriageReturns
<1>4. ASSUME NEW i \in DOMAIN t
      PROVE  /\ c[i].segs = <<LastShown(t[i].segs)>>
             /\ c[i] \in Lines
             /\ ~t[i].esc /\ ~(Len(t[i].segs) > 1) => c[i] = t[i]
  <2>1. PICK line \in Lines : line = t[i]
    OBVIOUS
  <2>2. s[i] = [line EXCEPT !.esc = FALSE]
    BY <1>1, <2>1 DEF StripANSI
  <2>3. PICK l \in Segments : l = LastShown(line.segs)
    BY LinesAre, LastShownIs
  <2>4. s[i] = [esc |-> FALSE, segs |-> line.segs]
    BY <2>2, LinesAre
  <2>5. c[i] = [s[i] EXCEPT !.segs = <<LastShown(s[i].segs)>>]
    BY <1>2, <1>3 DEF CleanCarriageReturns
  <2>6. c[i] = [esc |-> FALSE, segs |-> <<l>>]
    <3>1. PICK segs, a : segs = line.segs /\ a = [esc |-> FALSE, segs |-> segs]
      OBVIOUS
    <3>2. s[i] = a /\ a.segs = segs
      BY <2>4, <3>1
    <3>3. LastShown(a.segs) = l
      BY <2>3, <3>1, <3>2
    <3>4. c[i] = [a EXCEPT !.segs = <<l>>]
      BY <2>5, <3>2, <3>3
    <3> QED BY <3>1, <3>4
  <2>7. c[i] \in Lines
    <3>1. <<l>> \in [1 .. 1 -> Segments]
      OBVIOUS
    <3>2. <<l>> \in UNION {[1 .. n -> Segments] : n \in 1 .. 2}
      BY <3>1
    <3> QED BY <2>6, <3>2 DEF Lines
  <2>8. ASSUME ~line.esc, ~(Len(line.segs) > 1)  PROVE c[i] = line
    <3>1. PICK segs \in Seq(Segments) : segs = line.segs
      BY LinesAre
    <3>2. Len(segs) = 1
      <4>1. PICK m : m = Len(line.segs)
        OBVIOUS
      <4>2. m \in 1 .. 2
        BY <4>1, LinesAre
      <4>3. ~(m > 1)
        BY <2>8, <4>1
      <4>4. m = 1
        BY <4>2, <4>3
      <4> QED BY <3>1, <4>1, <4>4
    <3>3. l = segs[1]
      BY <2>3, <3>1, <3>2, LastShownIs
    <3>4. segs = <<l>>
      BY <3>2, <3>3
    <3>5. line.esc = FALSE
      BY <2>8, LinesAre
    <3> QED BY <2>6, <3>1, <3>4, <3>5, LinesAre
  <2> QED BY <2>1, <2>3, <2>6, <2>7, <2>8
<1>5. c \in Seq(Lines)
  <2>1. PICK len \in Nat : len = Len(t)
    OBVIOUS
  <2>2. DOMAIN c = 1 .. len
    BY <1>3, <2>1
  <2>3. c = [i \in 1 .. len |-> c[i]]
    <3>1. c = [i \in DOMAIN s |-> [s[i] EXCEPT !.segs = <<LastShown(@)>>]]
      BY <1>2 DEF CleanCarriageReturns
    <3> QED BY <2>2, <3>1
  <2>4. \A i \in 1 .. len : c[i] \in Lines
    BY <1>3, <1>4, <2>2
  <2> QED BY <2>3, <2>4
<1>6. ASSUME \A i \in DOMAIN t : ~t[i].esc /\ ~(Len(t[i].segs) > 1)  PROVE c = t
  <2>1. \A i \in DOMAIN t : c[i] = t[i]
    BY <1>4, <1>6
  <2>2. Len(c) = Len(t)
    BY <1>3, <1>5
  <2> QED BY <1>3, <1>5, <2>1, <2>2, SeqEqual
<1>7. \A i \in DOMAIN t : c[i].segs = <<LastShown(t[i].segs)>>
  BY <1>4
<1> QED BY <1>1, <1>2, <1>3, <1>5, <1>6, <1>7 DEF Cleaned

LEMMA EmptyLineIsLine ==
  EmptyLine \in Lines
<1>1. <<Blank>> \in [1 .. 1 -> Segments]
  BY DEF Segments
<1>2. <<Blank>> \in UNION {[1 .. n -> Segments] : n \in 1 .. 2}
  BY <1>1
<1> QED BY <1>2 DEF EmptyLine, Lines

LEMMA SanitizeIs ==
  ASSUME NEW t \in Seq(Lines)
  PROVE  /\ SanitizeTerminal(t) \in Seq(ItemsOf(Lines))
         /\ Expanded(SanitizeTerminal(t)) = Cleaned(t)
<1>1. Cleaned(t) \in Seq(Lines)
  BY CleanedIs
<1> QED BY <1>1, EmptyLineIsLine, FoldingRestores DEF SanitizeTerminal, Cleaned
-----------------------------------------------------------------------------
Typed ==
  /\ text \in Texts
  /\ is \in Findings(text)
  /\ prescanOff \in BOOLEAN
  /\ out \in [by : {"none", "diff", "json", "testlog", "terminal"},
              lines : Seq(ItemsOf(Lines)), ref : Seq(Lines), stored : Seq(Lines)]
  /\ pc \in {"prescan", "diff", "json", "testlog", "terminal", "done"}

(* A result says which pass it comes from, and what that pass took: this is  *)
(* what the switch in distillText leaves behind.                             *)
By(by, lines, ref) == out = [by |-> by, lines |-> lines, ref |-> ref, stored |-> text]

Shrinks(t) == OutSize(SanitizeTerminal(t)) < (9 * Size(t)) \div 10

Ended ==
  \/ out = Unchanged
  \/ is.diffChanged /\ By("diff", AsLines(text), <<>>)
  \/ is.jsonChanged /\ By("json", AsLines(text), <<>>)
  \/ is.squeezed /\ By("testlog", AsLines(Cleaned(text)), Cleaned(text))
  \/ /\ ~IsMachineOutput(text) /\ Classify(text) # "code" /\ Shrinks(text)
     /\ By("terminal", SanitizeTerminal(text), <<>>)

IInv ==
  /\ Typed
  /\ Ended
  /\ pc = "terminal" => ~IsMachineOutput(text) /\ Classify(text) # "code"

LEMMA TextIs ==
  ASSUME Typed
  PROVE  text \in Seq(Lines) /\ text # <<>> /\ <<>> \in Seq(Lines)
BY PassesAssumption DEF Typed

LEMMA AsLinesAre ==
  ASSUME NEW t \in Seq(Lines)
  PROVE  AsLines(t) \in Seq(ItemsOf(Lines))
<1>1. \A i \in DOMAIN t : <<"line", t[i]>> \in ItemsOf(Lines)
  BY DEF ItemsOf
<1>2. PICK items : items = [i \in DOMAIN t |-> <<"line", t[i]>>]
  OBVIOUS
<1>3. items \in Seq(ItemsOf(Lines))
  BY <1>1, <1>2
<1> QED BY <1>2, <1>3 DEF AsLines

LEMMA InitIInv ==
  Init => IInv
<1> SUFFICES ASSUME Init PROVE IInv
  OBVIOUS
<1>1. out = Unchanged /\ pc = "prescan"
  BY DEF Init
<1>2. Typed
  BY <1>1 DEF Init, Typed, Unchanged
<1> QED BY <1>1, <1>2 DEF IInv, Ended

(* Of a step that ends with a result, what the invariant asks. *)
LEMMA ResultKeepsIInv ==
  ASSUME IInv, UNCHANGED inputs, pc' = "done", Ended',
         NEW by \in {"diff", "json", "testlog", "terminal"},
         NEW lines \in Seq(ItemsOf(Lines)), NEW ref \in Seq(Lines),
         out' = [by |-> by, lines |-> lines, ref |-> ref, stored |-> text]
  PROVE  IInv'
<1>1. text' = text /\ is' = is /\ prescanOff' = prescanOff
  BY DEF inputs
<1>2. Findings(text)' = Findings(text)
  BY <1>1 DEF Findings, OpensJSON, IsMachineOutput
<1>3. text \in Seq(Lines)
  BY TextIs DEF IInv
<1>4. Typed'
  BY <1>1, <1>2, <1>3 DEF IInv, Typed
<1> QED BY <1>4 DEF IInv

(* Of a step that does not. *)
LEMMA NoResultKeepsIInv ==
  ASSUME IInv, UNCHANGED <<inputs, out>>,
         pc' \in {"diff", "json", "testlog", "terminal", "done"},
         pc' = "terminal" => ~IsMachineOutput(text) /\ Classify(text) # "code"
  PROVE  IInv'
<1>1. text' = text /\ is' = is /\ prescanOff' = prescanOff /\ out' = out
  BY DEF inputs
<1>2. Typed'
  BY <1>1 DEF IInv, Typed, Findings, OpensJSON, IsMachineOutput
<1>3. Ended'
  BY <1>1 DEF IInv, Ended, By
<1> QED BY <1>1, <1>2, <1>3 DEF IInv

LEMMA NextIInv ==
  IInv /\ [Next]_vars => IInv'
<1> SUFFICES ASSUME IInv, [Next]_vars PROVE IInv'
  OBVIOUS
<1>0. text \in Seq(Lines) /\ <<>> \in Seq(Lines)
  BY TextIs DEF IInv
<1>1. CASE Prescan
  <2>1. UNCHANGED <<inputs, out>> /\ pc' \in {"diff", "done"}
    BY <1>1 DEF Prescan
  <2> QED BY <2>1, NoResultKeepsIInv
<1>2. CASE Diff
  <2>1. CASE is.diffChanged
    <3>1. UNCHANGED inputs /\ pc' = "done"
          /\ out' = [by |-> "diff", lines |-> AsLines(text), ref |-> <<>>, stored |-> text]
      BY <1>2, <2>1 DEF Diff, Result
    <3>2. Ended'
      BY <2>1, <3>1 DEF Ended, By, inputs
    <3> QED BY <1>0, <3>1, <3>2, AsLinesAre, ResultKeepsIInv
  <2>2. CASE ~is.diffChanged
    <3>1. UNCHANGED <<inputs, out>> /\ pc' = "json"
      BY <1>2, <2>2 DEF Diff
    <3> QED BY <3>1, NoResultKeepsIInv
  <2> QED BY <2>1, <2>2
<1>3. CASE JSON
  <2>1. CASE is.jsonChanged
    <3>1. UNCHANGED inputs /\ pc' = "done"
          /\ out' = [by |-> "json", lines |-> AsLines(text), ref |-> <<>>, stored |-> text]
      BY <1>3, <2>1 DEF JSON, Result
    <3>2. Ended'
      BY <2>1, <3>1 DEF Ended, By, inputs
    <3> QED BY <1>0, <3>1, <3>2, AsLinesAre, ResultKeepsIInv
  <2>2. CASE ~is.jsonChanged
    <3>1. UNCHANGED <<inputs, out>> /\ pc' = "testlog"
      BY <1>3, <2>2 DEF JSON
    <3> QED BY <3>1, NoResultKeepsIInv
  <2> QED BY <2>1, <2>2
<1>4. CASE TestLog
  <2>1. CASE is.squeezed
    <3>1. UNCHANGED inputs /\ pc' = "done"
          /\ out' = [by |-> "testlog", lines |-> AsLines(Cleaned(text)), ref |-> Cleaned(text),
                     stored |-> text]
      BY <1>4, <2>1 DEF TestLog, Result, Cleaned
    <3>2. text' = text /\ is' = is
      BY <3>1 DEF inputs
    <3>3. Ended'
      BY <2>1, <3>1, <3>2 DEF Ended, By
    <3>4. Cleaned(text) \in Seq(Lines)
      BY <1>0, CleanedIs
    <3> QED BY <3>1, <3>3, <3>4, AsLinesAre, ResultKeepsIInv
  <2>2. CASE ~is.squeezed
    <3>1. UNCHANGED <<inputs, out>>
          /\ pc' = IF ~IsMachineOutput(text) /\ Classify(text) # "code" THEN "terminal" ELSE "done"
      BY <1>4, <2>2 DEF TestLog
    <3> QED BY <3>1, NoResultKeepsIInv
  <2> QED BY <2>1, <2>2
<1>5. CASE Terminal
  <2>0. ~IsMachineOutput(text) /\ Classify(text) # "code"
    BY <1>5 DEF IInv, Terminal
  <2>1. CASE Size(text) >= 64 /\ Shrinks(text)
    <3>1. UNCHANGED inputs /\ pc' = "done"
          /\ out' = [by |-> "terminal", lines |-> SanitizeTerminal(text), ref |-> <<>>,
                     stored |-> text]
      BY <1>5, <2>1 DEF Terminal, Result, Shrinks
    <3>2. text' = text /\ is' = is
      BY <3>1 DEF inputs
    <3>3. Ended'
      <4>1. (Shrinks(text) /\ ~IsMachineOutput(text) /\ Classify(text) # "code")'
        BY <2>0, <2>1, <3>2
      <4>2. By("terminal", SanitizeTerminal(text), <<>>)'
        BY <3>1, <3>2 DEF By
      <4> QED BY <4>1, <4>2 DEF Ended
    <3>4. SanitizeTerminal(text) \in Seq(ItemsOf(Lines))
      BY <1>0, SanitizeIs
    <3> QED BY <1>0, <3>1, <3>3, <3>4, ResultKeepsIInv
  <2>2. CASE ~(Size(text) >= 64 /\ Shrinks(text))
    <3>1. UNCHANGED <<inputs, out>> /\ pc' = "done"
      BY <1>5, <2>2 DEF Terminal, Shrinks
    <3> QED BY <3>1, NoResultKeepsIInv
  <2> QED BY <2>1, <2>2
<1>6. CASE Done \/ UNCHANGED vars
  <2>1. UNCHANGED vars
    BY <1>6 DEF Done
  <2>2. UNCHANGED text /\ UNCHANGED is /\ UNCHANGED prescanOff /\ UNCHANGED out /\ UNCHANGED pc
    BY <2>1 DEF vars
  <2>3. Typed'
    BY <2>2 DEF IInv, Typed, Findings, OpensJSON, IsMachineOutput
  <2>4. Ended'
    BY <2>2 DEF IInv, Ended, By
  <2> QED BY <2>2, <2>3, <2>4 DEF IInv, IsMachineOutput
<1> QED BY <1>1, <1>2, <1>3, <1>4, <1>5, <1>6 DEF Next

LEMMA Invariance ==
  Spec => []IInv
<1> QED BY InitIInv, NextIInv, PTL DEF Spec

(* The block, the findings and the result keep their types: fold markers     *)
(* carry a count, and nothing but lines of the block's kind is written.      *)
THEOREM TypeCorrect ==
  Spec => []Typed
<1>1. IInv => Typed
  BY DEF IInv
<1> QED BY <1>1, Invariance, PTL

(* A changed text is stored as it came, and the marker of the squeezer names *)
(* it whenever the text has no control byte (engine.go:232-240).             *)
THEOREM ChangesAreReversible ==
  Spec => []RefLeadsToStored
<1>1. ASSUME IInv, Rewritten  PROVE out.stored = text
  BY <1>1 DEF IInv, Ended, By, Rewritten
<1>2. ASSUME IInv, Rewritten, out.by = "testlog", ~HasControl  PROVE out.ref = text
  <2>1. out.ref = Cleaned(text)
    BY <1>2 DEF IInv, Ended, By, Rewritten
  <2>2. text \in Seq(Lines)
    BY <1>2, TextIs DEF IInv
  <2>3. Cleaned(text) = text
    <3>1. \A i \in DOMAIN text : ~text[i].esc /\ ~(Len(text[i].segs) > 1)
      BY <1>2 DEF HasControl
    <3> QED BY <2>2, <3>1, CleanedIs
  <2> QED BY <2>1, <2>3
<1>3. IInv => RefLeadsToStored
  BY <1>1, <1>2 DEF RefLeadsToStored
<1> QED BY <1>3, Invariance, PTL

(* For every text: what hygiene folds, expanding restores, line for line, to *)
(* what a terminal would have shown.                                         *)
THEOREM FoldingLosesNothing ==
  Spec => []FoldingIsExact
<1>1. ASSUME IInv, Rewritten, out.by = "terminal"
      PROVE  out.lines = SanitizeTerminal(text)
  BY <1>1 DEF IInv, Ended, By, Rewritten
<1>2. ASSUME IInv, Rewritten, out.by = "terminal"  PROVE Expanded(out.lines) = Cleaned(text)
  <2>1. text \in Seq(Lines)
    BY <1>2, TextIs DEF IInv
  <2> QED BY <1>1, <1>2, <2>1, SanitizeIs
<1>3. ASSUME IInv
      PROVE  /\ Len(Cleaned(text)) = Len(text)
             /\ \A i \in DOMAIN text :
                  \A n \in DOMAIN text[i].segs :
                    (/\ text[i].segs[n] # Blank
                     /\ \A m \in DOMAIN text[i].segs : m > n => text[i].segs[m] = Blank)
                      => Cleaned(text)[i].segs = <<text[i].segs[n]>>
  <2>1. text \in Seq(Lines)
    BY <1>3, TextIs DEF IInv
  <2>2. Cleaned(text) \in Seq(Lines) /\ DOMAIN Cleaned(text) = DOMAIN text
    BY <2>1, CleanedIs
  <2>3. Len(Cleaned(text)) = Len(text)
    BY <2>1, <2>2
  <2>4. ASSUME NEW i \in DOMAIN text, NEW n \in DOMAIN text[i].segs,
               text[i].segs[n] # Blank,
               \A m \in DOMAIN text[i].segs : m > n => text[i].segs[m] = Blank
        PROVE  Cleaned(text)[i].segs = <<text[i].segs[n]>>
    <3>1. PICK line \in Lines : line = text[i]
      BY <2>1
    <3>2. line.segs \in Seq(Segments) /\ Len(line.segs) \in 1 .. 2
      BY LinesAre
    <3>3. LastShown(line.segs) = line.segs[n]
      BY <2>4, <3>1, <3>2, LastShownIs
    <3>4. Cleaned(text)[i].segs = <<LastShown(line.segs)>>
      BY <2>1, <3>1, CleanedIs
    <3> QED BY <3>1, <3>3, <3>4
  <2> QED BY <2>3, <2>4
<1>4. IInv => FoldingIsExact
  BY <1>2, <1>3 DEF FoldingIsExact
<1> QED BY <1>4, Invariance, PTL

(* Of a text the pre-scan would turn away, hygiene cleans nothing, and       *)
(* without a fold marker the result would not be shorter.                    *)
THEOREM SkippingCostsOnlyFolds ==
  Spec => []SkipCostsOnlyFolds
<1> SUFFICES ASSUME IInv, Rewritten, ~CanDistill
             PROVE  out.by = "terminal" /\ \E n \in DOMAIN out.lines : out.lines[n][1] = "repeated"
  <2>1. IInv => SkipCostsOnlyFolds
    BY DEF SkipCostsOnlyFolds
  <2> QED BY <2>1, Invariance, PTL
<1>1. ~is.json /\ ~is.diff /\ ~HasControl /\ ~IsMachineOutput(text)
  BY DEF CanDistill
<1>2. ~is.diffChanged /\ ~is.jsonChanged /\ ~is.squeezed
  BY <1>1 DEF IInv, Typed, Findings
<1>3. Shrinks(text) /\ By("terminal", SanitizeTerminal(text), <<>>)
  BY <1>2 DEF IInv, Ended, Rewritten
<1>4. out.by = "terminal" /\ out.lines = SanitizeTerminal(text)
  BY <1>3 DEF By
<1>5. text \in Seq(Lines)
  BY TextIs DEF IInv
<1>6. Cleaned(text) = text
  <2>1. \A i \in DOMAIN text : ~text[i].esc /\ ~(Len(text[i].segs) > 1)
    BY <1>1 DEF HasControl
  <2> QED BY <1>5, <2>1, CleanedIs
<1>7. PICK items : items = SanitizeTerminal(text)
  OBVIOUS
<1>8. items \in Seq(ItemsOf(Lines)) /\ Expanded(items) = text
  BY <1>5, <1>6, <1>7, SanitizeIs
<1>9. ASSUME \A n \in DOMAIN items : items[n][1] # "repeated"  PROVE FALSE
  <2>1. items = AsLines(text)
    BY <1>8, <1>9, OnlyLines
  <2>2. OutSize(items) = Size(text)
    BY <1>5, <2>1, LinesKeepTheirSize
  <2>3. PICK size \in Nat : size = Size(text)
    BY <1>5, SizesAreNat
  <2>4. size < (9 * size) \div 10
    BY <1>3, <1>7, <2>2, <2>3 DEF Shrinks
  <2> QED BY <2>4
<1> QED BY <1>4, <1>7, <1>9

(* An opener at column 0 is no JSON, and code is neither test output nor a   *)
(* log nor for hygiene: it leaves distillText changed by the diff pass only. *)
THEOREM CodeIsLeftToDiff ==
  Spec => []CodeChangedOnlyAsDiff
<1> SUFFICES ASSUME IInv, Rewritten, IsCode(text)
             PROVE  out.by = "diff" /\ is.diff
  <2>1. IInv => CodeChangedOnlyAsDiff
    BY DEF CodeChangedOnlyAsDiff
  <2> QED BY <2>1, Invariance, PTL
<1>1. text \in Seq(Lines)
  BY TextIs DEF IInv
<1>2. ~IsJSON(text)
  <2>1. PICK head : head = Prefix(text, Probe)
    OBVIOUS
  <2>2. PICK i \in DOMAIN head : AtColumn0(head[i], "opener")
    BY <2>1 DEF IsCode, HasCodeOpener
  <2>3. i \in DOMAIN text /\ head[i] = text[i]
    <3>1. PICK k \in Nat : k <= Len(text) /\ head = SubSeq(text, 1, k)
      BY <1>1, <2>1, RouterAssumption DEF Prefix
    <3>2. DOMAIN head = 1 .. k /\ \A j \in 1 .. k : head[j] = text[j]
      BY <1>1, <3>1, SubSeqProperties
    <3> QED BY <1>1, <2>2, <3>1, <3>2
  <2>4. PICK line \in Lines : line = text[i]
    BY <1>1, <2>3
  <2>5. PICK s : s = line.segs[1]
    OBVIOUS
  <2>6. s # Blank /\ Traits[s].opener
    BY <2>2, <2>3, <2>4, <2>5 DEF AtColumn0
  <2>7. 1 \in DOMAIN line.segs /\ s \in Segments
    BY <2>5, LinesAre
  <2>8. s \in Shown
    BY <2>6, <2>7 DEF Segments
  <2>9. ~Traits[s].json
    BY <2>6, <2>8, RouterAssumption
  <2>10. 1 \in ShownIn(line)
    BY <2>5, <2>6, <2>7 DEF ShownIn
  <2> QED BY <2>3, <2>4, <2>5, <2>9, <2>10 DEF IsJSON
<1>3. Classify(text) = "code"
  BY <1>2 DEF Classify, ProbedJSON
<1>4. ~IsMachineOutput(text)
  BY <1>3 DEF IsMachineOutput
<1>5. ~is.jsonChanged /\ ~is.squeezed
  BY <1>2, <1>4 DEF IInv, Typed, Findings
<1>6. is.diffChanged /\ By("diff", AsLines(text), <<>>)
  BY <1>3, <1>5 DEF IInv, Ended, Rewritten
<1>7. is.diff
  BY <1>6 DEF IInv, Typed, Findings
<1> QED BY <1>6, <1>7 DEF By
-----------------------------------------------------------------------------
(* compress.Text: what its scan maintains. *)
SqueezeTyped ==
  /\ fails \in Seq(BOOLEAN)
  /\ bytes \in LineSizes
  /\ marked \in BOOLEAN
  /\ idx \in Nat
  /\ kept \in Seq(Nat)
  /\ dropped \in Nat
  /\ stage \in {"start", "scan", "unchanged", "squeezed"}

(* The scan stays within the middle and the rescued lines within the cap and *)
(* behind the scan.                                                          *)
Placed ==
  /\ idx = 0 \/ idx <= MiddleLen
  /\ Len(kept) <= MaxKept
  /\ \A i \in DOMAIN kept : kept[i] \in 1 .. idx

SqueezeIInv == SqueezeTyped /\ Placed /\ KeptInOrder /\ NoLossBelowCap /\ SilentLossBounded

LEMMA Parameters ==
  /\ HeadLines \in Nat /\ TailLines \in Nat /\ MaxKept \in Nat \ {0} /\ ContextAfter \in Nat
  /\ MaxLines \in Nat
BY ParamsAssumption

LEMMA MiddleIsTyped == ASSUME SqueezeTyped PROVE LineCount \in Nat /\ MiddleLen \in Int
BY Parameters DEF SqueezeTyped, LineCount, MiddleLen

(* What a rescued window appends to the kept lines. *)
LEMMA RescueAppends ==
  ASSUME SqueezeTyped, Placed, Rescue
  PROVE  \E m \in Nat, n \in Nat :
           /\ m = Len(kept) /\ DOMAIN kept = 1 .. m
           /\ n > 0 /\ n <= WindowEnd - idx /\ m + n <= MaxKept
           /\ n = WindowEnd - idx \/ m + n = MaxKept
           /\ kept' \in Seq(Nat) /\ Len(kept') = m + n /\ DOMAIN kept' = 1 .. m + n
           /\ \A i \in 1 .. m : kept'[i] = kept[i]
           /\ \A i \in m + 1 .. m + n : kept'[i] = idx + (i - m)
<1> DEFINE n == Min2(WindowEnd - idx, MaxKept - Len(kept))
           window == [i \in 1 .. n |-> idx + i]
<1>1. /\ idx \in Nat /\ kept \in Seq(Nat) /\ Len(kept) \in Nat /\ MiddleLen \in Int
      /\ Len(kept) < MaxKept /\ idx < MiddleLen
  BY MiddleIsTyped DEF SqueezeTyped, Rescue, Scanning
<1>2. WindowEnd \in Nat /\ WindowEnd > idx /\ WindowEnd <= MiddleLen
  BY <1>1, Parameters DEF WindowEnd, Min2
<1>3. /\ n \in Nat /\ n > 0 /\ n <= WindowEnd - idx /\ Len(kept) + n <= MaxKept
      /\ n = WindowEnd - idx \/ Len(kept) + n = MaxKept
  BY <1>1, <1>2, Parameters DEF Min2
<1>4. kept' = kept \o window
  BY DEF Rescue
<1> HIDE DEF n
<1>5. window \in Seq(Nat) /\ Len(window) = n /\ \A i \in 1 .. n : window[i] = idx + i
  BY <1>1, <1>3
<1> HIDE DEF window
<1>6. PICK m \in Nat : m = Len(kept)
  BY <1>1
<1>7. /\ kept' \in Seq(Nat) /\ Len(kept') = m + n
      /\ \A i \in 1 .. m + n : kept'[i] = IF i <= m THEN kept[i] ELSE window[i - m]
  BY <1>1, <1>4, <1>5, <1>6, ConcatProperties
<1>8. DOMAIN kept = 1 .. m /\ DOMAIN kept' = 1 .. m + n
  BY <1>1, <1>6, <1>7
<1>9. \A i \in 1 .. m : kept'[i] = kept[i]
  BY <1>3, <1>7
<1>10. \A i \in m + 1 .. m + n : kept'[i] = idx + (i - m)
  <2> SUFFICES ASSUME NEW i \in m + 1 .. m + n PROVE kept'[i] = idx + (i - m)
    OBVIOUS
  <2>1. i \in 1 .. m + n /\ ~(i <= m) /\ i - m \in 1 .. n
    BY <1>3
  <2> QED BY <1>5, <1>7, <2>1
<1> QED BY <1>1, <1>3, <1>6, <1>7, <1>8, <1>9, <1>10

(* The failure lines scanned and rescued after a step that moves idx on. *)
LEMMA FailingGrows ==
  ASSUME SqueezeTyped, idx' \in Nat, idx <= idx', UNCHANGED fails
  PROVE  /\ Failing \subseteq Failing'
         /\ \A i \in Failing' : i \in Failing \/ i \in idx + 1 .. idx'
         /\ \A i \in idx + 1 .. idx' : i \in Failing' <=> mustKeep(i)
         /\ Failing \subseteq 1 .. idx
BY DEF SqueezeTyped, Failing, mustKeep

LEMMA SetOfMissing ==
  ASSUME SqueezeTyped
  PROVE  IsFiniteSet(Missing) /\ Cardinality(Missing) \in Nat
<1>1. IsFiniteSet(1 .. idx)
  BY FS_Interval DEF SqueezeTyped
<1>2. Missing \subseteq 1 .. idx
  BY DEF Missing, Failing
<1> QED BY <1>1, <1>2, FS_Subset, FS_CardinalityType

LEMMA RescueKeeps ==
  ASSUME SqueezeIInv, Rescue
  PROVE  /\ Placed' /\ KeptInOrder'
         /\ NoLossBelowCap' /\ SilentLossBounded'
<1>1. PICK m \in Nat, n \in Nat :
           /\ m = Len(kept) /\ DOMAIN kept = 1 .. m
           /\ n > 0 /\ n <= WindowEnd - idx /\ m + n <= MaxKept
           /\ n = WindowEnd - idx \/ m + n = MaxKept
           /\ kept' \in Seq(Nat) /\ Len(kept') = m + n /\ DOMAIN kept' = 1 .. m + n
           /\ \A i \in 1 .. m : kept'[i] = kept[i]
           /\ \A i \in m + 1 .. m + n : kept'[i] = idx + (i - m)
  BY RescueAppends DEF SqueezeIInv
<1>2. /\ SqueezeTyped /\ Placed /\ m < MaxKept /\ idx < MiddleLen /\ MiddleLen \in Int
      /\ idx \in Nat /\ dropped \in Nat
      /\ MaxKept \in Nat /\ ContextAfter \in Nat
  <2>1. SqueezeTyped /\ Placed
    BY DEF SqueezeIInv
  <2>2. MiddleLen \in Int
    BY <2>1, MiddleIsTyped
  <2>3. MaxKept \in Nat /\ ContextAfter \in Nat
    BY Parameters
  <2> QED BY <1>1, <2>1, <2>2, <2>3 DEF SqueezeTyped, Rescue, Scanning
<1>3. /\ WindowEnd \in Nat /\ idx < WindowEnd /\ WindowEnd <= MiddleLen
      /\ WindowEnd - idx <= ContextAfter + 1
  BY <1>2 DEF WindowEnd, Min2
<1>4. /\ idx' = WindowEnd /\ MiddleLen' = MiddleLen /\ dropped' = dropped
      /\ UNCHANGED fails
  BY DEF Rescue, blob, MiddleLen, LineCount
<1>5. /\ \A i \in 1 .. m : kept'[i] = kept[i] /\ kept'[i] \in Nat /\ 1 <= kept'[i] /\ kept'[i] <= idx
      /\ \A i \in m + 1 .. m + n : kept'[i] = idx + (i - m) /\ idx < kept'[i] /\ kept'[i] <= WindowEnd
  <2>1. \A i \in 1 .. m : kept[i] \in 1 .. idx
    BY <1>1, <1>2 DEF Placed
  <2>2. ASSUME NEW i \in m + 1 .. m + n
        PROVE  kept'[i] = idx + (i - m) /\ idx < kept'[i] /\ kept'[i] <= WindowEnd
    <3>1. kept'[i] = idx + (i - m)
      BY <1>1
    <3> QED BY <1>1, <1>2, <1>3, <3>1
  <2> QED BY <1>1, <1>2, <2>1, <2>2
<1>6. Placed'
  <2>1. ASSUME NEW i \in DOMAIN kept' PROVE kept'[i] \in 1 .. WindowEnd
    <3>1. i \in 1 .. m \/ i \in m + 1 .. m + n
      BY <1>1
    <3>2. CASE i \in 1 .. m
      BY <1>2, <1>3, <1>5, <3>2
    <3>3. CASE i \in m + 1 .. m + n
      <4>1. kept'[i] = idx + (i - m) /\ idx < kept'[i] /\ kept'[i] <= WindowEnd /\ i \in Int
        BY <1>5, <3>3
      <4> QED BY <1>1, <1>2, <1>3, <4>1
    <3> QED BY <3>1, <3>2, <3>3
  <2>2. Len(kept') <= MaxKept
    BY <1>1, <1>2
  <2> QED BY <1>3, <1>4, <2>1, <2>2 DEF Placed
<1>7. KeptInOrder'
  <2>1. ASSUME NEW i \in 1 .. m + n, NEW j \in 1 .. m + n, i < j
        PROVE  kept'[i] < kept'[j]
    <3>1. CASE j <= m
      <4>1. i \in 1 .. m /\ j \in 1 .. m
        BY <2>1, <3>1
      <4>2. kept[i] < kept[j]
        BY <1>1, <2>1, <4>1 DEF SqueezeIInv, KeptInOrder
      <4> QED BY <1>5, <4>1, <4>2
    <3>2. CASE i <= m /\ m < j
      <4>1. i \in 1 .. m /\ j \in m + 1 .. m + n
        BY <3>2
      <4>2. kept'[i] \in Nat /\ kept'[i] <= idx /\ idx < kept'[j] /\ kept'[j] = idx + (j - m)
        BY <1>5, <4>1
      <4> QED BY <1>2, <4>2
    <3>3. CASE m < i
      <4>1. i \in m + 1 .. m + n /\ j \in m + 1 .. m + n
        BY <2>1, <3>3
      <4>2. kept'[i] = idx + (i - m) /\ kept'[j] = idx + (j - m)
        BY <1>5, <4>1
      <4> QED BY <1>2, <2>1, <4>2
    <3> QED BY <3>1, <3>2, <3>3
  <2> QED BY <1>1, <2>1 DEF KeptInOrder
(* What is rescued is the head of the window, so what is missing after the   *)
(* step is in the rest of it.                                                *)
<1>8. Missing = {} /\ dropped = 0
  BY <1>1, <1>2 DEF SqueezeIInv, NoLossBelowCap
<1>9. Missing' \subseteq idx + n + 1 .. WindowEnd
  <2> SUFFICES ASSUME NEW l \in Failing', l \notin Kept' PROVE l \in idx + n + 1 .. WindowEnd
    BY DEF Missing
  <2>1. l \in Failing \/ l \in idx + 1 .. WindowEnd
    BY <1>2, <1>3, <1>4, FailingGrows
  <2>2. l \notin Failing
    <3>1. Kept \subseteq Kept'
      <4> SUFFICES ASSUME NEW i \in DOMAIN kept PROVE kept[i] \in Kept'
        BY DEF Kept
      <4>1. i \in DOMAIN kept' /\ kept'[i] = kept[i]
        BY <1>1, <1>2
      <4> QED BY <4>1 DEF Kept
    <3> QED BY <1>8, <3>1 DEF Missing
  <2>3. l \notin idx + 1 .. idx + n
    <3> SUFFICES ASSUME l \in idx + 1 .. idx + n PROVE FALSE
      OBVIOUS
    <3>1. PICK i : i = m + (l - idx)
      OBVIOUS
    <3>2. i \in m + 1 .. m + n /\ l \in Int /\ idx + (i - m) = l
      BY <1>2, <3>1
    <3>3. i \in DOMAIN kept' /\ kept'[i] = l
      BY <1>1, <1>5, <3>2
    <3> QED BY <3>3 DEF Kept
  <2> QED BY <1>2, <2>1, <2>2, <2>3
<1>10. NoLossBelowCap'
  <2> SUFFICES ASSUME Len(kept') < MaxKept PROVE Missing' = {} /\ dropped' = 0
    BY DEF NoLossBelowCap
  <2>1. n = WindowEnd - idx
    BY <1>1, <1>2
  <2>2. idx + n + 1 .. WindowEnd = {}
    BY <1>2, <1>3, <2>1
  <2> QED BY <1>4, <1>8, <1>9, <2>2
<1>11. SilentLossBounded'
  <2>1. /\ IsFiniteSet(idx + n + 1 .. WindowEnd)
        /\ Cardinality(idx + n + 1 .. WindowEnd) =
             IF idx + n + 1 > WindowEnd THEN 0 ELSE WindowEnd - (idx + n + 1) + 1
    BY <1>2, <1>3, FS_Interval
  <2>2. Cardinality(idx + n + 1 .. WindowEnd) <= ContextAfter
    BY <1>1, <1>2, <1>3, <2>1
  <2>3. IsFiniteSet(Missing') /\ Cardinality(Missing') <= Cardinality(idx + n + 1 .. WindowEnd)
    BY <1>9, <2>1, FS_Subset
  <2>4. Cardinality(Missing') \in Nat /\ Cardinality(idx + n + 1 .. WindowEnd) \in Nat
    BY <2>1, <2>3, FS_CardinalityType
  <2>5. Cardinality(Missing') - dropped' \in 0 .. ContextAfter
    BY <1>2, <1>4, <1>8, <2>2, <2>3, <2>4
  <2> QED BY <2>5 DEF SilentLossBounded
<1> QED BY <1>6, <1>7, <1>10, <1>11

(* Past the cap every failure line that is scanned is counted. *)
LEMMA CountingKeeps ==
  ASSUME SqueezeIInv, CountOverCap
  PROVE  Placed' /\ KeptInOrder' /\ NoLossBelowCap' /\ SilentLossBounded'
<1>1. /\ SqueezeTyped /\ Placed /\ idx \in Nat /\ idx < MiddleLen /\ MiddleLen \in Int
      /\ Len(kept) >= MaxKept /\ Len(kept) \in Nat /\ MaxKept \in Nat /\ dropped \in Nat
  <2>1. SqueezeTyped /\ Placed
    BY DEF SqueezeIInv
  <2>2. MiddleLen \in Int /\ MaxKept \in Nat
    BY <2>1, MiddleIsTyped, Parameters
  <2> QED BY <2>1, <2>2 DEF SqueezeTyped, CountOverCap, Scanning
<1>2. /\ idx' = idx + 1 /\ kept' = kept /\ MiddleLen' = MiddleLen /\ UNCHANGED fails
      /\ dropped' = dropped + (IF mustKeep(idx + 1) THEN 1 ELSE 0)
  BY DEF CountOverCap, blob, MiddleLen, LineCount
<1>3. \A i \in DOMAIN kept : kept[i] \in 1 .. idx
  BY <1>1 DEF Placed
<1>4. Placed'
  BY <1>1, <1>2, <1>3 DEF Placed
<1>5. KeptInOrder' /\ NoLossBelowCap'
  BY <1>1, <1>2 DEF SqueezeIInv, KeptInOrder, NoLossBelowCap
<1>6. idx + 1 \notin Missing /\ idx + 1 \notin Kept /\ Kept' = Kept
  BY <1>1, <1>2, <1>3 DEF Missing, Failing, Kept
<1>7. Failing' = IF mustKeep(idx + 1) THEN Failing \cup {idx + 1} ELSE Failing
  <2>1. /\ \A i \in Failing' : i \in Failing \/ i \in idx + 1 .. idx'
        /\ \A i \in idx + 1 .. idx' : i \in Failing' <=> mustKeep(i)
        /\ Failing \subseteq Failing'
    BY <1>1, <1>2, FailingGrows
  <2>2. \A i : i \in idx + 1 .. idx' <=> i = idx + 1
    BY <1>1, <1>2
  <2> QED BY <2>1, <2>2
<1>8. Missing' = IF mustKeep(idx + 1) THEN Missing \cup {idx + 1} ELSE Missing
  BY <1>6, <1>7 DEF Missing
<1>9. /\ IsFiniteSet(Missing) /\ Cardinality(Missing) \in Nat
      /\ Cardinality(Missing) - dropped \in 0 .. ContextAfter
  BY <1>1, SetOfMissing DEF SqueezeIInv, SilentLossBounded
<1>10. Cardinality(Missing') - dropped' = Cardinality(Missing) - dropped
  <2>1. CASE mustKeep(idx + 1)
    <3>1. Cardinality(Missing') = Cardinality(Missing) + 1
      BY <1>6, <1>8, <1>9, <2>1, FS_AddElement
    <3> QED BY <1>1, <1>2, <1>9, <2>1, <3>1
  <2>2. CASE ~mustKeep(idx + 1)
    BY <1>1, <1>2, <1>8, <1>9, <2>2
  <2> QED BY <2>1, <2>2
<1>11. SilentLossBounded'
  <2>1. ContextAfter' = ContextAfter
    OBVIOUS
  <2> QED BY <1>9, <1>10 DEF SilentLossBounded
<1> QED BY <1>4, <1>5, <1>11

LEMMA SkippingKeeps ==
  ASSUME SqueezeIInv, SkipPlain
  PROVE  Placed' /\ KeptInOrder' /\ NoLossBelowCap' /\ SilentLossBounded'
<1>1. /\ SqueezeTyped /\ Placed /\ idx \in Nat /\ idx < MiddleLen /\ MiddleLen \in Int
  BY MiddleIsTyped DEF SqueezeIInv, SqueezeTyped, SkipPlain, Scanning
<1>2. /\ idx' = idx + 1 /\ kept' = kept /\ MiddleLen' = MiddleLen /\ UNCHANGED <<fails, dropped>>
      /\ ~mustKeep(idx + 1)
  BY DEF SkipPlain, blob, MiddleLen, LineCount
<1>3. \A i \in DOMAIN kept : kept[i] \in 1 .. idx
  BY <1>1 DEF Placed
<1>4. Placed'
  BY <1>1, <1>2, <1>3 DEF Placed
<1>5. Failing' = Failing
  <2>1. /\ \A i \in Failing' : i \in Failing \/ i \in idx + 1 .. idx'
        /\ \A i \in idx + 1 .. idx' : i \in Failing' <=> mustKeep(i)
        /\ Failing \subseteq Failing'
    BY <1>1, <1>2, FailingGrows
  <2>2. \A i : i \in idx + 1 .. idx' <=> i = idx + 1
    BY <1>1, <1>2
  <2> QED BY <1>2, <2>1, <2>2
<1>6. Missing' = Missing
  BY <1>2, <1>5 DEF Missing, Kept
<1> QED BY <1>2, <1>4, <1>6 DEF SqueezeIInv, KeptInOrder, NoLossBelowCap, SilentLossBounded

LEMMA SqueezeInitIInv == ASSUME SqueezeInit PROVE SqueezeIInv
<1>1. fails \in Seq(BOOLEAN)
  <2>1. PICK n \in 1 .. MaxLines : fails \in [1 .. n -> BOOLEAN]
    BY DEF SqueezeInit
  <2>2. n \in Nat
    BY Parameters
  <2> QED BY <2>1, <2>2, SeqDef
<1>2. kept = <<>> /\ kept \in Seq(Nat) /\ Len(kept) = 0 /\ DOMAIN kept = {} /\ idx = 0 /\ dropped = 0
  BY DEF SqueezeInit
<1>3. SqueezeTyped
  BY <1>1, <1>2 DEF SqueezeInit, SqueezeTyped
<1>4. Placed /\ KeptInOrder
  BY <1>2, Parameters DEF Placed, KeptInOrder
<1>5. Missing = {} /\ Cardinality(Missing) = 0
  <2>1. Missing = {}
    BY <1>2 DEF Missing, Failing
  <2> QED BY <2>1, FS_EmptySet
<1> QED BY <1>2, <1>3, <1>4, <1>5, Parameters DEF SqueezeIInv, NoLossBelowCap, SilentLossBounded

LEMMA SqueezeNextIInv == ASSUME SqueezeIInv, [SqueezeNext]_squeezeVars PROVE SqueezeIInv'
<1>1. SqueezeTyped
  BY DEF SqueezeIInv
<1>2. CASE UNCHANGED <<blob, idx, kept, dropped>> /\ stage' \in {"start", "scan", "unchanged", "squeezed"}
  BY <1>2 DEF SqueezeIInv, SqueezeTyped, Placed, KeptInOrder, NoLossBelowCap, SilentLossBounded, Missing, Failing,
     Kept, mustKeep, MiddleLen, LineCount, blob
<1>3. CASE Rescue
  <2>1. idx' \in Nat /\ kept' \in Seq(Nat)
    <3>1. MiddleLen \in Int /\ idx \in Nat /\ idx < MiddleLen
      BY <1>1, <1>3, MiddleIsTyped DEF SqueezeTyped, Rescue, Scanning
    <3>2. idx' \in Nat
      BY <1>3, <3>1, Parameters DEF Rescue, WindowEnd, Min2
    <3> QED BY <1>3, <3>2, RescueAppends DEF SqueezeIInv
  <2>2. SqueezeTyped'
    BY <1>1, <1>3, <2>1 DEF Rescue, SqueezeTyped, blob
  <2> QED BY <1>3, <2>2, RescueKeeps DEF SqueezeIInv
<1>4. CASE CountOverCap
  <2>1. SqueezeTyped'
    BY <1>1, <1>4 DEF CountOverCap, SqueezeTyped, blob
  <2> QED BY <1>4, <2>1, CountingKeeps DEF SqueezeIInv
<1>5. CASE SkipPlain
  <2>1. SqueezeTyped'
    BY <1>1, <1>5 DEF SkipPlain, SqueezeTyped, blob
  <2> QED BY <1>5, <2>1, SkippingKeeps DEF SqueezeIInv
<1>6. CASE PassThrough \/ Start \/ Finish \/ Returned \/ UNCHANGED squeezeVars
  <2>1. UNCHANGED <<blob, idx, kept, dropped>> /\ stage' \in {"start", "scan", "unchanged", "squeezed"}
    BY <1>1, <1>6 DEF PassThrough, Start, Finish, Returned, squeezeVars, blob, SqueezeTyped
  <2> QED BY <1>2, <2>1
<1> QED BY <1>3, <1>4, <1>5, <1>6 DEF SqueezeNext

LEMMA SqueezeInvariance == SqueezeSpec => []SqueezeIInv
<1>1. SqueezeInit => SqueezeIInv
  BY SqueezeInitIInv
<1>2. SqueezeIInv /\ [SqueezeNext]_squeezeVars => SqueezeIInv'
  BY SqueezeNextIInv
<1> QED BY <1>1, <1>2, PTL DEF SqueezeSpec

(* Every variable keeps its type, and what is kept stays within the cap and  *)
(* behind the scan.                                                          *)
THEOREM SqueezeTypeCorrect == SqueezeSpec => [](SqueezeTyped /\ Placed)
<1>1. SqueezeIInv => SqueezeTyped /\ Placed
  BY DEF SqueezeIInv
<1> QED BY <1>1, SqueezeInvariance, PTL

(* No line is repeated or moved, however failures and windows overlap        *)
(* (compress.go:119).                                                        *)
THEOREM OrderIsKept == SqueezeSpec => []KeptInOrder
<1>1. SqueezeIInv => KeptInOrder
  BY DEF SqueezeIInv
<1> QED BY <1>1, SqueezeInvariance, PTL

(* Below the cap every failure line scanned is rescued                       *)
(* (compress.go:98-121).                                                     *)
THEOREM NothingLostBelowCap == SqueezeSpec => []NoLossBelowCap
<1>1. SqueezeIInv => NoLossBelowCap
  BY DEF SqueezeIInv
<1> QED BY <1>1, SqueezeInvariance, PTL

(* The failure lines that are neither kept nor counted are at most the       *)
(* context of one (compress.go:113-119).                                     *)
THEOREM SilentLossIsBounded == SqueezeSpec => []SilentLossBounded
<1>1. SqueezeIInv => SilentLossBounded
  BY DEF SqueezeIInv
<1> QED BY <1>1, SqueezeInvariance, PTL
-----------------------------------------------------------------------------
(* The diff pass.  What it writes of a text of len lines. *)
DiffItems(len) ==
  ({"line"} \X (1 .. len)) \cup ({"context"} \X Nat) \cup ({"summary"} \X (1 .. len) \X (1 .. len))

Has(items, item) == \E k \in DOMAIN items : items[k] = item

DiffTexts(len) == Seq(DiffItems(len))

LEMMA StandingIsInt ==
  ASSUME NEW len \in Nat, NEW item \in DiffItems(len)
  PROVE  Standing(item) \in Int
<1>1. CASE item \in {"line"} \X (1 .. len)
  BY <1>1 DEF Standing
<1>2. CASE item \in {"context"} \X Nat
  BY <1>2 DEF Standing
<1>3. CASE item \in {"summary"} \X (1 .. len) \X (1 .. len)
  <2>1. item[1] = "summary" /\ item[2] \in Int /\ item[3] \in Int
    BY <1>3
  <2> QED BY <2>1 DEF Standing
<1> QED BY <1>1, <1>2, <1>3 DEF DiffItems

IsCount(f, items) ==
  /\ f[0] = 0
  /\ \A n \in 0 .. Len(items) : f[n] \in Int
  /\ \A n \in 1 .. Len(items) : f[n] = f[n - 1] + Standing(items[n])
  /\ StandsFor(items) = f[Len(items)]

LEMMA CountIs ==
  ASSUME NEW size \in Nat, NEW items \in DiffTexts(size)
  PROVE  \E f : IsCount(f, items)
<1> DEFINE Counting(f) ==
             [n \in 0 .. Len(items) |-> IF n = 0 THEN 0 ELSE f[n - 1] + Standing(items[n])]
<1>1. PICK upTo : upTo = CHOOSE f : f = Counting(f)
  OBVIOUS
<1>2. StandsFor(items) = upTo[Len(items)]
  BY <1>1 DEF StandsFor
<1>3. PICK len \in Nat : len = Len(items)
  BY DEF DiffTexts
<1>4. \A n \in 1 .. len : Standing(items[n]) \in Int
  <2>1. \A n \in 1 .. len : items[n] \in DiffItems(size)
    BY <1>3 DEF DiffTexts
  <2> QED BY <2>1, StandingIsInt
<1>5. PICK step : step = [n \in 1 .. len |-> [u \in Int |-> u + Standing(items[n])]]
  OBVIOUS
<1>6. step \in [1 .. len -> [Int -> Int]]
  BY <1>4, <1>5
<1>7. PICK g : g \in [0 .. len -> Int] /\ IsRecursion(g, 0, len, step)
  <2>1. PICK S, zero : S = Int /\ zero = 0
    OBVIOUS
  <2>2. zero \in S /\ step \in [1 .. len -> [S -> S]]
    BY <1>6, <2>1
  <2>3. \E f : f \in [0 .. len -> S] /\ IsRecursion(f, zero, len, step)
    BY <2>2, RecursionExists
  <2> QED BY <2>1, <2>3
<1>8. ASSUME NEW n \in 0 .. len
      PROVE  g[n] = IF n = 0 THEN 0 ELSE g[n - 1] + Standing(items[n])
  <2>1. CASE n = 0
    BY <1>7, <2>1 DEF IsRecursion
  <2>2. CASE n # 0
    <3>1. n \in 1 .. len /\ n - 1 \in 0 .. len
      BY <2>2
    <3>2. g[n] = step[n][g[n - 1]] /\ g[n - 1] \in Int
      BY <1>7, <3>1 DEF IsRecursion
    <3>3. step[n][g[n - 1]] = g[n - 1] + Standing(items[n])
      BY <1>5, <3>1, <3>2
    <3> QED BY <2>2, <3>2, <3>3
  <2> QED BY <2>1, <2>2
<1>9. g = Counting(g)
  BY <1>3, <1>7, <1>8
<1>10. upTo = Counting(upTo)
  <2> HIDE DEF Counting
  <2> QED BY <1>1, <1>9
<1>11. \A n \in 0 .. len : upTo[n] = IF n = 0 THEN 0 ELSE upTo[n - 1] + Standing(items[n])
  <2>1. PICK h : h = Counting(upTo)
    OBVIOUS
  <2>2. \A n \in 0 .. len : h[n] = IF n = 0 THEN 0 ELSE upTo[n - 1] + Standing(items[n])
    BY <1>3, <2>1
  <2> HIDE DEF Counting
  <2> QED BY <1>10, <2>1, <2>2
<1> HIDE DEF Counting
<1>12. upTo[0] = 0 /\ \A n \in 1 .. len : upTo[n] = upTo[n - 1] + Standing(items[n])
  BY <1>11
<1> DEFINE P == {n \in 0 .. len : upTo[n] \in Int}
<1>13. 0 \in P
  BY <1>12
<1>14. ASSUME NEW n \in 1 .. len, n - 1 \in P  PROVE n \in P
  <2>1. upTo[n - 1] \in Int /\ Standing(items[n]) \in Int /\ upTo[n] = upTo[n - 1] + Standing(items[n])
    BY <1>4, <1>12, <1>14
  <2>2. upTo[n] \in Int
    BY <2>1
  <2> QED BY <2>2
<1>15. \A n \in 0 .. len : n \in P
  <2> HIDE DEF P
  <2> QED BY <1>13, <1>14, IntervalInduction
<1> QED BY <1>2, <1>3, <1>12, <1>15 DEF IsCount

(* Counts add up. *)
LEMMA CountsAdd ==
  ASSUME NEW size \in Nat, NEW a \in DiffTexts(size), NEW b \in DiffTexts(size)
  PROVE  /\ a \o b \in DiffTexts(size)
         /\ StandsFor(a) \in Int /\ StandsFor(b) \in Int
         /\ StandsFor(a \o b) = StandsFor(a) + StandsFor(b)
<1>1. PICK m \in Nat, k \in Nat : m = Len(a) /\ k = Len(b)
  BY DEF DiffTexts
<1>2. PICK c : c = a \o b
  OBVIOUS
<1>3. /\ c \in DiffTexts(size) /\ Len(c) = m + k
      /\ \A n \in 1 .. m + k : c[n] = IF n <= m THEN a[n] ELSE b[n - m]
  BY <1>1, <1>2, ConcatProperties DEF DiffTexts
<1>4. PICK f : IsCount(f, a)
  BY CountIs
<1>5. PICK g : IsCount(g, b)
  BY CountIs
<1>6. PICK h : IsCount(h, c)
  BY <1>3, CountIs
<1>7. /\ f[0] = 0 /\ \A n \in 0 .. m : f[n] \in Int
      /\ \A n \in 1 .. m : f[n] = f[n - 1] + Standing(a[n])
      /\ StandsFor(a) = f[m]
  BY <1>1, <1>4 DEF IsCount
<1>8. /\ g[0] = 0 /\ \A n \in 0 .. k : g[n] \in Int
      /\ \A n \in 1 .. k : g[n] = g[n - 1] + Standing(b[n])
      /\ StandsFor(b) = g[k]
  BY <1>1, <1>5 DEF IsCount
<1>9. /\ h[0] = 0
      /\ \A n \in 1 .. m + k : h[n] = h[n - 1] + Standing(c[n])
      /\ StandsFor(c) = h[m + k]
  BY <1>3, <1>6 DEF IsCount
<1> DEFINE P == {n \in 0 .. m : h[n] = f[n]}
<1>10. 0 \in P
  BY <1>7, <1>9
<1>11. ASSUME NEW n \in 1 .. m, n - 1 \in P  PROVE n \in P
  <2>1. n \in 1 .. m + k /\ c[n] = a[n] /\ h[n - 1] = f[n - 1]
    BY <1>3, <1>11
  <2>2. h[n] = f[n]
    BY <1>7, <1>9, <2>1
  <2> QED BY <2>2
<1>12. h[m] = f[m]
  <2>1. \A n \in 0 .. m : n \in P
    <3> HIDE DEF P
    <3> QED BY <1>10, <1>11, IntervalInduction
  <2> QED BY <2>1
<1> DEFINE Q == {n \in 0 .. k : h[m + n] = f[m] + g[n]}
<1>13. 0 \in Q
  BY <1>7, <1>8, <1>12
<1>14. ASSUME NEW n \in 1 .. k, n - 1 \in Q  PROVE n \in Q
  <2>1. m + n \in 1 .. m + k /\ ~(m + n <= m) /\ (m + n) - m = n /\ (m + n) - 1 = m + (n - 1)
    OBVIOUS
  <2>2. c[m + n] = b[n]
    BY <1>3, <2>1
  <2>3. h[m + n] = h[m + (n - 1)] + Standing(b[n])
    BY <1>9, <2>1, <2>2
  <2>4. h[m + (n - 1)] = f[m] + g[n - 1]
    BY <1>14
  <2>5. g[n] = g[n - 1] + Standing(b[n])
    BY <1>8
  <2>6. n - 1 \in 0 .. k /\ f[m] \in Int /\ g[n - 1] \in Int
    BY <1>7, <1>8
  <2>7. Standing(b[n]) \in Int
    <3>1. b[n] \in DiffItems(size)
      BY <1>1 DEF DiffTexts
    <3> QED BY <3>1, StandingIsInt
  <2>8. h[m + n] = f[m] + g[n]
    BY <2>3, <2>4, <2>5, <2>6, <2>7
  <2> QED BY <2>8
<1>15. h[m + k] = f[m] + g[k]
  <2>1. \A n \in 0 .. k : n \in Q
    <3> HIDE DEF Q
    <3> QED BY <1>13, <1>14, IntervalInduction
  <2> QED BY <2>1
<1>16. StandsFor(a) \in Int /\ StandsFor(b) \in Int
  BY <1>7, <1>8
<1>17. StandsFor(c) = StandsFor(a) + StandsFor(b)
  BY <1>7, <1>8, <1>9, <1>15
<1> QED BY <1>2, <1>3, <1>16, <1>17

LEMMA OneStands ==
  ASSUME NEW size \in Nat, NEW item \in DiffItems(size)
  PROVE  /\ <<item>> \in DiffTexts(size)
         /\ StandsFor(<<item>>) = Standing(item)
<1>1. PICK items : items = <<item>>
  OBVIOUS
<1>2. items \in DiffTexts(size) /\ Len(items) = 1 /\ items[1] = item
  BY <1>1 DEF DiffTexts
<1>3. PICK f : IsCount(f, items)
  BY <1>2, CountIs
<1>4. f[1] = f[0] + Standing(item) /\ f[0] = 0 /\ StandsFor(items) = f[1]
  <2>1. 1 \in 1 .. Len(items) /\ 1 - 1 = 0
    BY <1>2
  <2> QED BY <1>2, <1>3, <2>1 DEF IsCount
<1>5. Standing(item) \in Int
  BY StandingIsInt
<1>6. StandsFor(items) = Standing(item)
  BY <1>4, <1>5
<1> QED BY <1>1, <1>2, <1>6

(* Lines a to b stand for themselves. *)
LEMMA VerbatimIs ==
  ASSUME NEW size \in Nat, NEW a \in 1 .. size + 1, NEW b \in 0 .. size, a <= b + 1
  PROVE  /\ Verbatim(a, b) \in DiffTexts(size)
         /\ StandsFor(Verbatim(a, b)) = b - a + 1
         /\ \A i \in a .. b : Has(Verbatim(a, b), Line(i))
<1>1. PICK items : items = Verbatim(a, b)
  OBVIOUS
<1>2. PICK len \in Nat : len = b - a + 1
  OBVIOUS
<1>3. items = [n \in 1 .. len |-> Line(a + n - 1)]
  BY <1>1, <1>2 DEF Verbatim
<1>4. ASSUME NEW n \in 1 .. len
      PROVE  Line(a + n - 1) \in DiffItems(size) /\ Standing(Line(a + n - 1)) = 1
  <2>1. a + n - 1 \in 1 .. size
    BY <1>2
  <2> QED BY <2>1 DEF Line, DiffItems, Standing
<1>5. items \in DiffTexts(size) /\ Len(items) = len
      /\ \A n \in 1 .. len : items[n] = Line(a + n - 1)
  <2>1. \A n \in 1 .. len : items[n] = Line(a + n - 1)
    BY <1>3
  <2>2. items \in [1 .. len -> DiffItems(size)]
    BY <1>3, <1>4
  <2>3. items \in DiffTexts(size) /\ Len(items) = len
    BY <2>2 DEF DiffTexts
  <2> QED BY <2>1, <2>3
<1>6. PICK f : IsCount(f, items)
  BY <1>5, CountIs
<1>7. f[0] = 0 /\ StandsFor(items) = f[len] /\ \A n \in 1 .. len : f[n] = f[n - 1] + Standing(items[n])
  BY <1>5, <1>6 DEF IsCount
<1> DEFINE P == {n \in 0 .. len : f[n] = n}
<1>8. 0 \in P
  BY <1>7
<1>9. ASSUME NEW n \in 1 .. len, n - 1 \in P  PROVE n \in P
  <2>1. f[n - 1] = n - 1 /\ Standing(items[n]) = 1
    BY <1>4, <1>5, <1>9
  <2>2. f[n] = n
    BY <1>7, <2>1
  <2> QED BY <2>2
<1>10. f[len] = len
  <2>1. \A n \in 0 .. len : n \in P
    <3> HIDE DEF P
    <3> QED BY <1>8, <1>9, IntervalInduction
  <2> QED BY <2>1
<1>11. ASSUME NEW i \in a .. b  PROVE Has(items, Line(i))
  <2>1. PICK k \in 1 .. len : k = i - a + 1 /\ a + k - 1 = i
    BY <1>2
  <2>2. items[k] = Line(a + k - 1) /\ k \in DOMAIN items
    BY <1>3
  <2> QED BY <2>1, <2>2 DEF Has
<1> QED BY <1>1, <1>2, <1>5, <1>7, <1>10, <1>11

LEMMA FlushedContextIs ==
  ASSUME NEW size \in Nat, NEW i \in 0 .. size, NEW run \in 0 .. i
  PROVE  /\ FlushedContext(i, run) \in DiffTexts(size)
         /\ StandsFor(FlushedContext(i, run)) = run
<1>1. KeepContext \in Nat /\ MaxContext \in Nat /\ 2 * KeepContext + 1 <= MaxContext
  BY DiffAssumption
<1>2. CASE run <= MaxContext
  <2>1. FlushedContext(i, run) = Verbatim(i - run + 1, i)
    BY <1>2 DEF FlushedContext
  <2>2. PICK a \in 1 .. size + 1 : a = i - run + 1
    OBVIOUS
  <2>3. a <= i + 1 /\ i - a + 1 = run
    BY <2>2
  <2> QED BY <2>1, <2>2, <2>3, VerbatimIs
<1>3. CASE ~(run <= MaxContext)
  <2>1. PICK keep \in Nat : keep = KeepContext
    BY <1>1
  <2>2. 2 * keep + 1 < run
    BY <1>1, <1>3, <2>1
  <2>3. PICK u, w, c : /\ u = Verbatim(i - run + 1, i - run + keep)
                       /\ w = Verbatim(i - keep + 1, i)
                       /\ c = <<"context", run - 2 * keep>>
    OBVIOUS
  <2>4. FlushedContext(i, run) = (u \o <<c>>) \o w
    BY <1>3, <2>1, <2>3 DEF FlushedContext
  <2>5. u \in DiffTexts(size) /\ StandsFor(u) = keep
    <3>1. PICK a \in 1 .. size + 1, b \in 0 .. size : a = i - run + 1 /\ b = i - run + keep
      BY <2>2
    <3>2. a <= b + 1 /\ b - a + 1 = keep
      BY <3>1
    <3> QED BY <2>3, <3>1, <3>2, VerbatimIs
  <2>6. w \in DiffTexts(size) /\ StandsFor(w) = keep
    <3>1. PICK a \in 1 .. size + 1 : a = i - keep + 1
      BY <2>2
    <3>2. a <= i + 1 /\ i - a + 1 = keep
      BY <3>1
    <3> QED BY <2>3, <3>1, <3>2, VerbatimIs
  <2>7. c \in DiffItems(size) /\ Standing(c) = run - 2 * keep
    <3>1. run - 2 * keep \in Nat
      BY <2>2
    <3> QED BY <2>3, <3>1 DEF DiffItems, Standing
  <2>8. <<c>> \in DiffTexts(size) /\ StandsFor(<<c>>) = run - 2 * keep
    BY <2>7, OneStands
  <2>9. u \o <<c>> \in DiffTexts(size) /\ StandsFor(u \o <<c>>) = keep + (run - 2 * keep)
    BY <2>5, <2>8, CountsAdd
  <2>10. /\ (u \o <<c>>) \o w \in DiffTexts(size)
         /\ StandsFor((u \o <<c>>) \o w) = (keep + (run - 2 * keep)) + keep
    BY <2>6, <2>9, CountsAdd
  <2>11. (keep + (run - 2 * keep)) + keep = run
    OBVIOUS
  <2> QED BY <2>4, <2>10, <2>11
<1> QED BY <1>2, <1>3

(* What compactUnchangedContext has of the n lines from a on: all of them    *)
(* accounted for, and every one that is no context.                          *)
CompactStates(len) == [res : DiffTexts(len), run : Nat]
HasCompacted(c, len, a, n) ==
  /\ c \in CompactStates(len)
  /\ c.run <= n /\ StandsFor(c.res) = n - c.run
  /\ \A i \in a .. a + n - 1 :
       diff[i] # "ctx" => Has(c.res, Line(i))

LEMMA StaysIn ==
  ASSUME NEW size, NEW u \in DiffTexts(size), NEW w \in DiffTexts(size), NEW x
  PROVE  /\ Has(u, x) => Has(u \o w, x)
         /\ Has(w, x) => Has(u \o w, x)
<1>1. PICK m \in Nat, j \in Nat : m = Len(u) /\ j = Len(w)
  BY DEF DiffTexts
<1>2. PICK v : v = u \o w
  OBVIOUS
<1>3. /\ v \in DiffTexts(size) /\ Len(v) = m + j
      /\ \A n \in 1 .. m + j : v[n] = IF n <= m THEN u[n] ELSE w[n - m]
  BY <1>1, <1>2, ConcatProperties DEF DiffTexts
<1>4. DOMAIN u = 1 .. m /\ DOMAIN w = 1 .. j /\ DOMAIN v = 1 .. m + j
  BY <1>1, <1>3 DEF DiffTexts
<1>5. ASSUME NEW k \in 1 .. m, u[k] = x  PROVE \E n \in DOMAIN v : v[n] = x
  <2>1. k \in 1 .. m + j /\ v[k] = u[k]
    BY <1>3
  <2> QED BY <1>4, <1>5, <2>1
<1>6. ASSUME NEW k \in 1 .. j, w[k] = x  PROVE \E n \in DOMAIN v : v[n] = x
  <2>1. PICK n \in 1 .. m + j : n = m + k /\ ~(n <= m) /\ n - m = k
    OBVIOUS
  <2>2. v[n] = w[k]
    BY <1>3, <2>1
  <2> QED BY <1>4, <1>6, <2>2
<1> QED BY <1>2, <1>4, <1>5, <1>6 DEF Has

LEMMA CompactingKeeps ==
  ASSUME NEW len \in Nat, NEW a \in 1 .. len, NEW n \in Nat, n > 0, a + n - 1 <= len,
         NEW c, HasCompacted(c, len, a, n - 1)
  PROVE  HasCompacted(Compacting(c, a + n - 1), len, a, n)
<1>1. PICK i \in 1 .. len : i = a + n - 1 /\ i - 1 = a + (n - 1) - 1 /\ i - 1 \in 0 .. len
  OBVIOUS
<1>2. PICK m \in Nat : m = n - 1 /\ n = m + 1
  OBVIOUS
<1>3. c.res \in DiffTexts(len) /\ c.run \in Nat /\ c.run <= m /\ StandsFor(c.res) = m - c.run
  BY <1>2 DEF HasCompacted, CompactStates
<1>4. \A j \in a .. i - 1 : diff[j] # "ctx" => Has(c.res, Line(j))
  BY <1>1 DEF HasCompacted
<1>5. PICK d : d = Compacting(c, i)
  OBVIOUS
<1>6. CASE diff[i] = "ctx"
  <2>1. c = [res |-> c.res, run |-> c.run]
    BY DEF HasCompacted, CompactStates
  <2>2. d = [c EXCEPT !.run = c.run + 1]
    BY <1>5, <1>6 DEF Compacting
  <2>3. d = [res |-> c.res, run |-> c.run + 1]
    BY <2>1, <2>2
  <2>4. d \in CompactStates(len) /\ d.run <= n /\ StandsFor(d.res) = n - d.run
    BY <1>2, <1>3, <2>3 DEF CompactStates
  <2>5. \A j \in a .. i : diff[j] # "ctx" => Has(d.res, Line(j))
    <3>1. \A j \in a .. i : diff[j] # "ctx" => j \in a .. i - 1
      BY <1>1, <1>6
    <3> QED BY <1>4, <2>3, <3>1
  <2> QED BY <1>1, <1>5, <2>4, <2>5 DEF HasCompacted
<1>7. CASE diff[i] # "ctx"
  <2>1. PICK f : f = FlushedContext(i - 1, c.run)
    OBVIOUS
  <2>2. f \in DiffTexts(len) /\ StandsFor(f) = c.run
    <3>1. c.run \in 0 .. i - 1
      BY <1>1, <1>2, <1>3
    <3> QED BY <1>1, <2>1, <3>1, FlushedContextIs
  <2>3. PICK u : u = c.res \o f
    OBVIOUS
  <2>4. u \in DiffTexts(len) /\ StandsFor(u) = m
    <3>1. u \in DiffTexts(len) /\ StandsFor(u) = (m - c.run) + c.run
      BY <1>3, <2>2, <2>3, CountsAdd
    <3> QED BY <1>3, <3>1
  <2>5. PICK x : x = Line(i)
    OBVIOUS
  <2>6. x \in DiffItems(len) /\ Standing(x) = 1
    BY <2>5 DEF Line, DiffItems, Standing
  <2>7. PICK w : w = Append(u, x)
    OBVIOUS
  <2>8. w = u \o <<x>>
    BY <2>4, <2>6, <2>7 DEF DiffTexts
  <2>9. <<x>> \in DiffTexts(len) /\ StandsFor(<<x>>) = 1
    BY <2>6, OneStands
  <2>10. w \in DiffTexts(len) /\ StandsFor(w) = m + 1
    BY <2>4, <2>8, <2>9, CountsAdd
  <2>11. d = [res |-> w, run |-> 0]
    BY <1>5, <1>7, <2>1, <2>3, <2>5, <2>7 DEF Compacting
  <2>12. d \in CompactStates(len) /\ d.run <= n /\ StandsFor(d.res) = n - d.run
    BY <1>2, <2>10, <2>11 DEF CompactStates
  <2>13. ASSUME NEW j \in a .. i, diff[j] # "ctx"
         PROVE  Has(w, Line(j))
    <3>1. CASE j = i
      <4>1. 1 \in DOMAIN <<x>> /\ <<x>>[1] = Line(j)
        BY <2>5, <3>1
      <4>2. Has(<<x>>, Line(j))
        BY <4>1 DEF Has
      <4> QED BY <2>4, <2>8, <2>9, <4>2, StaysIn
    <3>2. CASE j # i
      <4>1. Has(c.res, Line(j))
        BY <1>1, <1>4, <2>13, <3>2
      <4>2. Has(u, Line(j))
        BY <1>3, <2>2, <2>3, <4>1, StaysIn
      <4> QED BY <2>4, <2>8, <2>9, <4>2, StaysIn
    <3> QED BY <3>1, <3>2
  <2> QED BY <1>1, <1>5, <2>11, <2>12, <2>13 DEF HasCompacted
<1> QED BY <1>6, <1>7

(* A section compacted stands for all its lines and keeps all but context. *)
LEMMA CompactedIs ==
  ASSUME NEW len \in Nat, NEW a \in 1 .. len + 1, NEW b \in a - 1 .. len
  PROVE  /\ Compacted(a, b) \in DiffTexts(len)
         /\ StandsFor(Compacted(a, b)) = b - a + 1
         /\ \A i \in a .. b :
              diff[i] # "ctx" => Has(Compacted(a, b), Line(i))
<1>1. CASE b - a + 1 < MinSection
  <2>1. Compacted(a, b) = Verbatim(a, b)
    BY <1>1 DEF Compacted
  <2>2. a \in 1 .. len + 1 /\ b \in 0 .. len /\ a <= b + 1
    OBVIOUS
  <2> QED BY <2>1, <2>2, VerbatimIs
<1>2. CASE ~(b - a + 1 < MinSection)
  <2> DEFINE none == [res |-> <<>>, run |-> 0]
             Folding(f) == [n \in 0 .. b - a + 1 |->
                              IF n = 0 THEN none ELSE Compacting(f[n - 1], a + n - 1)]
  <2>1. PICK upTo : upTo = CHOOSE f : f = Folding(f)
    OBVIOUS
  <2>2. Compacted(a, b) = upTo[b - a + 1].res \o FlushedContext(b, upTo[b - a + 1].run)
    BY <1>2, <2>1 DEF Compacted
  <2>3. PICK size \in Nat : size = b - a + 1 /\ b = a + size - 1
    OBVIOUS
  <2>4. PICK S : S = CompactStates(len)
    OBVIOUS
  <2>5. none \in S /\ HasCompacted(none, len, a, 0)
    <3>1. none \in S
      BY <2>4 DEF CompactStates, DiffTexts
    <3>2. StandsFor(<<>>) = 0
      <4>1. PICK e : e = <<>>
        OBVIOUS
      <4>2. e \in DiffTexts(len) /\ Len(e) = 0
        BY <4>1 DEF DiffTexts
      <4>3. PICK f : IsCount(f, e)
        BY <4>2, CountIs
      <4> QED BY <4>1, <4>2, <4>3 DEF IsCount
    <3> QED BY <2>4, <3>1, <3>2 DEF HasCompacted
  <2>6. ASSUME NEW n \in 1 .. size, NEW c, HasCompacted(c, len, a, n - 1)
        PROVE  HasCompacted(Compacting(c, a + n - 1), len, a, n)
    <3>1. n \in Nat /\ n > 0 /\ a + n - 1 <= len /\ a \in 1 .. len
      BY <2>3
    <3> QED BY <2>6, <3>1, CompactingKeeps
  <2> HIDE DEF none
  <2>7. PICK step : step = [n \in 1 .. size |-> [u \in S |->
          IF Compacting(u, a + n - 1) \in S THEN Compacting(u, a + n - 1) ELSE none]]
    OBVIOUS
  <2>8. step \in [1 .. size -> [S -> S]]
    BY <2>5, <2>7
  <2>9. PICK g : g \in [0 .. size -> S] /\ IsRecursion(g, none, size, step)
    BY <2>5, <2>8, RecursionExists
  <2> DEFINE P == {n \in 0 .. size : HasCompacted(g[n], len, a, n)}
  <2>10. 0 \in P
    BY <2>5, <2>9 DEF IsRecursion
  <2>11. ASSUME NEW n \in 1 .. size, HasCompacted(g[n - 1], len, a, n - 1)
         PROVE  g[n] = Compacting(g[n - 1], a + n - 1) /\ HasCompacted(g[n], len, a, n)
    <3>1. HasCompacted(Compacting(g[n - 1], a + n - 1), len, a, n)
      BY <2>6, <2>11
    <3>2. g[n - 1] \in S /\ Compacting(g[n - 1], a + n - 1) \in S
      BY <2>4, <2>11, <3>1 DEF HasCompacted
    <3>3. g[n] = step[n][g[n - 1]]
      BY <2>9 DEF IsRecursion
    <3>4. g[n] = Compacting(g[n - 1], a + n - 1)
      BY <2>7, <3>2, <3>3
    <3> QED BY <3>1, <3>4
  <2>12. \A n \in 0 .. size : n \in P
    <3>1. \A n \in 1 .. size : n - 1 \in P => n \in P
      BY <2>11
    <3> HIDE DEF P
    <3> QED BY <2>10, <3>1, IntervalInduction
  <2>13. ASSUME NEW n \in 0 .. size
         PROVE  g[n] = IF n = 0 THEN none ELSE Compacting(g[n - 1], a + n - 1)
    <3>1. CASE n = 0
      BY <2>9, <3>1 DEF IsRecursion
    <3>2. CASE n # 0
      <4>1. n \in 1 .. size /\ n - 1 \in P
        BY <2>12, <3>2
      <4> QED BY <2>11, <3>2, <4>1
    <3> QED BY <3>1, <3>2
  <2>14. g = Folding(g)
    BY <2>3, <2>9, <2>13
  <2>15. upTo = Folding(upTo)
    <3> HIDE DEF Folding
    <3> QED BY <2>1, <2>14
  <2>16. \A n \in 0 .. size : upTo[n] = IF n = 0 THEN none ELSE Compacting(upTo[n - 1], a + n - 1)
    <3>1. PICK h : h = Folding(upTo)
      OBVIOUS
    <3>2. \A n \in 0 .. size : h[n] = IF n = 0 THEN none ELSE Compacting(upTo[n - 1], a + n - 1)
      BY <2>3, <3>1
    <3> HIDE DEF Folding
    <3> QED BY <2>15, <3>1, <3>2
  <2> HIDE DEF Folding, P
  <2>17. upTo[0] = none /\ \A n \in 1 .. size : upTo[n] = Compacting(upTo[n - 1], a + n - 1)
    BY <2>16
  <2> DEFINE Q == {n \in 0 .. size : HasCompacted(upTo[n], len, a, n)}
  <2>18. 0 \in Q
    BY <2>5, <2>17
  <2>19. ASSUME NEW n \in 1 .. size, n - 1 \in Q  PROVE n \in Q
    <3>1. HasCompacted(Compacting(upTo[n - 1], a + n - 1), len, a, n)
      BY <2>6, <2>19
    <3>2. HasCompacted(upTo[n], len, a, n)
      BY <2>17, <3>1
    <3> QED BY <3>2
  <2>20. HasCompacted(upTo[size], len, a, size)
    <3>1. \A n \in 0 .. size : n \in Q
      <4> HIDE DEF Q
      <4> QED BY <2>18, <2>19, IntervalInduction
    <3> QED BY <3>1
  <2>21. PICK c : c = upTo[size] /\ HasCompacted(c, len, a, size)
    BY <2>20
  <2>22. PICK f : f = FlushedContext(b, c.run)
    OBVIOUS
  <2>23. c.res \in DiffTexts(len) /\ c.run \in 0 .. b /\ StandsFor(c.res) = size - c.run
    <3>1. c.res \in DiffTexts(len) /\ c.run \in Nat
      BY <2>21 DEF HasCompacted, CompactStates
    <3>2. c.run <= size /\ StandsFor(c.res) = size - c.run
      BY <2>21 DEF HasCompacted
    <3>3. c.run <= b
      BY <2>3, <3>1, <3>2
    <3> QED BY <3>1, <3>2, <3>3
  <2>24. f \in DiffTexts(len) /\ StandsFor(f) = c.run
    BY <2>22, <2>23, FlushedContextIs
  <2>25. PICK w : w = c.res \o f
    OBVIOUS
  <2>26. w \in DiffTexts(len) /\ StandsFor(w) = (size - c.run) + c.run
    BY <2>23, <2>24, <2>25, CountsAdd
  <2>27. (size - c.run) + c.run = size
    BY <2>23
  <2>28. ASSUME NEW i \in a .. b, diff[i] # "ctx"  PROVE Has(w, Line(i))
    <3>1. Has(c.res, Line(i))
      BY <2>3, <2>21, <2>28 DEF HasCompacted
    <3>2. c.res \in DiffTexts(len) /\ f \in DiffTexts(len)
      BY <2>23, <2>24
    <3>3. Has(c.res \o f, Line(i))
      BY ONLY <3>1, <3>2, StaysIn
    <3> QED BY <2>25, <3>3
  <2>29. Compacted(a, b) = w
    BY <2>2, <2>3, <2>21, <2>22, <2>25
  <2> QED BY <2>3, <2>26, <2>27, <2>28, <2>29
<1> QED BY <1>1, <1>2

LEMMA FlushedSectionIs ==
  ASSUME NEW len \in Nat, NEW a \in 1 .. len + 1, NEW b \in a - 1 .. len
  PROVE  /\ FlushedSection(a, b) \in DiffTexts(len)
         /\ StandsFor(FlushedSection(a, b)) = b - a + 1
         /\ path # "lock" =>
              \A i \in a .. b : diff[i] # "ctx" => Has(FlushedSection(a, b), Line(i))
<1>1. CASE path = "lock" /\ b - a + 1 > LockLines
  <2>1. LockLines \in Nat
    BY DiffAssumption
  <2>2. PICK c : c = <<"summary", a, b>>
    OBVIOUS
  <2>3. c \in DiffItems(len) /\ Standing(c) = b - a + 1
    <3>1. a \in 1 .. len /\ b \in 1 .. len
      BY <1>1, <2>1
    <3>2. c \in DiffItems(len)
      BY <2>2, <3>1 DEF DiffItems
    <3>3. Standing(c) = b - a + 1
      BY <2>2 DEF Standing
    <3> QED BY <3>2, <3>3
  <2>4. FlushedSection(a, b) = <<c>>
    BY <1>1, <2>2 DEF FlushedSection
  <2>5. <<c>> \in DiffTexts(len) /\ StandsFor(<<c>>) = b - a + 1
    BY <2>3, OneStands
  <2> QED BY <1>1, <2>4, <2>5
<1>2. CASE ~(path = "lock" /\ b - a + 1 > LockLines)
  <2>1. FlushedSection(a, b) = Compacted(a, b)
    BY <1>2 DEF FlushedSection
  <2> QED BY <2>1, CompactedIs
<1> QED BY <1>1, <1>2
-----------------------------------------------------------------------------
DiffTyped ==
  /\ diff \in Seq(LineKinds)
  /\ pos \in 0 .. Len(diff)
  /\ start \in 1 .. pos + 1
  /\ path \in {"none", "lock", "app"}
  /\ written \in DiffTexts(Len(diff))
  /\ changed \in BOOLEAN
  /\ pass \in {1, 2}
  /\ mode \in {"start", "lines", "done"}

NothingRead ==
  mode = "start" => pos = 0 /\ start = 1 /\ path = "none" /\ written = <<>>

(* In what git writes, the section being read was opened by the diff --git   *)
(* line it starts with, and is taken for that line's kind of file.           *)
SectionIsKnown ==
  mode = "lines" /\ GitDiff =>
    /\ path = "none" => /\ start = 1
                        /\ \A i \in 1 .. pos : ~Git(diff[i]) /\ ~Plus(diff[i])
    /\ path # "none" => /\ start <= pos
                        /\ Git(diff[start]) /\ FileKind(diff[start]) = path
                        /\ \A i \in start + 1 .. pos : ~Git(diff[i])

DiffIInv ==
  DiffTyped /\ NothingRead /\ SectionIsKnown /\ EveryLineAccounted /\ ModificationsVerbatim

LEMMA EmptyStands ==
  ASSUME NEW len \in Nat
  PROVE  <<>> \in DiffTexts(len) /\ StandsFor(<<>>) = 0
<1>1. PICK e : e = <<>>
  OBVIOUS
<1>2. e \in DiffTexts(len) /\ Len(e) = 0
  BY <1>1 DEF DiffTexts
<1>3. PICK f : IsCount(f, e)
  BY <1>2, CountIs
<1>4. StandsFor(e) = 0
  BY <1>2, <1>3 DEF IsCount
<1> QED BY <1>1, <1>2, <1>4

LEMMA HasGreatest ==
  ASSUME NEW n \in Nat, NEW S, S \subseteq 1 .. n, S # {}
  PROVE  \E m \in S : (\A k \in S : k <= m) /\ Max(S) = m
<1> DEFINE T == {n - k : k \in S}
<1>1. T \subseteq Nat /\ T # {}
  <2>1. \A k \in S : n - k \in Nat
    OBVIOUS
  <2> QED BY <2>1
<1>2. PICK t \in T : \A u \in T : t <= u
  <2> HIDE DEF T
  <2> QED BY <1>1, HasLeast
<1>3. PICK m \in S : t = n - m
  OBVIOUS
<1>4. \A k \in S : k <= m
  <2> SUFFICES ASSUME NEW k \in S PROVE k <= m
    OBVIOUS
  <2>1. n - m <= n - k
    BY <1>2, <1>3
  <2> QED BY <2>1
<1>5. Max(S) = m
  <2>1. S \subseteq Nat
    OBVIOUS
  <2> QED BY <1>4, <2>1, MaxIs
<1> QED BY <1>4, <1>5

(* A line of a section taken for a lockfile belongs to a lockfile. *)
LEMMA LockLinesAreLock ==
  ASSUME DiffTyped, SectionIsKnown, mode = "lines", GitDiff, path = "lock",
         NEW i \in start .. pos
  PROVE  FileOf(i) = "lock"
<1>1. PICK len \in Nat : len = Len(diff) /\ DOMAIN diff = 1 .. len
  BY DEF DiffTyped
<1>2. /\ start \in 1 .. pos /\ pos \in 1 .. len
      /\ Git(diff[start]) /\ FileKind(diff[start]) = "lock"
      /\ \A j \in start + 1 .. pos : ~Git(diff[j])
  BY <1>1 DEF DiffTyped, SectionIsKnown
<1>3. PICK headers : headers = {j \in 1 .. i : Git(diff[j]) \/ Plus(diff[j])}
  OBVIOUS
<1>4. i \in Nat /\ start \in headers /\ headers \subseteq 1 .. i
  BY <1>2, <1>3
<1>5. PICK m \in headers : (\A k \in headers : k <= m) /\ Max(headers) = m
  BY <1>4, HasGreatest
<1>6. m \in start .. pos /\ m <= i /\ (Git(diff[m]) \/ Plus(diff[m]))
  BY <1>2, <1>3, <1>4, <1>5
<1>7. FileKind(diff[m]) = "lock"
  <2>1. CASE Git(diff[m])
    <3>1. m = start
      BY <1>2, <1>6, <2>1
    <3> QED BY <1>2, <3>1
  <2>2. CASE ~Git(diff[m])
    <3>1. m \in start + 1 .. pos /\ Plus(diff[m]) /\ m \in DOMAIN diff
      BY <1>1, <1>2, <1>6, <2>2
    <3>2. PICK j \in 1 .. m - 1 :
            /\ Git(diff[j]) /\ FileKind(diff[j]) = FileKind(diff[m])
            /\ \A n \in j + 1 .. m - 1 : ~Git(diff[n]) /\ ~Plus(diff[n])
      BY <3>1 DEF GitDiff
    <3>3. ~(start \in j + 1 .. m - 1)
      BY <1>2, <3>2
    <3>4. start <= j /\ j <= pos
      BY <1>2, <3>1, <3>3
    <3>5. j = start
      BY <1>2, <3>2, <3>4
    <3> QED BY <1>2, <3>2, <3>5
  <2> QED BY <2>1, <2>2
<1>8. headers # {}
  BY <1>4
<1> QED BY <1>3, <1>5, <1>7, <1>8 DEF FileOf

(* What flushing the section that was read does to the output. *)
LEMMA FlushingKeeps ==
  ASSUME DiffIInv, mode = "lines", FlushSection
  PROVE  /\ written' \in DiffTexts(Len(diff)) /\ changed' \in BOOLEAN
         /\ StandsFor(written') = pos
         /\ GitDiff =>
              \A i \in 1 .. pos : diff[i] = "mod" /\ FileOf(i) = "app" => Has(written', Line(i))
<1>0. DiffTyped
  BY DEF DiffIInv
<1>1. PICK len \in Nat : len = Len(diff)
  <2>1. diff \in Seq(LineKinds)
    BY <1>0 DEF DiffTyped
  <2> QED BY <2>1
<1>2. /\ pos \in 0 .. len /\ start \in 1 .. len + 1 /\ pos \in start - 1 .. len
      /\ written \in DiffTexts(len)
  <2>1. pos \in 0 .. len /\ start \in 1 .. pos + 1 /\ written \in DiffTexts(len)
    BY <1>0, <1>1 DEF DiffTyped
  <2> QED BY <2>1
<1>3. PICK f : f = FlushedSection(start, pos)
  OBVIOUS
<1>4. /\ f \in DiffTexts(len) /\ StandsFor(f) = pos - start + 1
      /\ path # "lock" =>
           \A i \in start .. pos : diff[i] # "ctx" => Has(f, Line(i))
  BY <1>2, <1>3, FlushedSectionIs
<1>5. PICK w : w = written \o f
  OBVIOUS
<1>6. written' = w /\ changed' \in BOOLEAN
  BY <1>3, <1>5 DEF FlushSection, DiffIInv, DiffTyped
<1>7. w \in DiffTexts(len) /\ StandsFor(w) = StandsFor(written) + StandsFor(f)
  BY <1>2, <1>4, <1>5, CountsAdd
<1>8. StandsFor(w) = pos
  BY <1>2, <1>4, <1>7 DEF DiffIInv, EveryLineAccounted
<1>9. ASSUME GitDiff, NEW i \in 1 .. pos, diff[i] = "mod", FileOf(i) = "app"
      PROVE  Has(w, Line(i))
  <2>1. written \in DiffTexts(len) /\ f \in DiffTexts(len)
    BY <1>2, <1>4
  <2>2. CASE i \in 1 .. start - 1
    <3>1. Has(written, Line(i))
      BY <1>9, <2>2 DEF DiffIInv, ModificationsVerbatim, Has
    <3>2. Has(written \o f, Line(i))
      BY ONLY <2>1, <3>1, StaysIn
    <3> QED BY <1>5, <3>2
  <2>3. CASE ~(i \in 1 .. start - 1)
    <3>1. i \in start .. pos
      BY <1>2, <2>3
    <3>2. path # "lock"
      <4>1. CASE path = "lock"
        <5>1. FileOf(i) = "lock"
          BY <1>9, <3>1, <4>1, LockLinesAreLock DEF DiffIInv
        <5> QED BY <1>9, <5>1
      <4> QED BY <4>1
    <3>3. Has(f, Line(i))
      BY <1>4, <1>9, <3>1, <3>2
    <3>4. Has(written \o f, Line(i))
      BY ONLY <2>1, <3>3, StaysIn
    <3> QED BY <1>5, <3>4
  <2> QED BY <2>2, <2>3
<1> QED BY <1>1, <1>6, <1>7, <1>8, <1>9

LEMMA DiffInitIInv ==
  ASSUME DiffInit
  PROVE  DiffIInv
<1>1. diff \in Seq(LineKinds)
  <2>1. PICK n \in Nat : diff \in [1 .. n -> Kinds]
    BY DiffAssumption DEF DiffInit, Diffs
  <2>2. diff \in [1 .. n -> LineKinds]
    <3>1. Kinds \subseteq LineKinds
      BY DiffAssumption
    <3> QED BY <2>1, <3>1
  <2> QED BY <2>2
<1>2. PICK len \in Nat : len = Len(diff)
  BY <1>1
<1>3. /\ pos = 0 /\ start = 1 /\ path = "none" /\ written = <<>> /\ changed = FALSE
      /\ pass = 1 /\ mode = "start"
  BY DEF DiffInit
<1>4. written \in DiffTexts(Len(diff)) /\ StandsFor(written) = 0
  BY <1>2, <1>3, EmptyStands
<1>5. pos \in 0 .. Len(diff) /\ start \in 1 .. pos + 1
  BY <1>2, <1>3
<1>6. DiffTyped
  BY <1>1, <1>3, <1>4, <1>5 DEF DiffTyped
<1> QED BY <1>3, <1>4, <1>6
       DEF DiffIInv, NothingRead, SectionIsKnown, EveryLineAccounted, ModificationsVerbatim

(* What the steps that leave the text alone keep. *)
LEMMA SameDiff ==
  ASSUME diff' = diff
  PROVE  GitDiff' = GitDiff /\ \A i : FileOf(i)' = FileOf(i)
BY DEF GitDiff, FileOf

(* A line that is read but not flushed leaves the output as it is. *)
LEMMA ReadingOn ==
  ASSUME DiffIInv, mode = "lines", pos < Len(diff), pos' = pos + 1,
         path' \in {"none", "lock", "app"}, UNCHANGED <<diff, start, written, changed, pass, mode>>
  PROVE  DiffTyped' /\ NothingRead' /\ EveryLineAccounted' /\ ModificationsVerbatim'
<1>1. DiffTyped
  BY DEF DiffIInv
<1>2. PICK len \in Nat : len = Len(diff)
  <2>1. diff \in Seq(LineKinds)
    BY <1>1 DEF DiffTyped
  <2> QED BY <2>1
<1>3. pos' \in 0 .. len /\ start' \in 1 .. pos' + 1
  <2>1. pos \in 0 .. len /\ start \in 1 .. pos + 1
    BY <1>1, <1>2 DEF DiffTyped
  <2> QED BY <1>2, <2>1
<1>4. DiffTyped'
  BY <1>1, <1>2, <1>3 DEF DiffTyped
<1>5. NothingRead' /\ EveryLineAccounted'
  BY DEF DiffIInv, NothingRead, EveryLineAccounted
<1>6. ModificationsVerbatim'
  BY SameDiff DEF DiffIInv, ModificationsVerbatim
<1> QED BY <1>4, <1>5, <1>6

(* A flushed section leaves nothing between what is read and what is written. *)
LEMMA Flushing ==
  ASSUME DiffIInv, mode = "lines", FlushSection, start' = pos + 1, pos' \in {pos, pos + 1},
         pos' <= Len(diff), path' \in {"none", "lock", "app"}, mode' \in {"lines", "done"},
         UNCHANGED <<diff, pass>>
  PROVE  DiffTyped' /\ NothingRead' /\ EveryLineAccounted' /\ ModificationsVerbatim'
<1>1. DiffTyped
  BY DEF DiffIInv
<1>2. PICK len \in Nat : len = Len(diff)
  <2>1. diff \in Seq(LineKinds)
    BY <1>1 DEF DiffTyped
  <2> QED BY <2>1
<1>3. pos \in 0 .. len /\ pos' \in 0 .. len /\ start' \in 1 .. pos' + 1 /\ start' - 1 = pos
  <2>1. pos \in 0 .. len
    BY <1>1, <1>2 DEF DiffTyped
  <2>2. pos' = pos \/ pos' = pos + 1
    OBVIOUS
  <2>3. pos' <= len /\ start' = pos + 1
    BY <1>2
  <2> QED BY ONLY <1>2, <2>1, <2>2, <2>3
<1>4. /\ written' \in DiffTexts(Len(diff)) /\ changed' \in BOOLEAN
      /\ StandsFor(written') = pos
      /\ GitDiff =>
           \A i \in 1 .. pos : diff[i] = "mod" /\ FileOf(i) = "app" => Has(written', Line(i))
  BY FlushingKeeps
<1>5. DiffTyped'
  BY <1>1, <1>2, <1>3, <1>4 DEF DiffTyped
<1>6. NothingRead'
  BY DEF NothingRead
<1>7. EveryLineAccounted'
  BY <1>3, <1>4 DEF EveryLineAccounted
<1>8. ModificationsVerbatim'
  BY <1>3, <1>4, SameDiff DEF ModificationsVerbatim, Has
<1> QED BY <1>5, <1>6, <1>7, <1>8

LEMMA ResendKeeps ==
  ASSUME DiffIInv, Resend
  PROVE  DiffIInv'
<1>1. PICK len : len = Len(diff) /\ diff \in Seq(LineKinds) /\ written \in DiffTexts(len)
  BY DEF DiffIInv, DiffTyped
<1>2. PICK n \in Nat : n = Len(written)
  BY <1>1 DEF DiffTexts
<1>3. DOMAIN written = 1 .. n /\ \A i \in 1 .. n : written[i] \in DiffItems(len)
  BY <1>1, <1>2 DEF DiffTexts
<1>4. ASSUME NEW item \in DiffItems(len)  PROVE Reread(item) \in LineKinds
  <2>1. CASE item \in {"line"} \X (1 .. len)
    <3>1. item[1] = "line" /\ item[2] \in 1 .. len
      BY <2>1
    <3>2. diff[item[2]] \in LineKinds
      BY <1>1, <3>1
    <3> QED BY <3>1, <3>2 DEF Reread
  <2>2. CASE ~(item \in {"line"} \X (1 .. len))
    <3>1. item[1] # "line"
      BY <2>2 DEF DiffItems
    <3> QED BY <3>1 DEF Reread, LineKinds
  <2> QED BY <2>1, <2>2
<1>5. PICK d : d = [i \in 1 .. n |-> Reread(written[i])]
  OBVIOUS
<1>6. d \in [1 .. n -> LineKinds]
  BY <1>3, <1>4, <1>5
<1>7. d \in Seq(LineKinds) /\ Len(d) = n
  BY <1>6
<1>8. /\ diff' = d /\ pos' = 0 /\ start' = 1 /\ path' = "none" /\ written' = <<>>
      /\ changed' = FALSE /\ pass' = 2 /\ mode' = "start"
  BY <1>3, <1>5 DEF Resend
<1>9. written' \in DiffTexts(Len(diff')) /\ StandsFor(written') = 0
  BY <1>7, <1>8, EmptyStands
<1>10. pos' \in 0 .. Len(diff') /\ start' \in 1 .. pos' + 1
  BY <1>7, <1>8
<1>11. DiffTyped'
  BY <1>7, <1>8, <1>9, <1>10 DEF DiffTyped
<1> QED BY <1>8, <1>9, <1>11
       DEF DiffIInv, NothingRead, SectionIsKnown, EveryLineAccounted, ModificationsVerbatim

LEMMA DiffNextIInv ==
  ASSUME DiffIInv, [DiffNext]_diffVars
  PROVE  DiffIInv'
<1>1. DiffTyped /\ NothingRead /\ SectionIsKnown
  BY DEF DiffIInv
<1>0. diff \in Seq(LineKinds)
  BY <1>1 DEF DiffTyped
<1>2. PICK len \in Nat : len = Len(diff) /\ pos \in 0 .. len
  <2>1. PICK len \in Nat : len = Len(diff)
    BY <1>0
  <2>2. pos \in 0 .. len
    BY <1>1, <2>1 DEF DiffTyped
  <2> QED BY <2>1, <2>2
<1>10. start \in Nat
  <2>1. start \in 1 .. pos + 1
    BY <1>1 DEF DiffTyped
  <2> QED BY <1>2, <2>1
<1>3. ASSUME Begin  PROVE DiffIInv'
  <2>1. /\ mode = "start" /\ mode' \in {"lines", "done"}
        /\ UNCHANGED <<diff, pos, start, path, written, changed, pass>>
    BY <1>3 DEF Begin
  <2>2. DiffTyped' /\ NothingRead'
    BY <1>1, <2>1 DEF DiffTyped, NothingRead
  <2>3. SectionIsKnown'
    BY <1>1, <2>1 DEF NothingRead, SectionIsKnown
  <2>4. EveryLineAccounted'
    BY <2>1 DEF DiffIInv, EveryLineAccounted
  <2>5. ModificationsVerbatim'
    BY <2>1, SameDiff DEF DiffIInv, ModificationsVerbatim
  <2> QED BY <2>2, <2>3, <2>4, <2>5 DEF DiffIInv
<1>4. ASSUME GitLine  PROVE DiffIInv'
  <2>1. /\ mode = "lines" /\ pos < len /\ Git(diff[pos + 1]) /\ FlushSection
        /\ path' = FileKind(diff[pos + 1]) /\ start' = pos + 1 /\ pos' = pos + 1
        /\ UNCHANGED <<diff, pass, mode>>
    BY <1>2, <1>4 DEF GitLine, Reading
  <2>2. path' \in {"lock", "app"}
    BY <2>1 DEF FileKind
  <2>3. DiffTyped' /\ NothingRead' /\ EveryLineAccounted' /\ ModificationsVerbatim'
    BY <1>2, <2>1, <2>2, Flushing
  <2>4. SectionIsKnown'
    <3>1. path' # "none" /\ start' <= pos' /\ ~(\E i \in start' + 1 .. pos' : TRUE)
      BY <1>2, <2>1, <2>2
    <3> QED BY <2>1, <3>1 DEF SectionIsKnown
  <2> QED BY <2>3, <2>4 DEF DiffIInv
<1>5. ASSUME PlusLine  PROVE DiffIInv'
  <2>1. /\ mode = "lines" /\ pos < len /\ Plus(diff[pos + 1])
        /\ path' = IF path = "none" THEN FileKind(diff[pos + 1]) ELSE path
        /\ pos' = pos + 1
        /\ UNCHANGED <<diff, start, written, changed, pass, mode>>
    BY <1>2, <1>5 DEF PlusLine, Reading
  <2>2. path' \in {"none", "lock", "app"}
    BY <1>1, <2>1 DEF DiffTyped, FileKind
  <2>3. DiffTyped' /\ NothingRead' /\ EveryLineAccounted' /\ ModificationsVerbatim'
    BY <1>2, <2>1, <2>2, ReadingOn
  <2>4. SectionIsKnown'
    <3> SUFFICES ASSUME GitDiff
                 PROVE  /\ path' # "none" /\ start <= pos + 1
                        /\ Git(diff[start]) /\ FileKind(diff[start]) = path'
                        /\ \A i \in start + 1 .. pos + 1 : ~Git(diff[i])
      BY <2>1, SameDiff DEF SectionIsKnown
    <3>1. pos + 1 \in DOMAIN diff /\ (pos + 1) - 1 = pos
      <4>1. pos + 1 \in 1 .. len /\ (pos + 1) - 1 = pos
        BY <1>2, <2>1
      <4> QED BY <1>0, <1>2, <4>1
    <3>2. PICK j \in 1 .. pos : Git(diff[j])
      BY <2>1, <3>1 DEF GitDiff
    <3>3. path # "none"
      BY <1>1, <2>1, <3>2 DEF SectionIsKnown
    <3>4. /\ start <= pos /\ Git(diff[start]) /\ FileKind(diff[start]) = path
          /\ \A i \in start + 1 .. pos : ~Git(diff[i])
      BY <1>1, <2>1, <3>3 DEF SectionIsKnown
    <3>5. ~Git(diff[pos + 1])
      BY <2>1 DEF Git, Plus
    <3>7. \A i \in start + 1 .. pos + 1 : i \in start + 1 .. pos \/ i = pos + 1
      BY <1>2, <1>10
    <3> QED BY <1>2, <2>1, <3>3, <1>10, <3>4, <3>5, <3>7
  <2> QED BY <2>3, <2>4 DEF DiffIInv
<1>6. ASSUME OtherLine  PROVE DiffIInv'
  <2>1. /\ mode = "lines" /\ pos < len /\ ~Git(diff[pos + 1]) /\ ~Plus(diff[pos + 1])
        /\ pos' = pos + 1
        /\ UNCHANGED <<diff, start, path, written, changed, pass, mode>>
    BY <1>2, <1>6 DEF OtherLine, Reading
  <2>2. path' \in {"none", "lock", "app"}
    BY <1>1, <2>1 DEF DiffTyped
  <2>3. DiffTyped' /\ NothingRead' /\ EveryLineAccounted' /\ ModificationsVerbatim'
    BY <1>2, <2>1, <2>2, ReadingOn
  <2>4. SectionIsKnown'
    <3>2. /\ \A i \in 1 .. pos + 1 : i \in 1 .. pos \/ i = pos + 1
          /\ \A i \in start + 1 .. pos + 1 : i \in start + 1 .. pos \/ i = pos + 1
          /\ start <= pos => start <= pos + 1
      BY <1>2, <1>10
    <3> QED BY <1>1, <2>1, <3>2, SameDiff DEF SectionIsKnown
  <2> QED BY <2>3, <2>4 DEF DiffIInv
<1>7. ASSUME End  PROVE DiffIInv'
  <2>1. /\ mode = "lines" /\ FlushSection /\ start' = pos + 1 /\ path' = "none"
        /\ mode' = "done" /\ UNCHANGED <<diff, pos, pass>>
    BY <1>7 DEF End
  <2>2. DiffTyped' /\ NothingRead' /\ EveryLineAccounted' /\ ModificationsVerbatim'
    BY <1>2, <2>1, Flushing
  <2>3. SectionIsKnown'
    BY <2>1 DEF SectionIsKnown
  <2> QED BY <2>2, <2>3 DEF DiffIInv
<1>8. ASSUME Resend  PROVE DiffIInv'
  BY <1>8, ResendKeeps
<1>9. ASSUME UNCHANGED diffVars  PROVE DiffIInv'
  <2>1. DiffTyped' /\ NothingRead' /\ EveryLineAccounted'
    BY <1>9 DEF DiffIInv, diffVars, DiffTyped, NothingRead, EveryLineAccounted
  <2>2. SectionIsKnown' /\ ModificationsVerbatim'
    BY <1>9, SameDiff DEF DiffIInv, diffVars, SectionIsKnown, ModificationsVerbatim
  <2> QED BY <2>1, <2>2 DEF DiffIInv
<1> QED BY <1>3, <1>4, <1>5, <1>6, <1>7, <1>8, <1>9 DEF DiffNext, Finished

LEMMA DiffInvariance == DiffSpec => []DiffIInv
<1>1. DiffInit => DiffIInv
  BY DiffInitIInv
<1>2. DiffIInv /\ [DiffNext]_diffVars => DiffIInv'
  BY DiffNextIInv
<1> QED BY <1>1, <1>2, PTL DEF DiffSpec

(* The variables of the diff pass keep their types. *)
THEOREM DiffTypeCorrect == DiffSpec => []DiffTyped
<1>1. DiffIInv => DiffTyped
  BY DEF DiffIInv
<1> QED BY <1>1, DiffInvariance, PTL

(* The counts in the markers of the diff pass add up with the lines it keeps *)
(* to the lines it has flushed, whatever the text (diff.go:80-82, 134).      *)
THEOREM EveryLineIsAccounted == DiffSpec => []EveryLineAccounted
<1>1. DiffIInv => EveryLineAccounted
  BY DEF DiffIInv
<1> QED BY <1>1, DiffInvariance, PTL

(* Of a diff as git writes it, no added or removed line of a source file is  *)
(* dropped or altered (diff.go:49), in a first pass or in one over its       *)
(* result.                                                                   *)
THEOREM ModificationsAreKept == DiffSpec => []ModificationsVerbatim
<1>1. DiffIInv => ModificationsVerbatim
  BY DEF DiffIInv
<1> QED BY <1>1, DiffInvariance, PTL
-----------------------------------------------------------------------------
(* The search in a user text. *)
UserTexts == Seq(Tokens)

(* strings.Index finds the first occurrence. *)
IsFirst(x, t, i, S) ==
  x \in i .. Len(t) /\ t[x] \in S /\ \A n \in i .. x - 1 : t[n] \notin S

LEMMA IndexIs ==
  ASSUME NEW t \in UserTexts, NEW i \in Nat, NEW S, NEW x \in Index(t, i, S)
  PROVE  IsFirst(x, t, i, S)
<1>1. PICK len \in Nat : len = Len(t)
  BY DEF UserTexts
<1>2. PICK hits : hits = {n \in i .. len : t[n] \in S}
  OBVIOUS
<1>3. hits # {} /\ x = Min(hits)
  BY <1>1, <1>2 DEF Index
<1>4. hits \subseteq Nat
  BY <1>2
<1>5. PICK m \in hits : \A n \in hits : m <= n
  BY <1>3, <1>4, HasLeast
<1>6. x \in hits /\ \A n \in hits : x <= n
  BY <1>3, <1>5 DEF Min
<1>7. x \in i .. len /\ t[x] \in S
  BY <1>2, <1>6
<1>8. ASSUME NEW n \in i .. x - 1  PROVE t[n] \notin S
  <2>1. n \in i .. len /\ ~(x <= n)
    BY <1>7
  <2> QED BY <1>2, <1>6, <2>1
<1> QED BY <1>1, <1>7, <1>8 DEF IsFirst

WrapperSet == ({"tag"} \X ToSet(Tags)) \cup ({"fence"} \X ToSet(Fences))

LEMMA WrappersAre ==
  Wrappers \in Seq(WrapperSet)
<1>1. Tags \in Seq(STRING) /\ Fences \in Seq(STRING)
  BY UserTextAssumption
<1>2. PICK m \in Nat, k \in Nat : DOMAIN Tags = 1 .. m /\ DOMAIN Fences = 1 .. k
  BY <1>1
<1>3. PICK a, b : /\ a = [n \in DOMAIN Tags |-> <<"tag", Tags[n]>>]
                  /\ b = [n \in DOMAIN Fences |-> <<"fence", Fences[n]>>]
  OBVIOUS
<1>4. a \in [1 .. m -> WrapperSet]
  <2>1. \A n \in 1 .. m : Tags[n] \in ToSet(Tags)
    BY <1>2 DEF ToSet
  <2>2. \A n \in 1 .. m : <<"tag", Tags[n]>> \in WrapperSet
    BY <2>1 DEF WrapperSet
  <2> QED BY <1>2, <1>3, <2>2
<1>5. b \in [1 .. k -> WrapperSet]
  <2>1. \A n \in 1 .. k : Fences[n] \in ToSet(Fences)
    BY <1>2 DEF ToSet
  <2>2. \A n \in 1 .. k : <<"fence", Fences[n]>> \in WrapperSet
    BY <2>1 DEF WrapperSet
  <2> QED BY <1>2, <1>3, <2>2
<1>6. a \in Seq(WrapperSet) /\ b \in Seq(WrapperSet)
  BY <1>4, <1>5
<1>7. a \o b \in Seq(WrapperSet)
  BY <1>6
<1> QED BY <1>3, <1>7 DEF Wrappers

(* A region starts behind its opener and ends in front of a closer. *)
LEMMA RegionIsIn ==
  ASSUME NEW t \in UserTexts, NEW i \in Nat, i > 0, NEW w, NEW r \in Region(t, i, w)
  PROVE  r[1] \in 2 .. Len(t) /\ r[2] \in r[1] .. Len(t)
<1>1. PICK len \in Nat : len = Len(t)
  BY DEF UserTexts
<1>2. PICK s \in Starts(t, i, w) : r \in {<<s, n>> : n \in Ends(t, s, w)}
  BY DEF Region
<1>3. PICK e \in Ends(t, s, w) : r = <<s, e>>
  BY <1>2
<1>4. s \in Nat /\ s >= 2
  <2>1. CASE w[1] = "tag"
    <3>1. PICK o \in Index(t, i, {Open(w[2]), Half(w[2])}) :
            s \in {n + 1 : n \in Index(t, o, HasBracket(t))}
      BY <2>1 DEF Starts
    <3>2. PICK x \in Index(t, o, HasBracket(t)) : s = x + 1
      BY <3>1
    <3>3. o \in i .. len
      BY <1>1, <3>1, IndexIs DEF IsFirst
    <3>4. o \in Nat
      BY <3>3
    <3>5. x \in o .. len
      BY <1>1, <3>4, <3>2, IndexIs DEF IsFirst
    <3> QED BY <3>2, <3>3, <3>5
  <2>2. CASE w[1] # "tag"
    <3>1. PICK o \in Index(t, i, {Fence(w[2])}) : s = o + 1
      BY <2>2 DEF Starts
    <3>2. o \in i .. len
      BY <1>1, <3>1, IndexIs DEF IsFirst
    <3> QED BY <3>1, <3>2
  <2> QED BY <2>1, <2>2
<1>5. e \in s .. len
  <2>1. CASE w[1] = "tag"
    <3>1. e \in Index(t, s, {Close(w[2])})
      BY <2>1 DEF Ends
    <3> QED BY <1>1, <1>4, <3>1, IndexIs DEF IsFirst
  <2>2. CASE w[1] # "tag"
    <3>1. e \in Index(t, s + 1, {EndFence} \cup {Fence(f) : f \in ToSet(Fences)})
      BY <2>2 DEF Ends
    <3>2. s + 1 \in Nat
      BY <1>4
    <3>3. e \in s + 1 .. len
      BY <1>1, <3>1, <3>2, IndexIs DEF IsFirst
    <3> QED BY <1>4, <3>3
  <2> QED BY <2>1, <2>2
<1> QED BY <1>1, <1>3, <1>4, <1>5

(* In a flat text a region is what stands between an opener and the closer   *)
(* that matches it, wherever the search starts.                              *)
Encloses(t, p, q) ==
  /\ p \in 1 .. Len(t) /\ q \in p + 2 .. Len(t)
  /\ Opens(t[p]) /\ Closes(t[q]) /\ \A k \in p + 1 .. q - 1 : Plain(t[k])

LEMMA FlatRegion ==
  ASSUME NEW t \in UserTexts, Flat(t), NEW i \in Nat, i > 0, NEW w \in WrapperSet,
         NEW r \in Region(t, i, w)
  PROVE  Encloses(t, r[1] - 1, r[2])
<1>1. PICK len \in Nat : len = Len(t) /\ DOMAIN t = 1 .. len
  BY DEF UserTexts
<1>2. PICK s \in Starts(t, i, w) : r \in {<<s, n>> : n \in Ends(t, s, w)}
  BY DEF Region
<1>3. PICK e \in Ends(t, s, w) : r = <<s, e>>
  BY <1>2
<1>4. SUFFICES ASSUME NEW o \in i .. len, s = o + 1, Opens(t[o]),
                      NEW from \in {s, s + 1}, NEW S, IsFirst(e, t, from, S),
                      \A x \in S : ~Plain(x),
                      \A x : Matches(t[o], x) => x \in S /\ Closes(x)
               PROVE  Encloses(t, o, e)
  <2>1. CASE w[1] = "tag"
    <3>1. w[2] \in ToSet(Tags)
      BY <2>1 DEF WrapperSet
    <3>2. PICK o \in Index(t, i, {Open(w[2]), Half(w[2])}) :
            s \in {n + 1 : n \in Index(t, o, HasBracket(t))}
      BY <2>1 DEF Starts
    <3>3. PICK x \in Index(t, o, HasBracket(t)) : s = x + 1
      BY <3>2
    <3>4. o \in i .. len /\ t[o] \in {Open(w[2]), Half(w[2])}
      BY <1>1, <3>2, IndexIs DEF IsFirst
    <3>5. o \in Nat /\ o \in DOMAIN t
      BY <1>1, <3>4
    <3>6. t[o] = Open(w[2])
      <4>1. Opens(t[o])
        BY <3>4 DEF Opens, Open, Half
      <4>2. t[o][1] # "half"
        BY <3>5, <4>1 DEF Flat
      <4> QED BY <3>4, <4>2 DEF Half
    <3>7. t[o] \in HasBracket(t)
      BY <3>1, <3>5, <3>6 DEF HasBracket
    <3>8. IsFirst(x, t, o, HasBracket(t))
      BY <3>3, <3>5, IndexIs
    <3>9. x = o
      BY <1>1, <3>5, <3>7, <3>8 DEF IsFirst
    <3>10. Opens(t[o]) /\ \A y : Matches(t[o], y) => y \in {Close(w[2])} /\ Closes(y)
      BY <3>6 DEF Opens, Open, Matches, Close, Closes
    <3>11. \A y \in {Close(w[2])} : ~Plain(y)
      BY DEF Close, Closes, Plain
    <3>12. IsFirst(e, t, s, {Close(w[2])})
      <4>1. e \in Index(t, s, {Close(w[2])})
        BY <2>1 DEF Ends
      <4>2. s \in Nat
        BY <3>3, <3>5, <3>9
      <4> QED BY <4>1, <4>2, IndexIs
    <3>13. Encloses(t, o, e)
      BY <1>4, <3>3, <3>4, <3>9, <3>10, <3>11, <3>12
    <3>14. r[1] - 1 = o /\ r[2] = e
      BY <1>3, <3>3, <3>5, <3>9
    <3> QED BY <3>13, <3>14
  <2>2. CASE w[1] # "tag"
    <3>1. w[1] = "fence"
      BY <2>2 DEF WrapperSet
    <3>2. PICK o \in Index(t, i, {Fence(w[2])}) : s = o + 1
      BY <2>2 DEF Starts
    <3>3. o \in i .. len /\ t[o] = Fence(w[2])
      BY <1>1, <3>2, IndexIs DEF IsFirst
    <3>4. PICK S : S = {EndFence} \cup {Fence(f) : f \in ToSet(Fences)}
      OBVIOUS
    <3>5. Opens(t[o]) /\ \A y : Matches(t[o], y) => y \in S /\ Closes(y)
      BY <3>3, <3>4 DEF Opens, Fence, Matches, EndFence, Closes
    <3>6. \A y \in S : ~Plain(y)
      BY <3>4 DEF EndFence, Fence, Closes, Opens, Plain
    <3>7. IsFirst(e, t, s + 1, S)
      <4>1. e \in Index(t, s + 1, S)
        BY <2>2, <3>4 DEF Ends
      <4>2. s + 1 \in Nat
        BY <3>2, <3>3
      <4> QED BY <4>1, <4>2, IndexIs
    <3>8. Encloses(t, o, e)
      BY <1>4, <3>2, <3>3, <3>5, <3>6, <3>7
    <3>9. r[1] - 1 = o /\ r[2] = e
      BY <1>3, <3>2, <3>3
    <3> QED BY <3>8, <3>9
  <2> QED BY <2>1, <2>2
<1>5. o \in 1 .. len
  BY <1>1
<1>6. PICK m \in o + 2 .. len : Matches(t[o], t[m]) /\ \A k \in o + 1 .. m - 1 : Plain(t[k])
  BY <1>1, <1>4, <1>5 DEF Flat
<1>7. e \in from .. len /\ t[e] \in S /\ \A n \in from .. e - 1 : t[n] \notin S
  BY <1>1, <1>4 DEF IsFirst
<1>8. from \in {o + 1, o + 2}
  BY <1>4
<1>9. t[m] \in S /\ Closes(t[m]) /\ ~Plain(t[e])
  BY <1>4, <1>6, <1>7
<1>10. ~(e \in o + 1 .. m - 1)
  BY <1>6, <1>9
<1>11. ~(m \in from .. e - 1)
  BY <1>7, <1>9
<1>12. e = m
  BY <1>5, <1>6, <1>7, <1>8, <1>10, <1>11
<1> QED BY <1>1, <1>4, <1>5, <1>6, <1>9, <1>12 DEF Encloses

(* What Outside has passed after n tokens. *)
PassingStates == [in : BOOLEAN, kept : UserTexts]
Unread == [in |-> FALSE, kept |-> <<>>]
IsPassing(f, t) ==
  /\ f[0] = Unread
  /\ \A n \in 1 .. Len(t) : f[n] = Passing(f[n - 1], t[n])
  /\ Outside(t) = f[Len(t)].kept

LEMMA PassingIsTyped ==
  ASSUME NEW c \in PassingStates, NEW tok \in Tokens
  PROVE  Passing(c, tok) \in PassingStates
<1>1. c.kept \in UserTexts
  BY DEF PassingStates
<1>2. PICK k : k = Append(c.kept, tok)
  OBVIOUS
<1>3. k \in UserTexts
  BY <1>1, <1>2 DEF UserTexts
<1>4. [in |-> FALSE, kept |-> k] \in PassingStates
  BY <1>3 DEF PassingStates
<1>5. [in |-> Opens(tok), kept |-> k] \in PassingStates
  <2>1. Opens(tok) \in BOOLEAN
    BY DEF Opens
  <2> QED BY <1>3, <2>1 DEF PassingStates
<1> QED BY <1>2, <1>4, <1>5 DEF Passing

LEMMA OutsideIs ==
  ASSUME NEW t \in UserTexts
  PROVE  \E f : IsPassing(f, t)
<1> DEFINE Tracing(f) == [n \in 0 .. Len(t) |-> IF n = 0 THEN Unread ELSE Passing(f[n - 1], t[n])]
<1>1. PICK upTo : upTo = CHOOSE f : f = Tracing(f)
  OBVIOUS
<1>2. Outside(t) = upTo[Len(t)].kept
  BY <1>1 DEF Outside, Unread
<1>3. PICK len \in Nat : len = Len(t)
  BY DEF UserTexts
<1>4. \A n \in 1 .. len : t[n] \in Tokens
  BY <1>3 DEF UserTexts
<1>5. PICK S : S = PassingStates
  OBVIOUS
<1>6. PICK step : step = [n \in 1 .. len |-> [u \in S |-> Passing(u, t[n])]]
  OBVIOUS
<1>7. step \in [1 .. len -> [S -> S]]
  BY <1>4, <1>5, <1>6, PassingIsTyped
<1>8. Unread \in S
  <2>1. <<>> \in UserTexts
    BY DEF UserTexts
  <2> QED BY <1>5, <2>1 DEF Unread, PassingStates
<1>9. PICK g \in [0 .. len -> S] : IsRecursion(g, Unread, len, step)
  BY <1>7, <1>8, RecursionExists
<1>10. ASSUME NEW n \in 0 .. len
       PROVE  g[n] = IF n = 0 THEN Unread ELSE Passing(g[n - 1], t[n])
  <2>1. CASE n = 0
    BY <1>9, <2>1 DEF IsRecursion
  <2>2. CASE n # 0
    <3>1. n \in 1 .. len /\ n - 1 \in 0 .. len
      BY <2>2
    <3>2. g[n] = step[n][g[n - 1]] /\ g[n - 1] \in S
      BY <1>9, <3>1 DEF IsRecursion
    <3>3. step[n][g[n - 1]] = Passing(g[n - 1], t[n])
      BY <1>6, <3>1, <3>2
    <3> QED BY <2>2, <3>2, <3>3
  <2> QED BY <2>1, <2>2
<1>11. g = Tracing(g)
  BY <1>3, <1>9, <1>10
<1>12. upTo = Tracing(upTo)
  <2> HIDE DEF Tracing
  <2> QED BY <1>1, <1>11
<1>13. \A n \in 0 .. len : upTo[n] = IF n = 0 THEN Unread ELSE Passing(upTo[n - 1], t[n])
  <2>1. PICK h : h = Tracing(upTo)
    OBVIOUS
  <2>2. \A n \in 0 .. len : h[n] = IF n = 0 THEN Unread ELSE Passing(upTo[n - 1], t[n])
    BY <1>3, <2>1
  <2> HIDE DEF Tracing
  <2> QED BY <1>12, <2>1, <2>2
<1> HIDE DEF Tracing
<1>14. upTo[0] = Unread /\ \A n \in 1 .. len : upTo[n] = Passing(upTo[n - 1], t[n])
  BY <1>13
<1> QED BY <1>2, <1>3, <1>14 DEF IsPassing

(* u is t with what stands between p and q replaced by l plain tokens. *)
IsSwap(u, t, p, q, l) ==
  /\ Encloses(t, p, q) /\ l \in Nat /\ l > 0
  /\ Len(u) = p + l + (Len(t) - q + 1)
  /\ \A n \in 1 .. p : u[n] = t[n]
  /\ \A n \in p + 1 .. p + l : Plain(u[n])
  /\ \A j \in 0 .. Len(t) - q : u[p + l + 1 + j] = t[q + j]

LEMMA SwapKeepsOutside ==
  ASSUME NEW t \in UserTexts, NEW u \in UserTexts, NEW p, NEW q, NEW l, IsSwap(u, t, p, q, l)
  PROVE  Outside(u) = Outside(t)
<1>1. PICK len \in Nat : len = Len(t)
  BY DEF UserTexts
<1>2. /\ p \in 1 .. len /\ q \in p + 2 .. len /\ l \in Nat /\ l > 0
      /\ Len(u) = p + l + (len - q + 1)
  BY <1>1 DEF IsSwap, Encloses
<1>3. /\ Opens(t[p]) /\ ~Closes(t[p]) /\ \A k \in p + 1 .. q - 1 : Plain(t[k])
      /\ \A n \in 1 .. p : u[n] = t[n]
      /\ \A n \in p + 1 .. p + l : Plain(u[n])
      /\ \A j \in 0 .. len - q : u[p + l + 1 + j] = t[q + j]
  BY <1>1 DEF IsSwap, Encloses, Opens, Closes
<1>4. PICK f : IsPassing(f, t)
  BY OutsideIs
<1>5. PICK g : IsPassing(g, u)
  BY OutsideIs
<1>6. f[0] = Unread /\ (\A n \in 1 .. len : f[n] = Passing(f[n - 1], t[n])) /\ Outside(t) = f[len].kept
  BY <1>1, <1>4 DEF IsPassing
<1>7. PICK size \in Nat : size = p + l + (len - q + 1)
  BY <1>2
<1>8. g[0] = Unread /\ (\A n \in 1 .. size : g[n] = Passing(g[n - 1], u[n])) /\ Outside(u) = g[size].kept
  BY <1>2, <1>5, <1>7 DEF IsPassing
<1>9. f[p] = g[p]
  <2> DEFINE P == {n \in 0 .. p : f[n] = g[n]}
  <2>1. 0 \in P
    BY <1>2, <1>6, <1>8
  <2>2. ASSUME NEW n \in 1 .. p, n - 1 \in P  PROVE n \in P
    <3>1. n \in 1 .. len /\ n \in 1 .. size /\ u[n] = t[n] /\ f[n - 1] = g[n - 1]
      BY <1>2, <1>3, <1>7, <2>2
    <3>2. f[n] = g[n]
      BY <1>6, <1>8, <3>1
    <3> QED BY <3>2
  <2>3. \A n \in 0 .. p : n \in P
    <3>1. p \in Nat
      BY <1>2
    <3> HIDE DEF P
    <3> QED BY <2>1, <2>2, <3>1, IntervalInduction
  <2> QED BY <1>2, <2>3
<1>10. f[p].in
  <2>1. f[p] = Passing(f[p - 1], t[p])
    BY <1>2, <1>6
  <2>2. PICK c : c = f[p - 1]
    OBVIOUS
  <2>3. CASE c.in
    BY <1>3, <2>1, <2>2, <2>3 DEF Passing
  <2>4. CASE ~c.in
    BY <1>3, <2>1, <2>2, <2>4 DEF Passing
  <2> QED BY <2>3, <2>4
<1>11. PICK c : c = f[p] /\ c = g[p] /\ c.in
  BY <1>9, <1>10
<1>12. ASSUME NEW tok, Plain(tok)  PROVE Passing(c, tok) = c
  BY <1>11, <1>12 DEF Passing, Plain
<1>13. f[q - 1] = c
  <2>1. PICK k \in Nat : k = q - 1 - p
    BY <1>2
  <2> DEFINE P == {n \in 0 .. k : f[p + n] = c}
  <2>2. 0 \in P
    <3>1. p + 0 = p /\ 0 \in 0 .. k
      BY <1>2
    <3>2. f[p + 0] = c
      BY <1>11, <3>1
    <3> QED BY <3>1, <3>2
  <2>3. ASSUME NEW n \in 1 .. k, n - 1 \in P  PROVE n \in P
    <3>1. p + n \in 1 .. len /\ p + n \in p + 1 .. q - 1 /\ (p + n) - 1 = p + (n - 1)
      BY <1>2, <2>1
    <3>2. f[p + n] = Passing(c, t[p + n])
      BY <1>6, <2>3, <3>1
    <3>3. f[p + n] = c
      BY <1>3, <1>12, <3>1, <3>2
    <3> QED BY <3>3
  <2>4. \A n \in 0 .. k : n \in P
    <3> HIDE DEF P
    <3> QED BY <2>2, <2>3, IntervalInduction
  <2>5. p + k = q - 1 /\ k \in P
    BY <1>2, <2>1, <2>4
  <2> QED BY <2>5
<1>14. g[p + l] = c
  <2> DEFINE P == {n \in 0 .. l : g[p + n] = c}
  <2>2. 0 \in P
    <3>1. p + 0 = p /\ 0 \in 0 .. l
      BY <1>2
    <3>2. g[p + 0] = c
      BY <1>11, <3>1
    <3> QED BY <3>1, <3>2
  <2>3. ASSUME NEW n \in 1 .. l, n - 1 \in P  PROVE n \in P
    <3>1. p + n \in 1 .. size /\ p + n \in p + 1 .. p + l /\ (p + n) - 1 = p + (n - 1)
      BY <1>2, <1>7
    <3>2. g[p + n] = Passing(c, u[p + n])
      BY <1>8, <2>3, <3>1
    <3>3. g[p + n] = c
      BY <1>3, <1>12, <3>1, <3>2
    <3> QED BY <3>3
  <2>4. \A n \in 0 .. l : n \in P
    <3>1. l \in Nat
      BY <1>2
    <3> HIDE DEF P
    <3> QED BY <2>2, <2>3, <3>1, IntervalInduction
  <2>5. l \in P
    BY <1>2, <2>4
  <2> QED BY <2>5
<1>15. f[len] = g[size]
  <2>1. PICK k \in Nat : k = len - q + 1
    BY <1>2
  <2> DEFINE P == {j \in 0 .. k : f[q - 1 + j] = g[p + l + j]}
  <2>2. 0 \in P
    BY <1>2, <1>13, <1>14
  <2>3. ASSUME NEW j \in 1 .. k, j - 1 \in P  PROVE j \in P
    <3>1. PICK a, b : a = q - 1 + j /\ b = p + l + j
      OBVIOUS
    <3>2. /\ a \in 1 .. len /\ b \in 1 .. size
          /\ a - 1 = q - 1 + (j - 1) /\ b - 1 = p + l + (j - 1)
          /\ a = q + (j - 1) /\ b = p + l + 1 + (j - 1) /\ j - 1 \in 0 .. len - q
      BY <1>2, <1>7, <2>1, <3>1
    <3>3. f[a - 1] = g[b - 1]
      BY <2>3, <3>2
    <3>4. u[b] = t[a]
      BY <1>3, <3>2
    <3>5. f[a] = g[b]
      BY <1>6, <1>8, <3>2, <3>3, <3>4
    <3> QED BY <3>1, <3>5
  <2>4. \A j \in 0 .. k : j \in P
    <3> HIDE DEF P
    <3> QED BY <2>2, <2>3, IntervalInduction
  <2>5. k \in P
    BY <2>4
  <2>6. q - 1 + k = len /\ p + l + k = size
    BY <1>2, <1>7, <2>1
  <2> QED BY <2>5, <2>6
<1> QED BY <1>6, <1>8, <1>15

(* A flat text stays flat. *)
Opened(t, n) ==
  /\ t[n][1] # "half"
  /\ \E m \in n + 2 .. Len(t) : Matches(t[n], t[m]) /\ \A k \in n + 1 .. m - 1 : Plain(t[k])
Closed(t, m) ==
  \E n \in 1 .. m - 2 : Opens(t[n]) /\ \A k \in n + 1 .. m - 1 : Plain(t[k])

LEMMA MatchCloses ==
  ASSUME NEW a, NEW b, Matches(a, b)
  PROVE  Closes(b) /\ ~Opens(b) /\ ~Plain(b)
BY DEF Matches, Close, EndFence, Closes, Opens, Plain

LEMMA SwapKeepsFlat ==
  ASSUME NEW t \in UserTexts, NEW u \in UserTexts, NEW p, NEW q, NEW l, IsSwap(u, t, p, q, l),
         Flat(t)
  PROVE  Flat(u)
<1>1. PICK len \in Nat : len = Len(t) /\ DOMAIN t = 1 .. len
  BY DEF UserTexts
<1>2. PICK size \in Nat : size = Len(u) /\ DOMAIN u = 1 .. size
  BY DEF UserTexts
<1>3. PICK r \in Nat : r = p + l + 1
  BY DEF IsSwap, Encloses
<1>4. /\ p \in 1 .. len /\ q \in p + 2 .. len /\ l \in Nat /\ l > 0
      /\ size = p + l + (len - q + 1)
  BY <1>1, <1>2 DEF IsSwap, Encloses
<1>5. /\ Opens(t[p]) /\ Closes(t[q]) /\ \A k \in p + 1 .. q - 1 : Plain(t[k])
      /\ \A n \in 1 .. p : u[n] = t[n]
      /\ \A n \in p + 1 .. r - 1 : Plain(u[n])
  BY <1>1, <1>3, <1>4 DEF IsSwap, Encloses
<1>6. ASSUME NEW n \in r .. size
      PROVE  /\ n - r + q \in q .. len
             /\ u[n] = t[n - r + q]
  <2>1. PICK j \in 0 .. len - q : j = n - r
    BY <1>3, <1>4
  <2>2. u[p + l + 1 + j] = t[q + j]
    BY <1>1, <2>1 DEF IsSwap
  <2>3. p + l + 1 + j = n /\ q + j = n - r + q
    BY <1>3, <1>4, <2>1
  <2>4. q + j \in q .. len
    BY <1>4, <2>1
  <2> QED BY <2>2, <2>3, <2>4
<1>7. ASSUME NEW n \in q .. len
      PROVE  /\ n - q + r \in r .. size
             /\ u[n - q + r] = t[n]
  <2>1. PICK k : k = n - q + r
    OBVIOUS
  <2>2. k \in r .. size /\ k - r + q = n
    BY <1>3, <1>4, <2>1
  <2> QED BY <1>6, <2>1, <2>2
<1>8. /\ \A n \in 1 .. len : Opens(t[n]) => Opened(t, n)
      /\ \A m \in 1 .. len : Closes(t[m]) => Closed(t, m)
  BY <1>1 DEF Flat, Opened, Closed
<1>9. ~Plain(t[p]) /\ ~Closes(t[p]) /\ ~Plain(t[q]) /\ ~Opens(t[q])
  BY <1>5 DEF Plain, Opens, Closes
<1>10. ASSUME NEW n \in 1 .. size, Opens(u[n])  PROVE Opened(u, n)
  <2>1. CASE n < p
    <3>1. n \in 1 .. len /\ n \in 1 .. p /\ u[n] = t[n]
      BY <1>4, <1>5, <2>1
    <3>2. PICK m \in n + 2 .. len :
            Matches(t[n], t[m]) /\ \A k \in n + 1 .. m - 1 : Plain(t[k])
      BY <1>1, <1>8, <1>10, <3>1 DEF Opened
    <3>3. m # p
      BY <1>9, <3>2, MatchCloses
    <3>4. ~(p \in n + 1 .. m - 1)
      BY <1>9, <3>2
    <3>5. m < p
      BY <1>4, <2>1, <3>2, <3>3, <3>4
    <3>6. m \in 1 .. p /\ u[m] = t[m]
      BY <1>4, <1>5, <3>1, <3>2, <3>5
    <3>7. \A k \in n + 1 .. m - 1 : u[k] = t[k]
      BY <1>4, <1>5, <3>1, <3>5
    <3>8. t[n][1] # "half"
      BY <1>8, <1>10, <3>1 DEF Opened
    <3>9. m \in n + 2 .. size
      BY <1>4, <3>2, <3>5
    <3> QED BY <1>2, <3>1, <3>2, <3>6, <3>7, <3>8, <3>9 DEF Opened
  <2>2. CASE n = p
    <3>1. u[n] = t[p] /\ t[p][1] # "half"
      BY <1>4, <1>5, <1>8, <2>2 DEF Opened
    <3>2. PICK m \in p + 2 .. len :
            Matches(t[p], t[m]) /\ \A k \in p + 1 .. m - 1 : Plain(t[k])
      BY <1>1, <1>4, <1>5, <1>8 DEF Opened
    <3>3. ~(m \in p + 1 .. q - 1) /\ ~(q \in p + 1 .. m - 1)
      BY <1>5, <1>9, <3>2, MatchCloses
    <3>4. m = q
      BY <1>4, <3>2, <3>3
    <3>5. r \in r .. size /\ u[r] = t[q]
      <4>1. q \in q .. len /\ q - q + r = r
        BY <1>3, <1>4
      <4> QED BY <1>7, <4>1
    <3>6. r \in n + 2 .. size
      BY <1>3, <1>4, <2>2, <3>5
    <3>7. Matches(u[n], u[r]) /\ \A k \in n + 1 .. r - 1 : Plain(u[k])
      BY <1>5, <2>2, <3>1, <3>2, <3>4, <3>5
    <3> QED BY <1>2, <3>1, <3>6, <3>7 DEF Opened
  <2>3. CASE n > p
    <3>1. ~(n \in p + 1 .. r - 1)
      BY <1>5, <1>10 DEF Plain
    <3>2. n \in r .. size
      BY <1>3, <1>4, <2>3, <3>1
    <3>3. PICK i \in q .. len : i = n - r + q /\ u[n] = t[i]
      BY <1>6, <3>2
    <3>4. i \in 1 .. len /\ t[i][1] # "half"
      BY <1>4, <1>8, <1>10, <3>3 DEF Opened
    <3>5. PICK m \in i + 2 .. len :
            Matches(t[i], t[m]) /\ \A k \in i + 1 .. m - 1 : Plain(t[k])
      BY <1>1, <1>8, <1>10, <3>3, <3>4 DEF Opened
    <3>6. PICK o : o = m - q + r /\ o \in r .. size /\ u[o] = t[m]
      <4>1. m \in q .. len
        BY <1>4, <3>3, <3>5
      <4> QED BY <1>7, <4>1
    <3>7. o \in n + 2 .. size
      BY <1>3, <1>4, <3>3, <3>5, <3>6
    <3>8. ASSUME NEW k \in n + 1 .. o - 1  PROVE Plain(u[k])
      <4>1. k \in r .. size
        BY <1>3, <1>4, <3>2, <3>7
      <4>2. k - r + q \in i + 1 .. m - 1
        BY <1>3, <1>4, <3>2, <3>3, <3>5, <3>6
      <4> QED BY <1>6, <3>5, <4>1, <4>2
    <3> QED BY <1>2, <3>3, <3>4, <3>5, <3>6, <3>7, <3>8 DEF Opened
  <2> QED BY <1>4, <2>1, <2>2, <2>3
<1>11. ASSUME NEW m \in 1 .. size, Closes(u[m])  PROVE Closed(u, m)
  <2>1. CASE m <= p
    <3>1. m \in 1 .. len /\ u[m] = t[m]
      BY <1>4, <1>5, <2>1
    <3>2. PICK n \in 1 .. m - 2 : Opens(t[n]) /\ \A k \in n + 1 .. m - 1 : Plain(t[k])
      BY <1>8, <1>11, <3>1 DEF Closed
    <3>3. u[n] = t[n] /\ \A k \in n + 1 .. m - 1 : u[k] = t[k]
      BY <1>4, <1>5, <2>1, <3>2
    <3> QED BY <3>2, <3>3 DEF Closed
  <2>2. CASE m > p /\ m < r
    <3>1. m \in p + 1 .. r - 1
      BY <1>4, <2>2
    <3> QED BY <1>5, <1>11, <3>1 DEF Plain
  <2>3. CASE m = r
    <3>1. p \in 1 .. m - 2 /\ u[p] = t[p]
      BY <1>3, <1>4, <1>5, <2>3
    <3> QED BY <1>5, <2>3, <3>1 DEF Closed
  <2>4. CASE m > r
    <3>1. PICK i \in q .. len : i = m - r + q /\ u[m] = t[i]
      BY <1>3, <1>4, <1>6, <2>4
    <3>2. i \in 1 .. len /\ i > q
      BY <1>3, <1>4, <2>4, <3>1
    <3>3. PICK n \in 1 .. i - 2 : Opens(t[n]) /\ \A k \in n + 1 .. i - 1 : Plain(t[k])
      BY <1>8, <1>11, <3>1, <3>2 DEF Closed
    <3>4. ~(q \in n + 1 .. i - 1) /\ n # q
      BY <1>9, <3>3
    <3>5. n > q /\ n \in q .. len
      BY <1>4, <3>2, <3>3, <3>4
    <3>6. PICK o : o = n - q + r /\ o \in r .. size /\ u[o] = t[n]
      BY <1>7, <3>5
    <3>7. o \in 1 .. m - 2
      BY <1>3, <1>4, <3>1, <3>3, <3>6
    <3>8. ASSUME NEW k \in o + 1 .. m - 1  PROVE Plain(u[k])
      <4>1. k \in r .. size
        BY <1>3, <1>4, <3>6
      <4>2. k - r + q \in n + 1 .. i - 1
        BY <1>3, <1>4, <3>1, <3>3, <3>6
      <4> QED BY <1>6, <3>3, <4>1, <4>2
    <3> QED BY <3>3, <3>6, <3>7, <3>8 DEF Closed
  <2> QED BY <1>3, <1>4, <2>1, <2>2, <2>3, <2>4
<1> QED BY <1>2, <1>10, <1>11 DEF Flat, Opened, Closed
-----------------------------------------------------------------------------
UserTyped ==
  /\ message \in UserTexts
  /\ result \in UserTexts
  /\ rewritten \in BOOLEAN
  /\ searchPos \in Nat \ {0}
  /\ todo \in Seq(WrapperSet)
  /\ at \in {"floor", "scan", "whole", "done"}

(* As long as wrappers follow one another, they go on to do so, and what     *)
(* stands around them has not changed.                                       *)
OutsideIsKept ==
  Flat(message) /\ message[1] # Header =>
    at # "whole" /\ Flat(result) /\ Outside(result) = Outside(message)

UserIInv == UserTyped /\ OutsideIsKept /\ (~rewritten => result = message)

IsText(a, m) == a \in UserTexts /\ m \in Nat /\ Len(a) = m
IsJoin(c, a, b) == c = a \o b

LEMMA Joined ==
  ASSUME NEW a, NEW m, IsText(a, m), NEW b, NEW n, IsText(b, n), NEW c, IsJoin(c, a, b)
  PROVE  /\ IsText(c, m + n)
         /\ \A k \in 1 .. m : c[k] = a[k]
         /\ \A k \in 1 .. n : c[m + k] = b[k]
<1>1. a \in Seq(Tokens) /\ b \in Seq(Tokens) /\ m \in Nat /\ n \in Nat
  BY DEF IsText, UserTexts
<1>2. /\ IsText(c, m + n)
      /\ \A k \in 1 .. m + n : c[k] = IF k <= m THEN a[k] ELSE b[k - m]
  <2>1. PICK x, y, z : x = Len(a) /\ y = Len(b) /\ z = Len(c)
    OBVIOUS
  <2>2. x = m /\ y = n
    BY <2>1 DEF IsText
  <2>3. c = a \o b
    BY DEF IsJoin
  <2>4. c \in Seq(Tokens) /\ Len(c) = x + y
    BY <1>1, <2>1, <2>3, ConcatProperties
  <2>5. \A k \in 1 .. x + y : c[k] = IF k <= x THEN a[k] ELSE b[k - x]
    BY <1>1, <2>1, <2>3, ConcatProperties
  <2>6. m + n \in Nat
    BY <1>1
  <2> QED BY <2>2, <2>4, <2>5, <2>6 DEF IsText, UserTexts
<1>3. ASSUME NEW k \in 1 .. m  PROVE c[k] = a[k]
  <2>1. k \in 1 .. m + n /\ k <= m
    BY <1>1
  <2> QED BY <1>2, <2>1
<1>4. ASSUME NEW k \in 1 .. n  PROVE c[m + k] = b[k]
  <2>1. PICK j : j = m + k
    OBVIOUS
  <2>2. j \in 1 .. m + n /\ ~(j <= m) /\ j - m = k
    BY <1>1, <2>1
  <2> QED BY <1>2, <2>1, <2>2
<1> QED BY <1>2, <1>3, <1>4

LEMMA JoinedPlain ==
  ASSUME NEW a, NEW m, IsText(a, m), NEW b, NEW n, IsText(b, n), NEW c, IsJoin(c, a, b),
         \A k \in 1 .. m : Plain(a[k]), \A k \in 1 .. n : Plain(b[k])
  PROVE  \A k \in 1 .. m + n : Plain(c[k])
<1>1. m \in Nat /\ n \in Nat
  BY DEF IsText
<1>2. \A k \in 1 .. m : c[k] = a[k]
  BY Joined
<1>3. \A k \in 1 .. n : c[m + k] = b[k]
  BY Joined
<1>4. ASSUME NEW k \in 1 .. m + n  PROVE Plain(c[k])
  <2>1. CASE k <= m
    <3>1. k \in 1 .. m
      BY <2>1
    <3> QED BY <1>2, <3>1
  <2>2. CASE k > m
    <3>1. PICK x : x = k - m
      OBVIOUS
    <3>2. x \in 1 .. n /\ m + x = k
      BY <1>1, <2>2, <3>1
    <3>3. c[m + x] = b[x] /\ Plain(b[x])
      BY <1>3, <3>2
    <3> QED BY <3>2, <3>3
  <2> QED BY <1>1, <2>1, <2>2
<1> QED BY <1>4

LEMMA DistilledIs ==
  ASSUME NEW inner \in UserTexts, NEW d \in Distilled(inner)
  PROVE  /\ d \in UserTexts /\ Len(d) > 0
         /\ (\A n \in 1 .. Len(inner) : Plain(inner[n])) => \A n \in 1 .. Len(d) : Plain(d[n])
<1>1. PICK m \in Nat : m = Len(inner)
  BY DEF UserTexts
<1>2. PICK i \in 0 .. m, n \in 1 .. m :
        d = SubSeq(inner, 1, i) \o <<Marker>> \o SubSeq(inner, i + n + 1, m)
  <2>1. d \in UNION {{Elided(inner, i, n) : n \in 1 .. Len(inner)} : i \in 0 .. Len(inner)}
    BY DEF Distilled
  <2>2. PICK i \in 0 .. Len(inner), n \in 1 .. Len(inner) : d = Elided(inner, i, n)
    BY <2>1
  <2> QED BY <1>1, <2>2 DEF Elided
<1>3. PICK a, b, one : /\ a = SubSeq(inner, 1, i) /\ b = SubSeq(inner, i + n + 1, m)
                       /\ one = <<Marker>>
  OBVIOUS
<1>4. \A k \in 1 .. m : inner[k] \in Tokens
  BY <1>1 DEF UserTexts
<1>5. a \in UserTexts /\ Len(a) = i /\ \A k \in 1 .. i : a[k] = inner[k]
  BY <1>1, <1>3, <1>4 DEF UserTexts
<1>6. /\ b \in UserTexts
      /\ \A k \in 1 .. Len(b) : b[k] = inner[i + n + 1 + k - 1] /\ i + n + 1 + k - 1 \in 1 .. m
  BY <1>1, <1>3, <1>4 DEF UserTexts
<1>7. one \in UserTexts /\ Len(one) = 1 /\ one[1] = Marker
  <2>1. Marker \in Tokens
    BY DEF Tokens
  <2>2. PICK mark : mark = Marker
    OBVIOUS
  <2>3. mark \in Tokens /\ one = <<mark>>
    BY <1>3, <2>1, <2>2
  <2> QED BY <2>2, <2>3 DEF UserTexts
<1>8. PICK c : c = a \o one
  OBVIOUS
<1>9. PICK j : j = Len(b)
  OBVIOUS
<1>10. IsText(a, i) /\ IsText(one, 1) /\ IsText(b, j)
  <2>1. j \in Nat
    BY <1>6, <1>9 DEF UserTexts
  <2> QED BY <1>5, <1>6, <1>7, <1>9, <2>1 DEF IsText
<1>11. IsJoin(c, a, one) /\ IsJoin(d, c, b)
  BY <1>2, <1>3, <1>8 DEF IsJoin
<1>12. IsText(c, i + 1)
  BY <1>10, <1>11, Joined
<1>13. IsText(d, (i + 1) + j)
  BY <1>10, <1>11, <1>12, Joined
<1>14. ASSUME \A k \in 1 .. m : Plain(inner[k])  PROVE \A k \in 1 .. (i + 1) + j : Plain(d[k])
  <2>1. \A k \in 1 .. i : Plain(a[k])
    BY <1>5, <1>14
  <2>2. \A k \in 1 .. 1 : Plain(one[k])
    <3>1. Plain(Marker)
      BY DEF Plain, Marker, Opens, Closes
    <3> QED BY <1>7, <3>1
  <2>3. \A k \in 1 .. j : Plain(b[k])
    BY <1>6, <1>9, <1>14
  <2>4. \A k \in 1 .. i + 1 : Plain(c[k])
    BY <1>10, <1>11, <2>1, <2>2, JoinedPlain
  <2> QED BY <1>10, <1>11, <1>12, <2>3, <2>4, JoinedPlain
<1>15. (i + 1) + j > 0
  BY <1>10 DEF IsText
<1>16. d \in UserTexts /\ Len(d) = (i + 1) + j
  BY <1>13 DEF IsText
<1> QED BY <1>1, <1>14, <1>15, <1>16

(* What Replace makes of the text. *)
LEMMA Replacing ==
  ASSUME NEW t \in UserTexts, NEW a \in 2 .. Len(t), NEW q \in a .. Len(t),
         NEW d \in Distilled(SubSeq(t, a, q - 1)),
         NEW u, u = SubSeq(t, 1, a - 1) \o d \o SubSeq(t, q, Len(t))
  PROVE  /\ u \in UserTexts
         /\ Encloses(t, a - 1, q) => IsSwap(u, t, a - 1, q, Len(d))
<1>1. PICK len \in Nat : len = Len(t)
  BY DEF UserTexts
<1>2. PICK p \in Nat : p = a - 1 /\ p + 1 = a /\ p \in 1 .. len
  BY <1>1
<1>3. \A k \in 1 .. len : t[k] \in Tokens
  BY <1>1 DEF UserTexts
<1>4. PICK inner : inner = SubSeq(t, a, q - 1)
  OBVIOUS
<1>5. /\ inner \in UserTexts /\ Len(inner) = q - a
      /\ \A k \in 1 .. q - a : inner[k] = t[p + k]
  BY <1>1, <1>2, <1>3, <1>4 DEF UserTexts
<1>6. PICK l : l = Len(d)
  OBVIOUS
<1>7. /\ d \in UserTexts /\ l > 0
      /\ (\A n \in 1 .. Len(inner) : Plain(inner[n])) => \A n \in 1 .. l : Plain(d[n])
  BY <1>4, <1>5, <1>6, DistilledIs
<1>8. l \in Nat
  BY <1>6, <1>7 DEF UserTexts
<1>9. PICK x, y : x = SubSeq(t, 1, p) /\ y = SubSeq(t, q, len)
  OBVIOUS
<1>10. x \in UserTexts /\ Len(x) = p /\ \A k \in 1 .. p : x[k] = t[k]
  BY <1>1, <1>2, <1>3, <1>9 DEF UserTexts
<1>11. PICK k \in Nat : k = len - q + 1
  <2>1. q \in a .. len /\ a \in 2 .. len
    BY <1>1
  <2> QED BY <2>1
<1>12. y \in UserTexts /\ Len(y) = k /\ \A j \in 1 .. k : y[j] = t[q + j - 1]
  BY <1>1, <1>3, <1>9, <1>11 DEF UserTexts
<1>13. PICK v : v = x \o d
  OBVIOUS
<1>14. PICK h \in Nat : h = p + l
  BY <1>8
<1>15. /\ IsText(v, h)
       /\ \A n \in 1 .. p : v[n] = x[n]
       /\ \A n \in 1 .. l : v[p + n] = d[n]
  <2>1. IsText(x, p) /\ IsText(d, l) /\ IsJoin(v, x, d)
    BY <1>6, <1>7, <1>8, <1>10, <1>13 DEF IsText, IsJoin
  <2> QED BY <1>14, <2>1, Joined
<1>16. /\ IsText(u, h + k)
       /\ \A n \in 1 .. h : u[n] = v[n]
       /\ \A n \in 1 .. k : u[h + n] = y[n]
  <2>1. u = v \o y
    BY <1>1, <1>2, <1>9, <1>13
  <2>2. IsText(y, k) /\ IsJoin(u, v, y)
    BY <1>12, <2>1 DEF IsText, IsJoin
  <2>3. IsText(v, h)
    BY <1>15
  <2> QED BY ONLY <2>2, <2>3, Joined
<1>17. ASSUME NEW n \in 1 .. p  PROVE u[n] = t[n]
  <2>1. n \in 1 .. h
    BY <1>8, <1>14
  <2>2. u[n] = v[n] /\ v[n] = x[n] /\ x[n] = t[n]
    BY <1>10, <1>15, <1>16, <2>1
  <2> QED BY <2>2
<1>18. ASSUME NEW n \in p + 1 .. p + l  PROVE u[n] = d[n - p] /\ n - p \in 1 .. l
  <2>1. PICK i \in 1 .. l : i = n - p /\ p + i = n
    BY <1>8
  <2>2. n \in 1 .. h
    BY <1>8, <1>14
  <2> QED BY <1>15, <1>16, <2>1, <2>2
<1>19. ASSUME NEW j \in 0 .. len - q  PROVE u[p + l + 1 + j] = t[q + j]
  <2>1. PICK i \in 1 .. k : i = j + 1
    BY <1>1, <1>11
  <2>2. p + l + 1 + j = h + i /\ q + i - 1 = q + j
    BY <1>1, <1>8, <1>14, <2>1
  <2>3. u[h + i] = y[i] /\ y[i] = t[q + i - 1]
    BY <1>12, <1>16
  <2> QED BY <2>2, <2>3
<1>20. ASSUME Encloses(t, p, q)  PROVE IsSwap(u, t, p, q, l)
  <2>1. \A n \in 1 .. q - a : Plain(inner[n])
    <3> SUFFICES ASSUME NEW n \in 1 .. q - a PROVE Plain(inner[n])
      OBVIOUS
    <3>1. p + n \in p + 1 .. q - 1
      BY <1>2
    <3>2. Plain(t[p + n])
      BY <1>20, <3>1 DEF Encloses
    <3> QED BY <1>5, <3>2
  <2>2. \A n \in 1 .. l : Plain(d[n])
    BY <1>5, <1>7, <2>1
  <2>3. \A n \in p + 1 .. p + l : Plain(u[n])
    BY <1>18, <2>2
  <2>4. Len(u) = p + l + (len - q + 1)
    BY <1>8, <1>11, <1>14, <1>16 DEF IsText
  <2> QED BY <1>1, <1>7, <1>8, <1>17, <1>19, <1>20, <2>3, <2>4 DEF IsSwap
<1>21. u \in UserTexts
  BY <1>16 DEF IsText
<1> QED BY <1>2, <1>6, <1>20, <1>21

LEMMA UserInitOK ==
  ASSUME UserInit
  PROVE  UserIInv
<1>1. message \in UserTexts
  BY UserTextAssumption DEF UserInit, UserTexts
<1>2. todo \in Seq(WrapperSet)
  BY WrappersAre DEF UserInit
<1>3. result = message /\ rewritten = FALSE /\ searchPos = 1 /\ at = "floor"
  BY DEF UserInit
<1>4. UserTyped
  <2>1. rewritten \in BOOLEAN
    BY <1>3
  <2>2. result \in UserTexts
    BY <1>1, <1>3
  <2>3. searchPos \in Nat \ {0} /\ at \in {"floor", "scan", "whole", "done"}
    BY <1>3
  <2> QED BY <1>1, <1>2, <2>1, <2>2, <2>3 DEF UserTyped
<1>5. OutsideIsKept
  BY <1>3 DEF OutsideIsKept
<1> QED BY <1>3, <1>4, <1>5 DEF UserIInv

(* Whatever a pass makes of a region, the text around it is the same. *)
LEMMA ReplaceKeeps ==
  ASSUME UserIInv, Replace
  PROVE  UserIInv'
<1>1. UserTyped /\ OutsideIsKept
  BY DEF UserIInv
<1>2. result \in UserTexts /\ searchPos \in Nat /\ searchPos > 0 /\ todo \in Seq(WrapperSet)
  BY <1>1 DEF UserTyped
<1>3. PICK r \in Region(result, searchPos, Head(todo)) :
        \E d \in Distilled(SubSeq(result, r[1], r[2] - 1)) :
          /\ result' = SubSeq(result, 1, r[1] - 1) \o d \o SubSeq(result, r[2], Len(result))
          /\ searchPos' = r[1] + Len(d) + 1
  BY DEF Replace
<1>4. PICK d \in Distilled(SubSeq(result, r[1], r[2] - 1)) :
        /\ result' = SubSeq(result, 1, r[1] - 1) \o d \o SubSeq(result, r[2], Len(result))
        /\ searchPos' = r[1] + Len(d) + 1
  BY <1>3
<1>5. PICK a, q : a = r[1] /\ q = r[2]
  OBVIOUS
<1>6. a \in 2 .. Len(result) /\ q \in a .. Len(result)
  BY <1>2, <1>5, RegionIsIn
<1>7. PICK u : u = result'
  OBVIOUS
<1>8. d \in Distilled(SubSeq(result, a, q - 1))
  BY <1>4, <1>5
<1>9. u = SubSeq(result, 1, a - 1) \o d \o SubSeq(result, q, Len(result))
  BY <1>4, <1>5, <1>7
<1>10. /\ u \in UserTexts
       /\ Encloses(result, a - 1, q) => IsSwap(u, result, a - 1, q, Len(d))
  BY <1>2, <1>6, <1>8, <1>9, Replacing
<1>11. UNCHANGED <<message, todo, at>> /\ rewritten' = TRUE /\ todo # <<>> /\ at = "scan"
  BY DEF Replace
<1>12. searchPos' \in Nat \ {0}
  <2>1. PICK len \in Nat : len = Len(result)
    BY <1>2 DEF UserTexts
  <2>2. PICK inner : inner = SubSeq(result, a, q - 1)
    OBVIOUS
  <2>3. inner \in UserTexts
    <3>1. \A k \in 1 .. len : result[k] \in Tokens
      BY <1>2, <2>1 DEF UserTexts
    <3> QED BY <1>6, <2>1, <2>2, <3>1 DEF UserTexts
  <2>4. d \in UserTexts
    BY <1>8, <2>2, <2>3, DistilledIs
  <2>5. PICK l \in Nat : l = Len(d)
    BY <2>4 DEF UserTexts
  <2>6. searchPos' = a + l + 1
    BY <1>4, <1>5, <2>5
  <2> QED BY <1>6, <2>1, <2>6
<1>13. UserTyped'
  BY <1>1, <1>7, <1>10, <1>11, <1>12 DEF UserTyped
<1>14. OutsideIsKept'
  <2> SUFFICES ASSUME Flat(message), message[1] # Header
               PROVE  at # "whole" /\ Flat(u) /\ Outside(u) = Outside(message)
    BY <1>7, <1>11 DEF OutsideIsKept
  <2>1. Flat(result) /\ Outside(result) = Outside(message)
    BY <1>1 DEF OutsideIsKept
  <2>2. Head(todo) \in WrapperSet
    BY <1>2, <1>11
  <2>3. Encloses(result, a - 1, q)
    BY <1>2, <1>5, <2>1, <2>2, FlatRegion
  <2>4. IsSwap(u, result, a - 1, q, Len(d))
    BY <1>10, <2>3
  <2>5. Flat(u)
    BY <1>2, <1>10, <2>1, <2>4, SwapKeepsFlat
  <2>6. Outside(u) = Outside(result)
    BY <1>2, <1>10, <2>4, SwapKeepsOutside
  <2> QED BY <1>11, <2>1, <2>5, <2>6
<1> QED BY <1>11, <1>13, <1>14 DEF UserIInv

LEMMA UserNextKeeps ==
  ASSUME UserIInv, [UserNext]_userVars
  PROVE  UserIInv'
<1>1. UserTyped /\ OutsideIsKept /\ (~rewritten => result = message)
  BY DEF UserIInv
<1>2. CASE Floor
  <2>1. UNCHANGED <<message, result, rewritten, searchPos, todo>> /\ at' \in {"done", "scan"}
    BY <1>2 DEF Floor
  <2>2. UserTyped'
    BY <1>1, <2>1 DEF UserTyped
  <2>3. OutsideIsKept'
    BY <1>1, <2>1 DEF OutsideIsKept
  <2> QED BY <1>1, <2>1, <2>2, <2>3 DEF UserIInv
<1>3. CASE Replace
  BY <1>3, ReplaceKeeps
<1>4. CASE Leave
  <2>1. PICK r \in Region(result, searchPos, Head(todo)) : searchPos' = r[2] + 1
    BY <1>4 DEF Leave
  <2>2. result \in UserTexts /\ searchPos \in Nat /\ searchPos > 0
    BY <1>1 DEF UserTyped
  <2>3. r[1] \in 2 .. Len(result) /\ r[2] \in r[1] .. Len(result)
    BY <2>2, RegionIsIn
  <2>4. PICK len \in Nat : len = Len(result)
    BY <2>2 DEF UserTexts
  <2>5. searchPos' \in Nat \ {0}
    BY <2>1, <2>3, <2>4
  <2>6. UNCHANGED <<message, result, rewritten, todo, at>>
    BY <1>4 DEF Leave
  <2>7. UserTyped'
    BY <1>1, <2>5, <2>6 DEF UserTyped
  <2>8. OutsideIsKept'
    BY <1>1, <2>6 DEF OutsideIsKept
  <2> QED BY <1>1, <2>6, <2>7, <2>8 DEF UserIInv
<1>5. CASE NextWrapper
  <2>1. UNCHANGED <<message, result, rewritten, at>> /\ searchPos' = 1
    BY <1>5 DEF NextWrapper
  <2>2. todo' \in Seq(WrapperSet)
    BY <1>1, <1>5 DEF NextWrapper, UserTyped
  <2>3. UserTyped'
    BY <1>1, <2>1, <2>2 DEF UserTyped
  <2>4. OutsideIsKept'
    BY <1>1, <2>1 DEF OutsideIsKept
  <2> QED BY <1>1, <2>1, <2>3, <2>4 DEF UserIInv
<1>6. CASE Scanned
  <2>1. /\ UNCHANGED <<message, result, rewritten, searchPos, todo>>
        /\ at' = IF ~rewritten /\ result[1] = Header THEN "whole" ELSE "done"
    BY <1>6 DEF Scanned
  <2>2. at' = "whole" => message[1] = Header
    BY <1>1, <2>1
  <2>3. UserTyped'
    BY <1>1, <2>1 DEF UserTyped
  <2>4. OutsideIsKept'
    BY <1>1, <2>1, <2>2 DEF OutsideIsKept
  <2> QED BY <1>1, <2>1, <2>3, <2>4 DEF UserIInv
<1>7. CASE Whole
  <2>1. UNCHANGED <<message, searchPos, todo>> /\ at = "whole" /\ at' = "done"
    BY <1>7 DEF Whole
  <2>2. \/ result' \in UserTexts /\ rewritten' = TRUE
        \/ UNCHANGED <<result, rewritten>>
    <3>1. CASE UNCHANGED <<result, rewritten>>
      BY <3>1
    <3>2. CASE \E d \in Distilled(result) : result' = d /\ rewritten' = TRUE
      <4>1. PICK d \in Distilled(result) : result' = d /\ rewritten' = TRUE
        BY <3>2
      <4>2. result \in UserTexts
        BY <1>1 DEF UserTyped
      <4>3. d \in UserTexts
        BY <4>2, DistilledIs
      <4> QED BY <4>1, <4>3
    <3> QED BY <1>7, <3>1, <3>2 DEF Whole
  <2>3. UserTyped'
    BY <1>1, <2>1, <2>2 DEF UserTyped
  <2>4. OutsideIsKept'
    BY <1>1, <2>1 DEF OutsideIsKept
  <2> QED BY <1>1, <2>1, <2>2, <2>3, <2>4 DEF UserIInv
<1>8. CASE UNCHANGED userVars
  BY <1>1, <1>8 DEF userVars, UserIInv, UserTyped, OutsideIsKept
<1> QED BY <1>2, <1>3, <1>4, <1>5, <1>6, <1>7, <1>8 DEF UserNext, ScanOver

(* The scan of a user text keeps its state within its types, whatever the    *)
(* wrappers hold.                                                            *)
THEOREM UserTypeCorrect == UserSpec => []UserTyped
<1>1. UserInit => UserIInv
  BY UserInitOK
<1>2. UserIInv /\ [UserNext]_userVars => UserIInv'
  BY UserNextKeeps
<1>3. UserIInv => UserTyped
  BY DEF UserIInv
<1> QED BY <1>1, <1>2, <1>3, PTL DEF UserSpec

(* Around the machine output a user has pasted, wrapper after wrapper, not   *)
(* a token changes: for any wrappers, any text of that shape and any elision *)
(* the passes make.                                                          *)
THEOREM SurroundingsAreKept == UserSpec => []OnlyContentChanges
<1>1. UserInit => UserIInv
  BY UserInitOK
<1>2. UserIInv /\ [UserNext]_userVars => UserIInv'
  BY UserNextKeeps
<1>3. UserIInv => OnlyContentChanges
  BY DEF UserIInv, OutsideIsKept, OnlyContentChanges
<1> QED BY <1>1, <1>2, <1>3, PTL DEF UserSpec

-----------------------------------------------------------------------------
(* The JSON distiller: sequences. *)
Cat(a, b) == a \o b

LEMMA CatIs ==
  ASSUME NEW X, NEW a \in Seq(X), NEW b \in Seq(X)
  PROVE  Cat(a, b) \in Seq(X) /\ Len(Cat(a, b)) = Len(a) + Len(b)
BY DEF Cat

IsFlattening(f, ps, len, X) ==
  /\ ps \in Seq(Seq(X)) /\ len = Len(ps)
  /\ f \in [0 .. len -> Seq(X)]
  /\ f[0] = <<>>
  /\ \A n \in 1 .. len : f[n] = Cat(f[n - 1], ps[n])

LEMMA FlattenIs ==
  ASSUME NEW X, NEW ps \in Seq(Seq(X)), NEW len, len = Len(ps)
  PROVE  \E f : IsFlattening(f, ps, len, X) /\ Flatten(ps) = f[len]
<1> DEFINE Flattening(f) ==
             [n \in 0 .. Len(ps) |-> IF n = 0 THEN <<>> ELSE Cat(f[n - 1], ps[n])]
           Wordings == Seq(X)
<1>1. PICK upTo : upTo = CHOOSE f : f = Flattening(f)
  OBVIOUS
<1>2. Flatten(ps) = upTo[Len(ps)]
  BY <1>1 DEF Flatten, Cat
<1>3. len \in Nat /\ len = Len(ps) /\ \A n \in 1 .. len : ps[n] \in Wordings
  OBVIOUS
<1>4. \A a, b \in Wordings : Cat(a, b) \in Wordings
  BY CatIs
<1>5. PICK none : none = <<>>
  OBVIOUS
<1>6. none \in Wordings
  BY <1>5
<1> HIDE DEF Wordings
<1>7. PICK step : step = [n \in 1 .. len |-> [u \in Wordings |-> Cat(u, ps[n])]]
  OBVIOUS
<1>8. step \in [1 .. len -> [Wordings -> Wordings]]
  BY <1>3, <1>4, <1>7
<1>9. PICK g : g \in [0 .. len -> Wordings] /\ IsRecursion(g, none, len, step)
  BY <1>3, <1>6, <1>8, RecursionExists
<1>10. ASSUME NEW n \in 0 .. len
       PROVE  g[n] = IF n = 0 THEN none ELSE Cat(g[n - 1], ps[n])
  <2>1. CASE n = 0
    BY <1>9, <2>1 DEF IsRecursion
  <2>2. CASE n # 0
    <3>1. n \in 1 .. len /\ n - 1 \in 0 .. len
      BY <1>3, <2>2
    <3>2. g[n] = step[n][g[n - 1]] /\ g[n - 1] \in Wordings
      BY <1>9, <3>1 DEF IsRecursion
    <3>3. step[n][g[n - 1]] = Cat(g[n - 1], ps[n])
      BY <1>7, <3>1, <3>2
    <3> QED BY <2>2, <3>2, <3>3
  <2> QED BY <2>1, <2>2
<1>11. g = Flattening(g)
  BY <1>3, <1>5, <1>9, <1>10
<1>12. upTo = Flattening(upTo)
  <2> HIDE DEF Flattening
  <2> QED BY <1>1, <1>11
<1>13. \A n \in 0 .. len : upTo[n] = IF n = 0 THEN none ELSE Cat(upTo[n - 1], ps[n])
  <2>1. PICK h : h = Flattening(upTo)
    OBVIOUS
  <2>2. \A n \in 0 .. len : h[n] = IF n = 0 THEN none ELSE Cat(upTo[n - 1], ps[n])
    BY <1>3, <1>5, <2>1
  <2> HIDE DEF Flattening
  <2> QED BY <1>12, <2>1, <2>2
<1>14. DOMAIN upTo = 0 .. len /\ upTo = [n \in DOMAIN upTo |-> upTo[n]]
  BY <1>3, <1>12
<1> HIDE DEF Flattening
<1> DEFINE P == {n \in 0 .. len : upTo[n] \in Wordings}
<1>15. 0 \in P
  BY <1>3, <1>6, <1>13
<1>16. ASSUME NEW n \in 1 .. len, n - 1 \in P  PROVE n \in P
  <2>1. n \in 0 .. len /\ n # 0
    BY <1>3
  <2>2. upTo[n - 1] \in Wordings /\ ps[n] \in Wordings /\ upTo[n] = Cat(upTo[n - 1], ps[n])
    BY <1>3, <1>13, <1>16, <2>1
  <2>3. upTo[n] \in Wordings
    BY <1>4, <2>2
  <2> QED BY <2>1, <2>3
<1>17. \A n \in 0 .. len : n \in P
  <2> HIDE DEF P
  <2> QED BY <1>3, <1>15, <1>16, IntervalInduction
<1>18. upTo \in [0 .. len -> Wordings]
  BY <1>14, <1>17
<1>19. upTo[0] = <<>> /\ \A n \in 1 .. len : upTo[n] = Cat(upTo[n - 1], ps[n])
  <2>1. \A n \in 1 .. len : n \in 0 .. len /\ n # 0
    BY <1>3
  <2>2. 0 \in 0 .. len
    BY <1>3
  <2> QED BY <1>5, <1>13, <2>1, <2>2
<1>20. IsFlattening(upTo, ps, len, X)
  BY <1>3, <1>18, <1>19 DEF IsFlattening, Wordings
<1> QED BY <1>2, <1>3, <1>20

(* Flattening is what the prefixes of any such function are. *)
LEMMA FlattenUnique ==
  ASSUME NEW X, NEW ps, NEW len, NEW f, IsFlattening(f, ps, len, X)
  PROVE  Flatten(ps) = f[len]
<1>0. ps \in Seq(Seq(X)) /\ len = Len(ps)
  BY DEF IsFlattening
<1>1. PICK g : IsFlattening(g, ps, len, X) /\ Flatten(ps) = g[len]
  BY <1>0, FlattenIs
<1>2. len \in Nat
  BY <1>0
<1>3. /\ f[0] = g[0]
      /\ \A n \in 1 .. len : f[n] = Cat(f[n - 1], ps[n]) /\ g[n] = Cat(g[n - 1], ps[n])
  BY <1>1 DEF IsFlattening
<1> DEFINE P == {n \in 0 .. len : f[n] = g[n]}
<1>4. 0 \in P
  BY <1>2, <1>3
<1>5. ASSUME NEW n \in 1 .. len, n - 1 \in P  PROVE n \in P
  <2>1. f[n - 1] = g[n - 1] /\ n \in 0 .. len
    BY <1>2, <1>5
  <2>2. f[n] = g[n]
    BY <1>3, <2>1
  <2> QED BY <2>1, <2>2
<1>6. \A n \in 0 .. len : n \in P
  <2> HIDE DEF P
  <2> QED BY <1>2, <1>4, <1>5, IntervalInduction
<1> QED BY <1>1, <1>2, <1>6

LEMMA FlattenTyped ==
  ASSUME NEW X, NEW ps \in Seq(Seq(X))
  PROVE  Flatten(ps) \in Seq(X)
<1>1. PICK len : len = Len(ps)
  OBVIOUS
<1>2. PICK f : IsFlattening(f, ps, len, X) /\ Flatten(ps) = f[len]
  BY <1>1, FlattenIs
<1> QED BY <1>1, <1>2 DEF IsFlattening

LEMMA FlattenMore ==
  ASSUME NEW X, NEW ps \in Seq(Seq(X)), NEW p \in Seq(X)
  PROVE  Flatten(Append(ps, p)) = Cat(Flatten(ps), p)
<1>1. PICK len : len = Len(ps)
  OBVIOUS
<1>2. PICK f : IsFlattening(f, ps, len, X) /\ Flatten(ps) = f[len]
  BY <1>1, FlattenIs
<1>3. PICK more : more = Append(ps, p)
  OBVIOUS
<1>4. more \in Seq(Seq(X)) /\ Len(more) = len + 1 /\ len \in Nat
  BY <1>1, <1>3
<1>5. more[len + 1] = p /\ \A n \in 1 .. len : more[n] = ps[n]
  BY <1>1, <1>3, AppendProperties
<1>6. PICK g : g = [n \in 0 .. len + 1 |-> IF n = len + 1 THEN Cat(f[len], p) ELSE f[n]]
  OBVIOUS
<1>6a. /\ f \in [0 .. len -> Seq(X)] /\ f[0] = <<>>
       /\ \A n \in 1 .. len : f[n] = Cat(f[n - 1], ps[n])
  BY <1>2 DEF IsFlattening
<1>7. IsFlattening(g, more, len + 1, X)
  <2>1. g \in [0 .. len + 1 -> Seq(X)]
    <3>1. Cat(f[len], p) \in Seq(X)
      <4>1. f[len] \in Seq(X)
        BY <1>4, <1>6a
      <4> QED BY <4>1, CatIs
    <3>2. \A n \in 0 .. len + 1 : n # len + 1 => f[n] \in Seq(X)
      BY <1>4, <1>6a
    <3> QED BY <1>6, <3>1, <3>2
  <2>2. g[0] = <<>>
    BY <1>4, <1>6, <1>6a
  <2>3. ASSUME NEW n \in 1 .. len + 1  PROVE g[n] = Cat(g[n - 1], more[n])
    <3>1. g[n - 1] = f[n - 1]
      BY <1>4, <1>6
    <3>2. CASE n = len + 1
      <4>1. g[n] = Cat(f[len], p) /\ more[n] = p /\ n - 1 = len
        BY <1>4, <1>5, <1>6, <3>2
      <4> QED BY <3>1, <4>1
    <3>3. CASE n # len + 1
      <4>1. n \in 1 .. len
        BY <1>4, <3>3
      <4>2. g[n] = f[n] /\ more[n] = ps[n]
        BY <1>4, <1>5, <1>6, <3>3, <4>1
      <4>3. f[n] = Cat(f[n - 1], ps[n])
        BY <1>6a, <4>1
      <4> QED BY <3>1, <4>2, <4>3
    <3> QED BY <3>2, <3>3
  <2> QED BY <1>4, <2>1, <2>2, <2>3 DEF IsFlattening
<1>8. Flatten(more) = g[len + 1]
  BY <1>4, <1>7, FlattenUnique
<1> QED BY <1>2, <1>3, <1>4, <1>6, <1>8

Grows(f, ps, n, X) ==
  /\ f[n - 1] \in Seq(X) /\ ps[n] \in Seq(X) /\ f[n] = Cat(f[n - 1], ps[n])
  /\ Len(f[n - 1]) \in Nat /\ Len(ps[n]) \in Nat
  /\ Len(f[n]) = Len(f[n - 1]) + Len(ps[n])

LEMMA FlatteningGrows ==
  ASSUME NEW X, NEW ps, NEW len, NEW f, IsFlattening(f, ps, len, X), NEW n \in 1 .. len
  PROVE  Grows(f, ps, n, X)
<1>1. PICK u, p : u = f[n - 1] /\ p = ps[n]
  OBVIOUS
<1>2. ps \in Seq(Seq(X)) /\ len = Len(ps) /\ len \in Nat /\ n - 1 \in 0 .. len
  BY DEF IsFlattening
<1>3. u \in Seq(X) /\ f[n] = Cat(u, p)
  BY <1>1, <1>2 DEF IsFlattening
<1>4. p \in Seq(X)
  BY <1>1, <1>2
<1>5. Len(f[n]) = Len(u) + Len(p)
  BY <1>3, <1>4, CatIs
<1>6. Len(u) \in Nat /\ Len(p) \in Nat
  BY <1>3, <1>4
<1> QED BY <1>1, <1>3, <1>4, <1>5, <1>6 DEF Grows

Pieces(ps, X, len) == ps \in Seq(Seq(X)) /\ Len(ps) = len
AddUp(ms, as, bs, len) == \A n \in 1 .. len : Len(ms[n]) = Len(as[n]) + Len(bs[n])
SumsTo(ms, as, bs) == Len(Flatten(ms)) = Len(Flatten(as)) + Len(Flatten(bs))

LEMMA FlattenSplit ==
  ASSUME NEW ps, NEW qs, NEW rs, NEW X, NEW Y, NEW Z, NEW len,
         Pieces(ps, X, len), Pieces(qs, Y, len), Pieces(rs, Z, len), AddUp(ps, qs, rs, len)
  PROVE  SumsTo(ps, qs, rs)
<1>0. /\ ps \in Seq(Seq(X)) /\ qs \in Seq(Seq(Y)) /\ rs \in Seq(Seq(Z))
      /\ len = Len(ps) /\ len = Len(qs) /\ len = Len(rs)
  BY DEF Pieces
<1>1. PICK f : IsFlattening(f, ps, len, X) /\ Flatten(ps) = f[len]
  BY <1>0, FlattenIs
<1>2. PICK g : IsFlattening(g, qs, len, Y) /\ Flatten(qs) = g[len]
  BY <1>0, FlattenIs
<1>3. PICK h : IsFlattening(h, rs, len, Z) /\ Flatten(rs) = h[len]
  BY <1>0, FlattenIs
<1>4. len \in Nat
  BY <1>0
<1> DEFINE P == {n \in 0 .. len : Len(f[n]) = Len(g[n]) + Len(h[n])}
<1>5. 0 \in P
  BY <1>1, <1>2, <1>3, <1>4 DEF IsFlattening
<1>6. ASSUME NEW n \in 1 .. len, n - 1 \in P  PROVE n \in P
  <2>1. n - 1 \in 0 .. len /\ n \in 0 .. len
    BY <1>4
  <2>2a. PICK i, j : i = Len(f[n - 1]) /\ j = Len(ps[n])
    OBVIOUS
  <2>2. i \in Nat /\ j \in Nat /\ Len(f[n]) = i + j
    <3>1. Grows(f, ps, n, X)
      BY <1>0, <1>1, FlatteningGrows
    <3> QED BY <2>2a, <3>1 DEF Grows
  <2>3a. PICK k, l : k = Len(g[n - 1]) /\ l = Len(qs[n])
    OBVIOUS
  <2>3. k \in Nat /\ l \in Nat /\ Len(g[n]) = k + l
    <3>1. Grows(g, qs, n, Y)
      BY <1>0, <1>2, FlatteningGrows
    <3> QED BY <2>3a, <3>1 DEF Grows
  <2>4a. PICK o, p : o = Len(h[n - 1]) /\ p = Len(rs[n])
    OBVIOUS
  <2>4. o \in Nat /\ p \in Nat /\ Len(h[n]) = o + p
    <3>1. Grows(h, rs, n, Z)
      BY <1>0, <1>3, FlatteningGrows
    <3> QED BY <2>4a, <3>1 DEF Grows
  <2>5. i = k + o
    BY <1>6, <2>2a, <2>3a, <2>4a
  <2>6. j = l + p
    BY <2>2a, <2>3a, <2>4a DEF AddUp
  <2>7. i + j = (k + l) + (o + p)
    BY <2>2, <2>3, <2>4, <2>5, <2>6
  <2>8. Len(f[n]) = Len(g[n]) + Len(h[n])
    BY <2>2, <2>3, <2>4, <2>7
  <2> QED BY <2>1, <2>8
<1>7. \A n \in 0 .. len : n \in P
  <2> HIDE DEF P
  <2> QED BY <1>4, <1>5, <1>6, IntervalInduction
<1>8. len \in P
  <2>1. len \in 0 .. len
    BY <1>4
  <2> HIDE DEF P
  <2> QED BY <1>7, <2>1
<1>9. Len(f[len]) = Len(g[len]) + Len(h[len])
  BY <1>8
<1> QED BY <1>1, <1>2, <1>3, <1>9 DEF SumsTo

LEMMA FlattenAlone ==
  ASSUME NEW X, NEW ps \in Seq(Seq(X)), NEW len, len = Len(ps), NEW m \in 1 .. len,
         \A n \in 1 .. len : n # m => Len(ps[n]) = 0
  PROVE  Len(Flatten(ps)) = Len(ps[m])
<1>1. PICK f : IsFlattening(f, ps, len, X) /\ Flatten(ps) = f[len]
  BY FlattenIs
<1>2. len \in Nat
  OBVIOUS
<1> DEFINE P == {n \in 0 .. len : Len(f[n]) = IF n < m THEN 0 ELSE Len(ps[m])}
<1>3. 0 \in P
  BY <1>1, <1>2 DEF IsFlattening
<1>4. ASSUME NEW n \in 1 .. len, n - 1 \in P  PROVE n \in P
  <2>1. n - 1 \in 0 .. len /\ n \in 0 .. len
    BY <1>2
  <2>2a. PICK i, j : i = Len(f[n - 1]) /\ j = Len(ps[n])
    OBVIOUS
  <2>2. i \in Nat /\ j \in Nat /\ Len(f[n]) = i + j
    <3>1. Grows(f, ps, n, X)
      BY <1>1, FlatteningGrows
    <3> QED BY <2>2a, <3>1 DEF Grows
  <2>3. PICK l : l = Len(ps[m])
    OBVIOUS
  <2>4. i = IF n - 1 < m THEN 0 ELSE l
    BY <1>4, <2>2a, <2>3
  <2>5. j = IF n = m THEN l ELSE 0
    BY <2>2a, <2>3
  <2>6. i + j = IF n < m THEN 0 ELSE l
    <3>1. CASE n < m
      BY <1>2, <2>2, <2>4, <2>5, <3>1
    <3>2. CASE n = m
      BY <1>2, <2>2, <2>4, <2>5, <3>2
    <3>3. CASE n > m
      BY <1>2, <2>2, <2>4, <2>5, <3>3
    <3> QED BY <1>2, <3>1, <3>2, <3>3
  <2>7. Len(f[n]) = IF n < m THEN 0 ELSE Len(ps[m])
    BY <2>2, <2>3, <2>6
  <2> QED BY <2>1, <2>7
<1>5. \A n \in 0 .. len : n \in P
  <2> HIDE DEF P
  <2> QED BY <1>2, <1>3, <1>4, IntervalInduction
<1> QED BY <1>1, <1>2, <1>5

(* x is an element of one of the pieces. *)
InPiece(x, ps) == \E n \in DOMAIN ps : \E m \in DOMAIN ps[n] : x = ps[n][m]

LEMMA FlattenHolds ==
  ASSUME NEW X, NEW ps \in Seq(Seq(X)), NEW k \in DOMAIN Flatten(ps)
  PROVE  InPiece(Flatten(ps)[k], ps)
<1>1. PICK len : len = Len(ps)
  OBVIOUS
<1>2. PICK f : IsFlattening(f, ps, len, X) /\ Flatten(ps) = f[len]
  BY <1>1, FlattenIs
<1>3. len \in Nat
  BY <1>1
<1> DEFINE held(n) == \A i \in 1 .. Len(f[n]) : InPiece(f[n][i], ps)
           P == {n \in 0 .. len : held(n)}
<1>4. 0 \in P
  BY <1>2, <1>3 DEF IsFlattening
<1>5. ASSUME NEW n \in 1 .. len, n - 1 \in P  PROVE n \in P
  <2>1. n - 1 \in 0 .. len /\ n \in 0 .. len
    BY <1>3
  <2>1a. PICK u, p : u = f[n - 1] /\ p = ps[n]
    OBVIOUS
  <2>1b. PICK l, j : l = Len(u) /\ j = Len(p)
    OBVIOUS
  <2>2. /\ u \in Seq(X) /\ p \in Seq(X) /\ f[n] = u \o p
        /\ l \in Nat /\ j \in Nat /\ Len(f[n]) = l + j
    <3>1. Grows(f, ps, n, X)
      BY <1>2, FlatteningGrows
    <3> QED BY <2>1a, <2>1b, <3>1 DEF Grows, Cat
  <2>3. \A i \in 1 .. l : InPiece(u[i], ps)
    BY <1>5, <2>1a, <2>1b
  <2>4. DOMAIN ps = 1 .. len
    BY <1>1
  <2>5. PICK t : t = f[n]
    OBVIOUS
  <2>6. ASSUME NEW i \in 1 .. Len(t)  PROVE InPiece(t[i], ps)
    <3>1. i \in 1 .. l + j /\ t = u \o p /\ DOMAIN p = 1 .. j
      BY <2>1b, <2>2, <2>5
    <3>2. CASE i <= l
      <4>1. i \in 1 .. l
        BY <2>2, <3>1, <3>2
      <4>2. t[i] = u[i]
        BY <2>1b, <2>2, <3>1, <4>1, ConcatProperties
      <4> QED BY <2>3, <4>1, <4>2
    <3>3. CASE i > l
      <4>1. i - l \in 1 .. j
        BY <2>2, <3>1, <3>3
      <4>2. t[i] = p[i - l]
        BY <2>1b, <2>2, <3>1, <3>3, ConcatProperties
      <4> QED BY <2>1a, <2>4, <3>1, <4>1, <4>2 DEF InPiece
    <3> QED BY <2>2, <3>1, <3>2, <3>3
  <2> QED BY <2>1, <2>5, <2>6
<1>6. \A n \in 0 .. len : n \in P
  <2> HIDE DEF P
  <2> QED BY <1>3, <1>4, <1>5, IntervalInduction
<1>7. held(len)
  BY <1>3, <1>6
<1>8. f[len] \in Seq(X)
  BY <1>2, <1>3 DEF IsFlattening
<1>9. k \in 1 .. Len(f[len])
  BY <1>2, <1>8
<1> QED BY <1>2, <1>7, <1>9

IsPicking(f, s, T, len, X) ==
  /\ s \in Seq(X) /\ len = Len(s)
  /\ f \in [0 .. len -> Seq(X)] /\ f[0] = <<>>
  /\ \A n \in 1 .. len : f[n] = IF n \in T THEN Append(f[n - 1], s[n]) ELSE f[n - 1]

IsPicked(s, T, len, X) == \E f : IsPicking(f, s, T, len, X) /\ Pick(s, T) = f[len]

LEMMA PickIs ==
  ASSUME NEW X, NEW s \in Seq(X), NEW T, NEW len, len = Len(s)
  PROVE  IsPicked(s, T, len, X)
<1>1. PICK ps : ps = [n \in DOMAIN s |-> IF n \in T THEN <<s[n]>> ELSE <<>>]
  OBVIOUS
<1>2. ps \in Seq(Seq(X)) /\ Len(ps) = len
  <2>1. len \in Nat /\ DOMAIN s = 1 .. len
    OBVIOUS
  <2>2. ASSUME NEW n \in 1 .. len  PROVE ps[n] \in Seq(X)
    <3>1. PICK x : x = s[n]
      OBVIOUS
    <3>2. x \in X
      BY <3>1
    <3>3. ps[n] = IF n \in T THEN <<x>> ELSE <<>>
      BY <1>1, <2>1, <3>1
    <3> QED BY <3>2, <3>3
  <2> DEFINE Wordings == Seq(X)
  <2>3. \A n \in 1 .. len : ps[n] \in Wordings
    BY <2>2
  <2> HIDE DEF Wordings
  <2>4. ps \in Seq(Wordings) /\ Len(ps) = len
    BY <1>1, <2>1, <2>3
  <2> QED BY <2>4 DEF Wordings
<1>3. PICK f : IsFlattening(f, ps, len, X) /\ Flatten(ps) = f[len]
  BY <1>2, FlattenIs
<1>4. Pick(s, T) = Flatten(ps)
  BY <1>1 DEF Pick
<1>5. /\ f \in [0 .. len -> Seq(X)] /\ f[0] = <<>>
      /\ \A n \in 1 .. len : f[n] = Cat(f[n - 1], ps[n])
  BY <1>3 DEF IsFlattening
<1>6. len \in Nat /\ DOMAIN s = 1 .. len
  OBVIOUS
<1>7. ASSUME NEW n \in 1 .. len
      PROVE  f[n] = IF n \in T THEN Append(f[n - 1], s[n]) ELSE f[n - 1]
  <2>1. PICK u, x : u = f[n - 1] /\ x = s[n]
    OBVIOUS
  <2>2. u \in Seq(X) /\ x \in X /\ f[n] = Cat(u, ps[n])
    BY <1>5, <1>6, <2>1
  <2>3. ps[n] = IF n \in T THEN <<x>> ELSE <<>>
    BY <1>1, <1>6, <2>1
  <2>4. Cat(u, <<x>>) = Append(u, x) /\ Cat(u, <<>>) = u
    BY <2>2 DEF Cat
  <2> QED BY <2>1, <2>2, <2>3, <2>4
<1>8. IsPicking(f, s, T, len, X)
  BY <1>5, <1>7 DEF IsPicking
<1> QED BY <1>3, <1>4, <1>8 DEF IsPicked

(* w says where the elements of p stand among the first n of s. *)
Places(w, p, s, T, n) ==
  /\ w \in [1 .. Len(p) -> 1 .. n]
  /\ \A k \in 1 .. Len(p) : w[k] \in T /\ p[k] = s[w[k]]
  /\ \A k, l \in 1 .. Len(p) : w[k] = w[l] => k = l
  /\ \A m \in 1 .. n : m \in T => \E k \in 1 .. Len(p) : w[k] = m

LEMMA PlacesMore ==
  ASSUME NEW X, NEW s, NEW T, NEW n \in Nat \ {0}, n \in T, NEW p \in Seq(X), s[n] \in X,
         NEW w, Places(w, p, s, T, n - 1)
  PROVE  \E v : Places(v, Append(p, s[n]), s, T, n)
<1>1. PICK x, l : x = s[n] /\ l = Len(p)
  OBVIOUS
<1>2. PICK q : q = Append(p, x)
  OBVIOUS
<1>3. l \in Nat /\ Len(q) = l + 1 /\ q[l + 1] = x /\ \A k \in 1 .. l : q[k] = p[k]
  BY <1>1, <1>2, AppendProperties
<1>4. PICK v : v = [k \in 1 .. l + 1 |-> IF k = l + 1 THEN n ELSE w[k]]
  OBVIOUS
<1>5. /\ w \in [1 .. l -> 1 .. n - 1]
      /\ \A k \in 1 .. l : w[k] \in T /\ p[k] = s[w[k]]
      /\ \A k, m \in 1 .. l : w[k] = w[m] => k = m
      /\ \A m \in 1 .. n - 1 : m \in T => \E k \in 1 .. l : w[k] = m
  BY <1>1 DEF Places
<1>6. /\ v[l + 1] = n
      /\ \A k \in 1 .. l : v[k] = w[k] /\ v[k] \in 1 .. n - 1
  BY <1>3, <1>4, <1>5
<1>7. \A k \in 1 .. l + 1 : k \in 1 .. l \/ k = l + 1
  BY <1>3
<1>8. v \in [1 .. l + 1 -> 1 .. n]
  <2>1. \A k \in 1 .. l + 1 : v[k] \in 1 .. n
    BY <1>6, <1>7
  <2> QED BY <1>4, <2>1
<1>9. \A k \in 1 .. l + 1 : v[k] \in T /\ q[k] = s[v[k]]
  BY <1>1, <1>3, <1>5, <1>6, <1>7
<1>10. \A k, m \in 1 .. l + 1 : v[k] = v[m] => k = m
  BY <1>5, <1>6, <1>7
<1>11. ASSUME NEW m \in 1 .. n, m \in T  PROVE \E k \in 1 .. l + 1 : v[k] = m
  <2>1. CASE m = n
    BY <1>3, <1>6, <2>1
  <2>2. CASE m # n
    <3>1. m \in 1 .. n - 1
      BY <2>2
    <3>2. PICK k \in 1 .. l : w[k] = m
      BY <1>5, <1>11, <3>1
    <3>3. k \in 1 .. l + 1 /\ v[k] = m
      BY <1>3, <1>6, <3>2
    <3> QED BY <3>3
  <2> QED BY <2>1, <2>2
<1>12. Places(v, q, s, T, n)
  BY <1>3, <1>8, <1>9, <1>10, <1>11 DEF Places
<1> QED BY <1>1, <1>2, <1>12

LEMMA PlacesStay ==
  ASSUME NEW s, NEW T, NEW n \in Nat \ {0}, n \notin T, NEW p, NEW w, Places(w, p, s, T, n - 1)
  PROVE  Places(w, p, s, T, n)
<1>1. PICK l : l = Len(p)
  OBVIOUS
<1>2. \A m \in 1 .. n : m \in T => m \in 1 .. n - 1
  OBVIOUS
<1>3. w \in [1 .. l -> 1 .. n]
  BY <1>1 DEF Places
<1> QED BY <1>1, <1>2, <1>3 DEF Places

LEMMA PickPlaces ==
  ASSUME NEW X, NEW s \in Seq(X), NEW T, NEW len, len = Len(s)
  PROVE  Pick(s, T) \in Seq(X) /\ \E w : Places(w, Pick(s, T), s, T, len)
<1>0. IsPicked(s, T, len, X)
  BY PickIs
<1>1. PICK f : IsPicking(f, s, T, len, X) /\ Pick(s, T) = f[len]
  BY <1>0 DEF IsPicked
<1>2. len \in Nat /\ \A n \in 1 .. len : s[n] \in X
  OBVIOUS
<1>3. /\ f \in [0 .. len -> Seq(X)] /\ f[0] = <<>>
      /\ \A n \in 1 .. len : f[n] = IF n \in T THEN Append(f[n - 1], s[n]) ELSE f[n - 1]
  BY <1>1 DEF IsPicking
<1> DEFINE placed(n) == \E w : Places(w, f[n], s, T, n)
           P == {n \in 0 .. len : placed(n)}
<1>4. placed(0)
  <2>1. PICK w : w = [k \in 1 .. 0 |-> 0]
    OBVIOUS
  <2>2. Len(f[0]) = 0
    BY <1>3
  <2>3. Places(w, f[0], s, T, 0)
    BY <2>1, <2>2 DEF Places
  <2> QED BY <2>3
<1>5. ASSUME NEW n \in 1 .. len, placed(n - 1)  PROVE placed(n)
  <2>1. PICK p : p = f[n - 1]
    OBVIOUS
  <2>2. p \in Seq(X) /\ s[n] \in X /\ n \in Nat \ {0}
    BY <1>2, <1>3, <2>1
  <2>3. PICK w : Places(w, p, s, T, n - 1)
    BY <1>5, <2>1
  <2>4. CASE n \in T
    <3>1. f[n] = Append(p, s[n])
      BY <1>3, <2>1, <2>4
    <3>2. \E v : Places(v, Append(p, s[n]), s, T, n)
      BY <2>2, <2>3, <2>4, PlacesMore
    <3> QED BY <3>1, <3>2
  <2>5. CASE n \notin T
    <3>1. f[n] = p
      BY <1>3, <2>1, <2>5
    <3>2. Places(w, p, s, T, n)
      BY <2>2, <2>3, <2>5, PlacesStay
    <3> QED BY <3>1, <3>2
  <2> QED BY <2>4, <2>5
<1> HIDE DEF placed
<1>6. \A n \in 0 .. len : n \in P
  <2>1. 0 \in P /\ \A n \in 1 .. len : n - 1 \in P => n \in P
    BY <1>2, <1>4, <1>5
  <2> HIDE DEF P
  <2> QED BY <1>2, <2>1, IntervalInduction
<1>7. len \in 0 .. len
  BY <1>2
<1>8. placed(len)
  BY <1>6, <1>7
<1>9. f[len] \in Seq(X)
  BY <1>3, <1>7
<1> QED BY <1>1, <1>8, <1>9 DEF placed

LEMMA PickAll ==
  ASSUME NEW X, NEW s \in Seq(X), NEW T, DOMAIN s \subseteq T
  PROVE  Pick(s, T) = s
<1>1. PICK len : len = Len(s)
  OBVIOUS
<1>1a. IsPicked(s, T, len, X)
  BY <1>1, PickIs
<1>2. PICK f : IsPicking(f, s, T, len, X) /\ Pick(s, T) = f[len]
  BY <1>1a DEF IsPicked
<1>3. len \in Nat /\ DOMAIN s = 1 .. len /\ \A n \in 1 .. len : s[n] \in X /\ n \in T
  BY <1>1
<1>4. /\ f \in [0 .. len -> Seq(X)] /\ f[0] = <<>>
      /\ \A n \in 1 .. len : f[n] = IF n \in T THEN Append(f[n - 1], s[n]) ELSE f[n - 1]
  BY <1>2 DEF IsPicking
<1> DEFINE same(n) == Len(f[n]) = n /\ \A k \in 1 .. n : f[n][k] = s[k]
           P == {n \in 0 .. len : same(n)}
<1>5. same(0)
  BY <1>4
<1>6. ASSUME NEW n \in 1 .. len, same(n - 1)  PROVE same(n)
  <2>1. PICK p : p = f[n - 1]
    OBVIOUS
  <2>2. p \in Seq(X) /\ Len(p) = n - 1 /\ \A k \in 1 .. n - 1 : p[k] = s[k]
    <3>1. n - 1 \in 0 .. len
      BY <1>3
    <3>2. p \in Seq(X)
      BY <1>4, <2>1, <3>1
    <3> QED BY <1>6, <2>1, <3>2
  <2>3. PICK q : q = Append(p, s[n])
    OBVIOUS
  <2>4. f[n] = q
    BY <1>3, <1>4, <2>1, <2>3
  <2>5. Len(q) = n /\ q[n] = s[n] /\ \A k \in 1 .. n - 1 : q[k] = p[k]
    BY <1>3, <2>2, <2>3, AppendProperties
  <2>6. \A k \in 1 .. n : q[k] = s[k]
    BY <2>2, <2>5
  <2> QED BY <2>4, <2>5, <2>6
<1> HIDE DEF same
<1>7. \A n \in 0 .. len : n \in P
  <2>1. 0 \in P /\ \A n \in 1 .. len : n - 1 \in P => n \in P
    BY <1>3, <1>5, <1>6
  <2> HIDE DEF P
  <2> QED BY <1>3, <2>1, IntervalInduction
<1>8. len \in 0 .. len
  BY <1>3
<1>9. same(len) /\ f[len] \in Seq(X)
  BY <1>4, <1>7, <1>8
<1>10. PICK p : p = f[len]
  OBVIOUS
<1>11. p \in Seq(X) /\ Len(p) = len /\ \A k \in 1 .. len : p[k] = s[k]
  BY <1>9, <1>10 DEF same
<1>12. p = s
  BY <1>1, <1>3, <1>11
<1> QED BY <1>2, <1>10, <1>12

Sends(G, S, X) == \A x \in S : G[x] \in X
Mapped(G, s) == [n \in DOMAIN s |-> G[s[n]]]

LEMMA MappedIs ==
  ASSUME NEW S, NEW s \in Seq(S), NEW X, NEW G, Sends(G, S, X)
  PROVE  Mapped(G, s) \in Seq(X) /\ Len(Mapped(G, s)) = Len(s)
<1>1. PICK m : m = Mapped(G, s)
  OBVIOUS
<1>2. m = [n \in 1 .. Len(s) |-> G[s[n]]]
  BY <1>1 DEF Mapped
<1>3. \A n \in 1 .. Len(s) : G[s[n]] \in X
  BY DEF Sends
<1>4. m \in Seq(X) /\ Len(m) = Len(s)
  BY <1>2, <1>3
<1> QED BY <1>1, <1>4

MapsMore(G, s, x) == Mapped(G, Append(s, x)) = Append(Mapped(G, s), G[x])

LEMMA MappedMore ==
  ASSUME NEW S, NEW s \in Seq(S), NEW x \in S, NEW X, NEW G, Sends(G, S, X)
  PROVE  MapsMore(G, s, x)
<1>1. PICK t, l : t = Append(s, x) /\ l = Len(s)
  OBVIOUS
<1>2. t \in Seq(S) /\ l \in Nat /\ Len(t) = l + 1 /\ t[l + 1] = x /\ \A n \in 1 .. l : t[n] = s[n]
  BY <1>1, AppendProperties
<1>3. PICK m, y : m = Mapped(G, s) /\ y = G[x]
  OBVIOUS
<1>4. m \in Seq(X) /\ Len(m) = l /\ y \in X
  BY <1>1, <1>3, MappedIs DEF Sends
<1>5. \A n \in 1 .. l : m[n] = G[s[n]]
  BY <1>1, <1>3 DEF Mapped
<1>6. PICK a, b : a = Append(m, y) /\ b = Mapped(G, t)
  OBVIOUS
<1>7. a \in Seq(X) /\ Len(a) = l + 1 /\ a[l + 1] = y /\ \A n \in 1 .. l : a[n] = m[n]
  BY <1>4, <1>6, AppendProperties
<1>8. b \in Seq(X) /\ Len(b) = l + 1
  BY <1>2, <1>6, MappedIs
<1>9. \A n \in 1 .. l + 1 : b[n] = G[t[n]]
  BY <1>2, <1>6 DEF Mapped
<1>10. \A n \in 1 .. l + 1 : a[n] = b[n]
  <2>1. \A n \in 1 .. l + 1 : n \in 1 .. l \/ n = l + 1
    BY <1>2
  <2> QED BY <1>2, <1>3, <1>5, <1>7, <1>9, <2>1
<1>11. a = b
  BY <1>7, <1>8, <1>10
<1> QED BY <1>1, <1>3, <1>6, <1>11 DEF MapsMore

LEMMA FlattenNone == Flatten(<<>>) = <<>>
<1> DEFINE X == Nat
<1>1. PICK ps : ps = <<>>
  OBVIOUS
<1>2. ps \in Seq(Seq(X)) /\ Len(ps) = 0
  BY <1>1
<1>3. PICK f : IsFlattening(f, ps, 0, X) /\ Flatten(ps) = f[0]
  <2> HIDE DEF X
  <2> QED BY <1>2, FlattenIs
<1> QED BY <1>1, <1>3 DEF IsFlattening

(* Flattening what stands at some places of s is flattening all of it with   *)
(* nothing at the others.                                                    *)
LEMMA FlattenPick ==
  ASSUME NEW S, NEW s \in Seq(S), NEW T, NEW X, NEW G, Sends(G, S, Seq(X)),
         NEW b, b = [n \in DOMAIN s |-> IF n \in T THEN G[s[n]] ELSE <<>>]
  PROVE  b \in Seq(Seq(X)) /\ Flatten(Mapped(G, Pick(s, T))) = Flatten(b)
<1>1. PICK len : len = Len(s)
  OBVIOUS
<1>2. len \in Nat /\ DOMAIN s = 1 .. len /\ s \in Seq(S)
  BY <1>1
<1>3. b \in Seq(Seq(X)) /\ Len(b) = len
  <2> DEFINE Wordings == Seq(X)
  <2>1. <<>> \in Wordings
    OBVIOUS
  <2>2. \A n \in 1 .. len : G[s[n]] \in Wordings
    BY <1>1 DEF Sends
  <2> HIDE DEF Wordings
  <2>3. \A n \in 1 .. len : (IF n \in T THEN G[s[n]] ELSE <<>>) \in Wordings
    BY <1>1, <2>1, <2>2
  <2>4. b \in Seq(Wordings) /\ Len(b) = len
    BY <1>2, <2>3
  <2> QED BY <2>4 DEF Wordings
<1>4a. IsPicked(s, T, len, S)
  BY <1>1, PickIs
<1>4. PICK f : IsPicking(f, s, T, len, S) /\ Pick(s, T) = f[len]
  BY <1>4a DEF IsPicked
<1>5. PICK h : IsFlattening(h, b, len, X) /\ Flatten(b) = h[len]
  BY <1>3, FlattenIs
<1>6. /\ f \in [0 .. len -> Seq(S)] /\ f[0] = <<>>
      /\ \A n \in 1 .. len : f[n] = IF n \in T THEN Append(f[n - 1], s[n]) ELSE f[n - 1]
  BY <1>4 DEF IsPicking
<1>7. /\ h \in [0 .. len -> Seq(X)] /\ h[0] = <<>>
      /\ \A n \in 1 .. len : h[n] = Cat(h[n - 1], b[n])
  BY <1>5 DEF IsFlattening
<1> DEFINE same(n) == Flatten(Mapped(G, f[n])) = h[n]
           P == {n \in 0 .. len : same(n)}
<1>8. same(0)
  <2>1. Mapped(G, <<>>) = <<>>
    BY DEF Mapped
  <2> QED BY <1>6, <1>7, <2>1, FlattenNone
<1>9. ASSUME NEW n \in 1 .. len, same(n - 1)  PROVE same(n)
  <2>1. PICK p, u, x : p = f[n - 1] /\ u = h[n - 1] /\ x = s[n]
    OBVIOUS
  <2>2. n - 1 \in 0 .. len
    BY <1>2
  <2>3. p \in Seq(S) /\ u \in Seq(X)
    BY ONLY <1>6, <1>7, <2>1, <2>2
  <2>3a. x \in S
    BY <1>1, <2>1
  <2>4. Flatten(Mapped(G, p)) = u /\ h[n] = Cat(u, b[n])
    BY <1>7, <1>9, <2>1
  <2>5. CASE n \in T
    <3>1. f[n] = Append(p, x) /\ b[n] = G[x]
      BY <1>2, <1>6, <2>1, <2>5
    <3>2. PICK m, y : m = Mapped(G, p) /\ y = G[x]
      OBVIOUS
    <3>3. y \in Seq(X)
      BY <2>3a, <3>2 DEF Sends
    <3> DEFINE Wordings == Seq(X)
    <3>a. Sends(G, S, Wordings)
      OBVIOUS
    <3> HIDE DEF Wordings
    <3>4. m \in Seq(Wordings)
      BY ONLY <2>3, <3>a, <3>2, MappedIs
    <3>5a. MapsMore(G, p, x)
      BY <2>3, <2>3a, <3>a, MappedMore
    <3>5. Mapped(G, Append(p, x)) = Append(m, y)
      BY <3>2, <3>5a DEF MapsMore
    <3>6. Flatten(Append(m, y)) = Cat(Flatten(m), y)
      BY <3>3, <3>4, FlattenMore DEF Wordings
    <3> QED BY <2>4, <3>1, <3>2, <3>5, <3>6
  <2>6. CASE n \notin T
    <3>1. f[n] = p /\ b[n] = <<>>
      BY <1>2, <1>6, <2>1, <2>6
    <3>2. Cat(u, <<>>) = u
      BY <2>3 DEF Cat
    <3> QED BY <2>4, <3>1, <3>2
  <2> QED BY <2>5, <2>6
<1> HIDE DEF same
<1>10. \A n \in 0 .. len : n \in P
  <2>1. 0 \in P /\ \A n \in 1 .. len : n - 1 \in P => n \in P
    BY <1>2, <1>8, <1>9
  <2> HIDE DEF P
  <2> QED BY <1>2, <2>1, IntervalInduction
<1>11. len \in 0 .. len
  BY <1>2
<1>12. same(len)
  BY <1>10, <1>11
<1> QED BY <1>3, <1>4, <1>5, <1>12 DEF same

-----------------------------------------------------------------------------
(* The JSON distiller: values. *)
Level(I) == Atoms \cup [t : {"arr"}, e : Seq(I)] \cup [t : {"obj"}, kv : Seq([k : Keys, v : I])]
FieldsOver(I) == [k : Keys, v : I]

(* v is an atom, or made of elements of I. *)
Made(v, I) ==
  \/ v = Null
  \/ \E s \in DOMAIN Float : v = Scalar(s)
  \/ \E e \in Seq(I) : v = Arr(e)
  \/ \E kv \in Seq(FieldsOver(I)) : v = Obj(kv)

LEMMA LevelIs == ASSUME NEW I, NEW v  PROVE v \in Level(I) <=> Made(v, I)
<1>1. v \in Atoms <=> v = Null \/ \E s \in DOMAIN Float : v = Scalar(s)
  BY DEF Atoms
<1> DEFINE Wordings == Seq(I)
           Lists == Seq(FieldsOver(I))
<1>2. v \in [t : {"arr"}, e : Wordings] <=> \E e \in Wordings : v = Arr(e)
  <2> HIDE DEF Wordings
  <2> QED BY DEF Arr
<1>3. v \in [t : {"obj"}, kv : Lists] <=> \E kv \in Lists : v = Obj(kv)
  <2> HIDE DEF Lists
  <2> QED BY DEF Obj
<1>4. v \in Level(I) <=> v \in Atoms \/ v \in [t : {"arr"}, e : Wordings] \/ v \in [t : {"obj"}, kv : Lists]
  BY DEF Level, FieldsOver
<1> HIDE DEF Wordings, Lists
<1>5. v \in Level(I) <=> (v = Null \/ \E s \in DOMAIN Float : v = Scalar(s))
                         \/ (\E e \in Wordings : v = Arr(e)) \/ (\E kv \in Lists : v = Obj(kv))
  BY <1>1, <1>2, <1>3, <1>4
<1> QED BY <1>5 DEF Made, Wordings, Lists

LEMMA SeqMore == ASSUME NEW I, NEW J, I \subseteq J, NEW s \in Seq(I)  PROVE s \in Seq(J)
<1>1. s \in [1 .. Len(s) -> I] /\ Len(s) \in Nat
  OBVIOUS
<1>2. s \in [1 .. Len(s) -> J]
  BY <1>1
<1> QED BY <1>1, <1>2

LEMMA LevelMore == ASSUME NEW I, NEW J, I \subseteq J  PROVE Level(I) \subseteq Level(J)
<1> SUFFICES ASSUME NEW v, Made(v, I)  PROVE Made(v, J)
  BY LevelIs
<1>1. FieldsOver(I) \subseteq FieldsOver(J)
  BY DEF FieldsOver
<1>2. ASSUME NEW e \in Seq(I), v = Arr(e)  PROVE Made(v, J)
  <2>1. e \in Seq(J)
    BY SeqMore
  <2> QED BY <1>2, <2>1 DEF Made
<1>3. ASSUME NEW kv \in Seq(FieldsOver(I)), v = Obj(kv)  PROVE Made(v, J)
  <2>1. kv \in Seq(FieldsOver(J))
    BY <1>1, SeqMore
  <2> QED BY <1>3, <2>1 DEF Made
<1> QED BY <1>2, <1>3 DEF Made

Leveled(f, m) == f = [i \in 0 .. m |-> IF i = 0 THEN Atoms ELSE Level(f[i - 1])]

LevelsUpTo(g, n) ==
  \A i \in 0 .. n : g[i] = IF i = 0 THEN Atoms ELSE Level(g[i - 1])

LEMMA LevelsAre == ASSUME Depth \in Nat  PROVE LevelsUpTo(ValuesTo, Depth)
<1> DEFINE reached(m) == \E g : Leveled(g, m)
           P == {m \in 0 .. Depth : reached(m)}
<1>1. reached(0)
  <2>1. PICK g : g = [i \in 0 .. 0 |-> Atoms]
    OBVIOUS
  <2>2. Leveled(g, 0)
    BY <2>1 DEF Leveled
  <2> QED BY <2>2
<1>2. ASSUME NEW m \in 1 .. Depth, reached(m - 1)  PROVE reached(m)
  <2>1. PICK g : Leveled(g, m - 1)
    BY <1>2
  <2>2. PICK h : h = [i \in 0 .. m |-> IF i = m THEN Level(g[m - 1]) ELSE g[i]]
    OBVIOUS
  <2>3. \A i \in 0 .. m - 1 : g[i] = IF i = 0 THEN Atoms ELSE Level(g[i - 1])
    BY <2>1 DEF Leveled
  <2>4. ASSUME NEW i \in 0 .. m  PROVE h[i] = IF i = 0 THEN Atoms ELSE Level(h[i - 1])
    <3>1. CASE i = m
      <4>1. h[i] = Level(g[m - 1]) /\ h[m - 1] = g[m - 1] /\ i # 0
        BY <2>2, <3>1
      <4> QED BY <3>1, <4>1
    <3>2. CASE i # m
      <4>1. i \in 0 .. m - 1 /\ h[i] = g[i]
        BY <2>2, <3>2
      <4>2. i # 0 => h[i - 1] = g[i - 1]
        BY <2>2, <3>2
      <4> QED BY <2>3, <4>1, <4>2
    <3> QED BY <3>1, <3>2
  <2>5. Leveled(h, m)
    BY <2>2, <2>4 DEF Leveled
  <2> QED BY <2>5
<1> HIDE DEF reached
<1>3. \A m \in 0 .. Depth : m \in P
  <2>a. reached(0)
    BY <1>1
  <2>b. 0 \in 0 .. Depth
    OBVIOUS
  <2>c. 0 \in P
    BY <2>a, <2>b
  <2>d. \A m \in 1 .. Depth : reached(m - 1) => reached(m)
    BY <1>2
  <2>1. 0 \in P /\ \A m \in 1 .. Depth : m - 1 \in P => m \in P
    BY <2>c, <2>d
  <2> HIDE DEF P
  <2> QED BY <2>1, IntervalInduction
<1>4. Depth \in 0 .. Depth
  OBVIOUS
<1>5. PICK g : Leveled(g, Depth)
  BY <1>3, <1>4 DEF reached
<1>6. PICK c : c = CHOOSE f : Leveled(f, Depth)
  OBVIOUS
<1>7. ValuesTo = c
  BY <1>6 DEF ValuesTo, Level, Leveled
<1>8. Leveled(c, Depth)
  BY <1>5, <1>6
<1>9. PICK h : h = [i \in 0 .. Depth |-> IF i = 0 THEN Atoms ELSE Level(c[i - 1])]
  OBVIOUS
<1>10. \A i \in 0 .. Depth : h[i] = IF i = 0 THEN Atoms ELSE Level(c[i - 1])
  BY <1>9
<1>11. h = c
  BY <1>8, <1>9 DEF Leveled
<1> QED BY <1>7, <1>10, <1>11 DEF LevelsUpTo

(* What the values of one level are made of. *)
Inside(n) == IF n = 0 THEN {} ELSE ValuesTo[n - 1]

LEMMA LevelsGrow ==
  ASSUME Depth \in Nat, NEW n \in 0 .. Depth
  PROVE  /\ ValuesTo[n] = Level(Inside(n)) \/ ValuesTo[n] = Atoms
         /\ ValuesTo[n] \subseteq Level(Inside(n))
         /\ Inside(n) \subseteq ValuesTo[n]
<1>1. \A i \in 0 .. Depth : ValuesTo[i] = IF i = 0 THEN Atoms ELSE Level(ValuesTo[i - 1])
  BY LevelsAre DEF LevelsUpTo
<1>2. \A I : Atoms \subseteq Level(I)
  BY DEF Level
<1> DEFINE grows(m) == m = 0 \/ ValuesTo[m - 1] \subseteq ValuesTo[m]
           P == {m \in 0 .. Depth : grows(m)}
<1>3. grows(0)
  OBVIOUS
<1>4. ASSUME NEW m \in 1 .. Depth, grows(m - 1)  PROVE grows(m)
  <2>1. ValuesTo[m] = Level(ValuesTo[m - 1])
    BY <1>1
  <2>2. CASE m = 1
    BY <1>1, <1>2, <2>1, <2>2
  <2>3. CASE m # 1
    <3>1. m - 1 \in 0 .. Depth /\ m - 1 # 0
      BY <2>3
    <3>2. PICK k, u, w : k = m - 1 /\ u = ValuesTo[k - 1] /\ w = ValuesTo[k]
      OBVIOUS
    <3>3. w = Level(u) /\ u \subseteq w
      BY <1>1, <1>4, <3>1, <3>2
    <3>4. Level(u) \subseteq Level(w)
      BY <3>3, LevelMore
    <3> QED BY <2>1, <3>2, <3>3, <3>4
  <2> QED BY <2>2, <2>3
<1> HIDE DEF grows
<1>5. \A m \in 0 .. Depth : m \in P
  <2>1. 0 \in P /\ \A m \in 1 .. Depth : m - 1 \in P => m \in P
    BY <1>3, <1>4
  <2> HIDE DEF P
  <2> QED BY <2>1, IntervalInduction
<1>6. grows(n)
  BY <1>5
<1> QED BY <1>1, <1>2, <1>6 DEF grows, Inside

LEMMA LevelsBelow ==
  ASSUME Depth \in Nat
  PROVE  (\A n \in 0 .. Depth : ValuesTo[n] \subseteq Values) /\ Atoms \subseteq Values
<1> DEFINE far(k) == ValuesTo[Depth - k] \subseteq Values
           R == {k \in 0 .. Depth : far(k)}
<1>1. far(0)
  BY DEF Values
<1>2. ASSUME NEW k \in 1 .. Depth, far(k - 1)  PROVE far(k)
  <2>1. PICK m : m = Depth - (k - 1)
    OBVIOUS
  <2>2. m \in 0 .. Depth /\ m # 0 /\ m - 1 = Depth - k
    BY <2>1
  <2>3. Inside(m) \subseteq ValuesTo[m]
    BY <2>2, LevelsGrow
  <2> QED BY <1>2, <2>1, <2>2, <2>3 DEF Inside
<1> HIDE DEF far
<1>3. \A k \in 0 .. Depth : k \in R
  <2>1. 0 \in 0 .. Depth
    OBVIOUS
  <2>2. 0 \in R
    BY <1>1, <2>1
  <2>3. \A k \in 1 .. Depth : far(k - 1) => far(k)
    BY <1>2
  <2>4. \A k \in 1 .. Depth : k - 1 \in R => k \in R
    BY <2>3
  <2> HIDE DEF R
  <2> QED BY <2>2, <2>4, IntervalInduction
<1>4. ASSUME NEW n \in 0 .. Depth  PROVE ValuesTo[n] \subseteq Values
  <2>1. Depth - n \in 0 .. Depth /\ Depth - (Depth - n) = n
    OBVIOUS
  <2>2. far(Depth - n)
    BY <1>3, <2>1
  <2> QED BY <2>1, <2>2 DEF far
<1>5. 0 \in 0 .. Depth
  OBVIOUS
<1>6. ValuesTo[0] = Atoms
  BY <1>5, LevelsAre DEF LevelsUpTo
<1> QED BY <1>4, <1>5, <1>6

(* An induction over values. *)
LEMMA ValueInduction ==
  ASSUME Depth \in Nat, NEW P, \A I \in SUBSET Values : I \subseteq P => (Level(I) \cap Values) \subseteq P
  PROVE  Values \subseteq P
<1> DEFINE held(n) == ValuesTo[n] \subseteq P /\ ValuesTo[n] \subseteq Values
           Q == {n \in 0 .. Depth : held(n)}
<1>1. \A n \in 0 .. Depth : ValuesTo[n] \subseteq Values
  BY LevelsBelow
<1>2. ASSUME NEW n \in 0 .. Depth, Inside(n) \subseteq P, Inside(n) \subseteq Values
      PROVE  held(n)
  <2>1. ValuesTo[n] \subseteq Level(Inside(n))
    BY LevelsGrow
  <2> QED BY <1>1, <1>2, <2>1
<1>3. held(0)
  BY <1>2 DEF Inside
<1>4. ASSUME NEW n \in 1 .. Depth, held(n - 1)  PROVE held(n)
  BY <1>2, <1>4 DEF Inside
<1> HIDE DEF held
<1>5. \A n \in 0 .. Depth : n \in Q
  <2>1. 0 \in Q /\ \A n \in 1 .. Depth : n - 1 \in Q => n \in Q
    BY <1>3, <1>4
  <2> HIDE DEF Q
  <2> QED BY <2>1, IntervalInduction
<1>6. held(Depth)
  BY <1>5
<1> QED BY <1>6 DEF held, Values

-----------------------------------------------------------------------------
(* The recursive functions on values, one step of each. *)
Fields(f, kv) == [n \in DOMAIN kv |-> Field(kv[n].k, f[kv[n].v])]
Remaining(p) == {n \in DOMAIN p : Stays(p[n])}
Present(e) == {n \in DOMAIN e : e[n] # Null}
InElements(f, e) == [n \in DOMAIN e |-> Under("[]", f[e[n]])]
InFields(f, kv) ==
  [n \in DOMAIN kv |-> IF kv[n].k \in Meta THEN <<>> ELSE Under(kv[n].k, f[kv[n].v])]

WithinOf(f, v) == {v} \cup UNION {f[x] : x \in Parts(v)}
ParseOf(f, v) ==
  CASE v.t = "arr" -> Arr([n \in DOMAIN v.e |-> f[v.e[n]]])
    [] v.t = "obj" -> Obj([n \in DOMAIN v.kv |-> Field(v.kv[n].k, f[v.kv[n].v])])
    [] v.t = "scalar" -> Scalar(Float[v.s])
    [] OTHER -> v
PruneOf(f, v) ==
  CASE v.t = "obj" ->
         LET pruned == [n \in DOMAIN v.kv |-> Field(v.kv[n].k, f[v.kv[n].v])]
         IN  Obj(Pick(pruned, {n \in DOMAIN pruned : Stays(pruned[n])}))
    [] v.t = "arr" ->
         Arr(Pick([n \in DOMAIN v.e |-> f[v.e[n]]], {n \in DOMAIN v.e : v.e[n] # Null}))
    [] OTHER -> v
LeavesOf(f, v) ==
  CASE v.t = "arr" -> Flatten([n \in DOMAIN v.e |-> Under("[]", f[v.e[n]])])
    [] v.t = "obj" -> Flatten([n \in DOMAIN v.kv |->
                        IF v.kv[n].k \in Meta THEN <<>> ELSE Under(v.kv[n].k, f[v.kv[n].v])])
    [] v.t = "scalar" -> <<[at |-> <<>>, s |-> v.s]>>
    [] OTHER -> <<>>

(* What a value has inside it. *)
LEMMA PartsAre ==
  /\ Parts(Null) = {}
  /\ \A s : Parts(Scalar(s)) = {}
  /\ \A e : Parts(Arr(e)) = {e[n] : n \in DOMAIN e}
  /\ \A kv : Parts(Obj(kv)) = {kv[n].v : n \in DOMAIN kv}
BY DEF Parts, Null, Scalar, Arr, Obj

LEMMA PartsInside ==
  ASSUME NEW I, NEW v, Made(v, I)
  PROVE  Parts(v) \subseteq I
<1>1. ASSUME NEW e \in Seq(I), v = Arr(e)  PROVE Parts(v) \subseteq I
  <2>1. \A n \in DOMAIN e : e[n] \in I
    OBVIOUS
  <2>2. Parts(v) = {e[n] : n \in DOMAIN e}
    BY <1>1, PartsAre
  <2> QED BY <2>1, <2>2
<1>2. ASSUME NEW kv \in Seq(FieldsOver(I)), v = Obj(kv)  PROVE Parts(v) \subseteq I
  <2>1. \A n \in DOMAIN kv : kv[n] \in FieldsOver(I)
    OBVIOUS
  <2>2. \A n \in DOMAIN kv : kv[n].v \in I
    BY <2>1 DEF FieldsOver
  <2>3. Parts(v) = {kv[n].v : n \in DOMAIN kv}
    BY <1>2, PartsAre
  <2> QED BY <2>2, <2>3
<1>3. v = Null \/ (\E s \in DOMAIN Float : v = Scalar(s)) => Parts(v) = {}
  BY PartsAre
<1> QED BY <1>1, <1>2, <1>3 DEF Made

LEMMA ParseOfIs ==
  ASSUME NEW f
  PROVE  /\ ParseOf(f, Null) = Null
         /\ \A s : ParseOf(f, Scalar(s)) = Scalar(Float[s])
         /\ \A e : ParseOf(f, Arr(e)) = Arr(Mapped(f, e))
         /\ \A kv : ParseOf(f, Obj(kv)) = Obj(Fields(f, kv))
<1>1. ParseOf(f, Null) = Null
  BY DEF ParseOf, Null
<1>2. ASSUME NEW s  PROVE ParseOf(f, Scalar(s)) = Scalar(Float[s])
  BY DEF ParseOf, Scalar
<1>3. ASSUME NEW e  PROVE ParseOf(f, Arr(e)) = Arr(Mapped(f, e))
  BY DEF ParseOf, Arr, Mapped
<1>4. ASSUME NEW kv  PROVE ParseOf(f, Obj(kv)) = Obj(Fields(f, kv))
  BY DEF ParseOf, Obj, Fields
<1> QED BY <1>1, <1>2, <1>3, <1>4

LEMMA PruneOfIs ==
  ASSUME NEW f
  PROVE  /\ PruneOf(f, Null) = Null
         /\ \A s : PruneOf(f, Scalar(s)) = Scalar(s)
         /\ \A e : PruneOf(f, Arr(e)) = Arr(Pick(Mapped(f, e), Present(e)))
         /\ \A kv : PruneOf(f, Obj(kv)) = Obj(Pick(Fields(f, kv), Remaining(Fields(f, kv))))
<1>1. PruneOf(f, Null) = Null
  BY DEF PruneOf, Null
<1>2. ASSUME NEW s  PROVE PruneOf(f, Scalar(s)) = Scalar(s)
  BY DEF PruneOf, Scalar
<1>3. ASSUME NEW e  PROVE PruneOf(f, Arr(e)) = Arr(Pick(Mapped(f, e), Present(e)))
  BY DEF PruneOf, Arr, Mapped, Present
<1>4. ASSUME NEW kv  PROVE PruneOf(f, Obj(kv)) = Obj(Pick(Fields(f, kv), Remaining(Fields(f, kv))))
  BY DEF PruneOf, Obj, Fields, Remaining
<1> QED BY <1>1, <1>2, <1>3, <1>4

LEMMA LeavesOfIs ==
  ASSUME NEW f
  PROVE  /\ LeavesOf(f, Null) = <<>>
         /\ \A s : LeavesOf(f, Scalar(s)) = <<[at |-> <<>>, s |-> s]>>
         /\ \A e : LeavesOf(f, Arr(e)) = Flatten(InElements(f, e))
         /\ \A kv : LeavesOf(f, Obj(kv)) = Flatten(InFields(f, kv))
<1>1. LeavesOf(f, Null) = <<>>
  BY DEF LeavesOf, Null
<1>2. ASSUME NEW s  PROVE LeavesOf(f, Scalar(s)) = <<[at |-> <<>>, s |-> s]>>
  BY DEF LeavesOf, Scalar
<1>3. ASSUME NEW e  PROVE LeavesOf(f, Arr(e)) = Flatten(InElements(f, e))
  BY DEF LeavesOf, Arr, InElements
<1>4. ASSUME NEW kv  PROVE LeavesOf(f, Obj(kv)) = Flatten(InFields(f, kv))
  BY DEF LeavesOf, Obj, InFields
<1> QED BY <1>1, <1>2, <1>3, <1>4

(* A step looks at the function on the parts only. *)
LEMMA SameSteps ==
  ASSUME NEW f, NEW g, NEW I, NEW v, Made(v, I), \A x \in I : f[x] = g[x]
  PROVE  /\ WithinOf(f, v) = WithinOf(g, v)
         /\ ParseOf(f, v) = ParseOf(g, v)
         /\ PruneOf(f, v) = PruneOf(g, v)
         /\ LeavesOf(f, v) = LeavesOf(g, v)
<1> DEFINE goal == /\ ParseOf(f, v) = ParseOf(g, v)
                   /\ PruneOf(f, v) = PruneOf(g, v)
                   /\ LeavesOf(f, v) = LeavesOf(g, v)
<1>1. WithinOf(f, v) = WithinOf(g, v)
  BY PartsInside DEF WithinOf
<1>2. ASSUME v = Null  PROVE goal
  <2>1. ParseOf(f, Null) = ParseOf(g, Null)
    BY ParseOfIs
  <2>2. PruneOf(f, Null) = PruneOf(g, Null)
    BY PruneOfIs
  <2>3. LeavesOf(f, Null) = LeavesOf(g, Null)
    BY LeavesOfIs
  <2> QED BY <1>2, <2>1, <2>2, <2>3
<1>3. ASSUME NEW s, v = Scalar(s)  PROVE goal
  <2>1. ParseOf(f, Scalar(s)) = ParseOf(g, Scalar(s))
    BY ParseOfIs
  <2>2. PruneOf(f, Scalar(s)) = PruneOf(g, Scalar(s))
    BY PruneOfIs
  <2>3. LeavesOf(f, Scalar(s)) = LeavesOf(g, Scalar(s))
    BY LeavesOfIs
  <2> QED BY <1>3, <2>1, <2>2, <2>3
<1>4. ASSUME NEW e \in Seq(I), v = Arr(e)  PROVE goal
  <2>1. \A n \in DOMAIN e : f[e[n]] = g[e[n]]
    OBVIOUS
  <2>2. Mapped(f, e) = Mapped(g, e) /\ InElements(f, e) = InElements(g, e)
    BY <2>1 DEF Mapped, InElements
  <2>3. ParseOf(f, Arr(e)) = ParseOf(g, Arr(e))
    <3>1. ParseOf(f, Arr(e)) = Arr(Mapped(f, e))
      BY ParseOfIs
    <3>2. ParseOf(g, Arr(e)) = Arr(Mapped(g, e))
      BY ParseOfIs
    <3> QED BY <2>2, <3>1, <3>2
  <2>4. PruneOf(f, Arr(e)) = PruneOf(g, Arr(e))
    <3>1. PruneOf(f, Arr(e)) = Arr(Pick(Mapped(f, e), Present(e)))
      BY PruneOfIs
    <3>2. PruneOf(g, Arr(e)) = Arr(Pick(Mapped(g, e), Present(e)))
      BY PruneOfIs
    <3> QED BY <2>2, <3>1, <3>2
  <2>5. LeavesOf(f, Arr(e)) = LeavesOf(g, Arr(e))
    <3>1. LeavesOf(f, Arr(e)) = Flatten(InElements(f, e))
      BY LeavesOfIs
    <3>2. LeavesOf(g, Arr(e)) = Flatten(InElements(g, e))
      BY LeavesOfIs
    <3> QED BY <2>2, <3>1, <3>2
  <2> QED BY <1>4, <2>3, <2>4, <2>5
<1>5. ASSUME NEW kv \in Seq(FieldsOver(I)), v = Obj(kv)  PROVE goal
  <2>1. \A n \in DOMAIN kv : kv[n] \in FieldsOver(I)
    OBVIOUS
  <2>2. \A n \in DOMAIN kv : f[kv[n].v] = g[kv[n].v]
    BY <2>1 DEF FieldsOver
  <2>3. Fields(f, kv) = Fields(g, kv) /\ InFields(f, kv) = InFields(g, kv)
    BY <2>2 DEF Fields, InFields
  <2>4. ParseOf(f, Obj(kv)) = ParseOf(g, Obj(kv))
    <3>1. ParseOf(f, Obj(kv)) = Obj(Fields(f, kv))
      BY ParseOfIs
    <3>2. ParseOf(g, Obj(kv)) = Obj(Fields(g, kv))
      BY ParseOfIs
    <3> QED BY <2>3, <3>1, <3>2
  <2>5. PruneOf(f, Obj(kv)) = PruneOf(g, Obj(kv))
    <3>1. PruneOf(f, Obj(kv)) = Obj(Pick(Fields(f, kv), Remaining(Fields(f, kv))))
      BY PruneOfIs
    <3>2. PruneOf(g, Obj(kv)) = Obj(Pick(Fields(g, kv), Remaining(Fields(g, kv))))
      BY PruneOfIs
    <3> QED BY <2>3, <3>1, <3>2
  <2>6. LeavesOf(f, Obj(kv)) = LeavesOf(g, Obj(kv))
    <3>1. LeavesOf(f, Obj(kv)) = Flatten(InFields(f, kv))
      BY LeavesOfIs
    <3>2. LeavesOf(g, Obj(kv)) = Flatten(InFields(g, kv))
      BY LeavesOfIs
    <3> QED BY <2>3, <3>1, <3>2
  <2> QED BY <1>5, <2>4, <2>5, <2>6
<1> HIDE DEF goal
<1>6. goal
  <2>1. v = Null => goal
    BY <1>2 DEF goal
  <2> QED BY <1>3, <1>4, <1>5, <2>1 DEF Made
<1> QED BY <1>1, <1>6 DEF goal

LEMMA WithinIsStep == ASSUME Depth \in Nat  PROVE \A v \in Values : Within[v] = WithinOf(Within, v)
<1> DEFINE steps(g, n) == DOMAIN g = ValuesTo[n] /\ \A v \in ValuesTo[n] : g[v] = WithinOf(g, v)
           built(n) == \E g : steps(g, n)
           P == {n \in 0 .. Depth : built(n)}
<1>1. ASSUME NEW n \in 0 .. Depth, NEW g,
             \A v \in Inside(n) : v \in DOMAIN g /\ g[v] = WithinOf(g, v)
      PROVE  built(n)
  <2>1. PICK V, I : V = ValuesTo[n] /\ I = Inside(n)
    OBVIOUS
  <2>2. V \subseteq Level(I) /\ I \subseteq V
    BY <2>1, LevelsGrow
  <2>3. PICK h : h = [v \in V |-> WithinOf(g, v)]
    OBVIOUS
  <2>4. \A v \in I : h[v] = g[v]
    BY <1>1, <2>1, <2>2, <2>3
  <2>5. ASSUME NEW v \in V  PROVE h[v] = WithinOf(h, v)
    <3>1. Made(v, I)
      BY <2>2, LevelIs
    <3>2. WithinOf(g, v) = WithinOf(h, v)
      BY <2>4, <3>1, SameSteps
    <3> QED BY <2>3, <3>2
  <2>6. steps(h, n)
    BY <2>1, <2>3, <2>5
  <2> HIDE DEF steps
  <2> QED BY <2>6
<1>2. built(0)
  <2>1. PICK g : g = [v \in {} |-> 0]
    OBVIOUS
  <2>2. 0 \in 0 .. Depth /\ Inside(0) = {}
    BY DEF Inside
  <2> HIDE DEF built
  <2> QED BY <1>1, <2>2
<1>3. ASSUME NEW n \in 1 .. Depth, built(n - 1)  PROVE built(n)
  <2>1. PICK g : steps(g, n - 1)
    BY <1>3
  <2>2. n \in 0 .. Depth /\ Inside(n) = ValuesTo[n - 1]
    BY DEF Inside
  <2> HIDE DEF built
  <2> QED BY <1>1, <2>1, <2>2
<1> HIDE DEF built
<1>4. \A n \in 0 .. Depth : n \in P
  <2>1. 0 \in 0 .. Depth
    OBVIOUS
  <2>2. 0 \in P
    BY <1>2, <2>1
  <2>3. \A n \in 1 .. Depth : built(n - 1) => built(n)
    BY <1>3
  <2>4. \A n \in 1 .. Depth : n - 1 \in P => n \in P
    BY <2>3
  <2> HIDE DEF P
  <2> QED BY <2>2, <2>4, IntervalInduction
<1>5. Depth \in 0 .. Depth
  OBVIOUS
<1>6. built(Depth)
  BY <1>4, <1>5
<1>7. PICK g : DOMAIN g = Values /\ \A v \in Values : g[v] = WithinOf(g, v)
  BY <1>6 DEF built, Values
<1> DEFINE defined(f) == f = [v \in Values |-> WithinOf(f, v)]
<1>8. PICK h : h = [v \in Values |-> WithinOf(g, v)]
  OBVIOUS
<1>9. defined(h)
  <2>1. \A v \in Values : h[v] = g[v]
    BY <1>7, <1>8
  <2>2. ASSUME NEW v \in Values  PROVE WithinOf(g, v) = WithinOf(h, v)
    <3>1. Made(v, Inside(Depth)) /\ Inside(Depth) \subseteq Values
      BY <1>5, LevelsGrow, LevelIs DEF Values
    <3> QED BY <2>1, <3>1, SameSteps
  <2> QED BY <1>8, <2>2
<1>10. PICK c : c = CHOOSE f : defined(f)
  OBVIOUS
<1>11. Within = c
  BY <1>10 DEF Within, WithinOf
<1>12. defined(c)
  <2> HIDE DEF defined
  <2> QED BY <1>9, <1>10
<1>13. \A v \in Values : c[v] = WithinOf(c, v)
  BY <1>12
<1> QED BY <1>11, <1>13

LEMMA ParseIsStep == ASSUME Depth \in Nat  PROVE \A v \in Values : Parse[v] = ParseOf(Parse, v)
<1> DEFINE steps(g, n) == DOMAIN g = ValuesTo[n] /\ \A v \in ValuesTo[n] : g[v] = ParseOf(g, v)
           built(n) == \E g : steps(g, n)
           P == {n \in 0 .. Depth : built(n)}
<1>1. ASSUME NEW n \in 0 .. Depth, NEW g,
             \A v \in Inside(n) : v \in DOMAIN g /\ g[v] = ParseOf(g, v)
      PROVE  built(n)
  <2>1. PICK V, I : V = ValuesTo[n] /\ I = Inside(n)
    OBVIOUS
  <2>2. V \subseteq Level(I) /\ I \subseteq V
    BY <2>1, LevelsGrow
  <2>3. PICK h : h = [v \in V |-> ParseOf(g, v)]
    OBVIOUS
  <2>4. \A v \in I : h[v] = g[v]
    BY <1>1, <2>1, <2>2, <2>3
  <2>5. ASSUME NEW v \in V  PROVE h[v] = ParseOf(h, v)
    <3>1. Made(v, I)
      BY <2>2, LevelIs
    <3>2. ParseOf(g, v) = ParseOf(h, v)
      BY <2>4, <3>1, SameSteps
    <3> QED BY <2>3, <3>2
  <2>6. steps(h, n)
    BY <2>1, <2>3, <2>5
  <2> HIDE DEF steps
  <2> QED BY <2>6
<1>2. built(0)
  <2>1. PICK g : g = [v \in {} |-> 0]
    OBVIOUS
  <2>2. 0 \in 0 .. Depth /\ Inside(0) = {}
    BY DEF Inside
  <2> HIDE DEF built
  <2> QED BY <1>1, <2>2
<1>3. ASSUME NEW n \in 1 .. Depth, built(n - 1)  PROVE built(n)
  <2>1. PICK g : steps(g, n - 1)
    BY <1>3
  <2>2. n \in 0 .. Depth /\ Inside(n) = ValuesTo[n - 1]
    BY DEF Inside
  <2> HIDE DEF built
  <2> QED BY <1>1, <2>1, <2>2
<1> HIDE DEF built
<1>4. \A n \in 0 .. Depth : n \in P
  <2>1. 0 \in 0 .. Depth
    OBVIOUS
  <2>2. 0 \in P
    BY <1>2, <2>1
  <2>3. \A n \in 1 .. Depth : built(n - 1) => built(n)
    BY <1>3
  <2>4. \A n \in 1 .. Depth : n - 1 \in P => n \in P
    BY <2>3
  <2> HIDE DEF P
  <2> QED BY <2>2, <2>4, IntervalInduction
<1>5. Depth \in 0 .. Depth
  OBVIOUS
<1>6. built(Depth)
  BY <1>4, <1>5
<1>7. PICK g : DOMAIN g = Values /\ \A v \in Values : g[v] = ParseOf(g, v)
  BY <1>6 DEF built, Values
<1> DEFINE defined(f) == f = [v \in Values |-> ParseOf(f, v)]
<1>8. PICK h : h = [v \in Values |-> ParseOf(g, v)]
  OBVIOUS
<1>9. defined(h)
  <2>1. \A v \in Values : h[v] = g[v]
    BY <1>7, <1>8
  <2>2. ASSUME NEW v \in Values  PROVE ParseOf(g, v) = ParseOf(h, v)
    <3>1. Made(v, Inside(Depth)) /\ Inside(Depth) \subseteq Values
      BY <1>5, LevelsGrow, LevelIs DEF Values
    <3> QED BY <2>1, <3>1, SameSteps
  <2> QED BY <1>8, <2>2
<1>10. PICK c : c = CHOOSE f : defined(f)
  OBVIOUS
<1>11. Parse = c
  BY <1>10 DEF Parse, ParseOf
<1>12. defined(c)
  <2> HIDE DEF defined
  <2> QED BY <1>9, <1>10
<1>13. \A v \in Values : c[v] = ParseOf(c, v)
  BY <1>12
<1> QED BY <1>11, <1>13

LEMMA PruneIsStep == ASSUME Depth \in Nat  PROVE \A v \in Values : PruneValue[v] = PruneOf(PruneValue, v)
<1> DEFINE steps(g, n) == DOMAIN g = ValuesTo[n] /\ \A v \in ValuesTo[n] : g[v] = PruneOf(g, v)
           built(n) == \E g : steps(g, n)
           P == {n \in 0 .. Depth : built(n)}
<1>1. ASSUME NEW n \in 0 .. Depth, NEW g,
             \A v \in Inside(n) : v \in DOMAIN g /\ g[v] = PruneOf(g, v)
      PROVE  built(n)
  <2>1. PICK V, I : V = ValuesTo[n] /\ I = Inside(n)
    OBVIOUS
  <2>2. V \subseteq Level(I) /\ I \subseteq V
    BY <2>1, LevelsGrow
  <2>3. PICK h : h = [v \in V |-> PruneOf(g, v)]
    OBVIOUS
  <2>4. \A v \in I : h[v] = g[v]
    BY <1>1, <2>1, <2>2, <2>3
  <2>5. ASSUME NEW v \in V  PROVE h[v] = PruneOf(h, v)
    <3>1. Made(v, I)
      BY <2>2, LevelIs
    <3>2. PruneOf(g, v) = PruneOf(h, v)
      BY <2>4, <3>1, SameSteps
    <3> QED BY <2>3, <3>2
  <2>6. steps(h, n)
    BY <2>1, <2>3, <2>5
  <2> HIDE DEF steps
  <2> QED BY <2>6
<1>2. built(0)
  <2>1. PICK g : g = [v \in {} |-> 0]
    OBVIOUS
  <2>2. 0 \in 0 .. Depth /\ Inside(0) = {}
    BY DEF Inside
  <2> HIDE DEF built
  <2> QED BY <1>1, <2>2
<1>3. ASSUME NEW n \in 1 .. Depth, built(n - 1)  PROVE built(n)
  <2>1. PICK g : steps(g, n - 1)
    BY <1>3
  <2>2. n \in 0 .. Depth /\ Inside(n) = ValuesTo[n - 1]
    BY DEF Inside
  <2> HIDE DEF built
  <2> QED BY <1>1, <2>1, <2>2
<1> HIDE DEF built
<1>4. \A n \in 0 .. Depth : n \in P
  <2>1. 0 \in 0 .. Depth
    OBVIOUS
  <2>2. 0 \in P
    BY <1>2, <2>1
  <2>3. \A n \in 1 .. Depth : built(n - 1) => built(n)
    BY <1>3
  <2>4. \A n \in 1 .. Depth : n - 1 \in P => n \in P
    BY <2>3
  <2> HIDE DEF P
  <2> QED BY <2>2, <2>4, IntervalInduction
<1>5. Depth \in 0 .. Depth
  OBVIOUS
<1>6. built(Depth)
  BY <1>4, <1>5
<1>7. PICK g : DOMAIN g = Values /\ \A v \in Values : g[v] = PruneOf(g, v)
  BY <1>6 DEF built, Values
<1> DEFINE defined(f) == f = [v \in Values |-> PruneOf(f, v)]
<1>8. PICK h : h = [v \in Values |-> PruneOf(g, v)]
  OBVIOUS
<1>9. defined(h)
  <2>1. \A v \in Values : h[v] = g[v]
    BY <1>7, <1>8
  <2>2. ASSUME NEW v \in Values  PROVE PruneOf(g, v) = PruneOf(h, v)
    <3>1. Made(v, Inside(Depth)) /\ Inside(Depth) \subseteq Values
      BY <1>5, LevelsGrow, LevelIs DEF Values
    <3> QED BY <2>1, <3>1, SameSteps
  <2> QED BY <1>8, <2>2
<1>10. PICK c : c = CHOOSE f : defined(f)
  OBVIOUS
<1>11. PruneValue = c
  BY <1>10 DEF PruneValue, PruneOf
<1>12. defined(c)
  <2> HIDE DEF defined
  <2> QED BY <1>9, <1>10
<1>13. \A v \in Values : c[v] = PruneOf(c, v)
  BY <1>12
<1> QED BY <1>11, <1>13

LEMMA LeavesIsStep == ASSUME Depth \in Nat  PROVE \A v \in Values : Leaves[v] = LeavesOf(Leaves, v)
<1> DEFINE steps(g, n) == DOMAIN g = ValuesTo[n] /\ \A v \in ValuesTo[n] : g[v] = LeavesOf(g, v)
           built(n) == \E g : steps(g, n)
           P == {n \in 0 .. Depth : built(n)}
<1>1. ASSUME NEW n \in 0 .. Depth, NEW g,
             \A v \in Inside(n) : v \in DOMAIN g /\ g[v] = LeavesOf(g, v)
      PROVE  built(n)
  <2>1. PICK V, I : V = ValuesTo[n] /\ I = Inside(n)
    OBVIOUS
  <2>2. V \subseteq Level(I) /\ I \subseteq V
    BY <2>1, LevelsGrow
  <2>3. PICK h : h = [v \in V |-> LeavesOf(g, v)]
    OBVIOUS
  <2>4. \A v \in I : h[v] = g[v]
    BY <1>1, <2>1, <2>2, <2>3
  <2>5. ASSUME NEW v \in V  PROVE h[v] = LeavesOf(h, v)
    <3>1. Made(v, I)
      BY <2>2, LevelIs
    <3>2. LeavesOf(g, v) = LeavesOf(h, v)
      BY <2>4, <3>1, SameSteps
    <3> QED BY <2>3, <3>2
  <2>6. steps(h, n)
    BY <2>1, <2>3, <2>5
  <2> HIDE DEF steps
  <2> QED BY <2>6
<1>2. built(0)
  <2>1. PICK g : g = [v \in {} |-> 0]
    OBVIOUS
  <2>2. 0 \in 0 .. Depth /\ Inside(0) = {}
    BY DEF Inside
  <2> HIDE DEF built
  <2> QED BY <1>1, <2>2
<1>3. ASSUME NEW n \in 1 .. Depth, built(n - 1)  PROVE built(n)
  <2>1. PICK g : steps(g, n - 1)
    BY <1>3
  <2>2. n \in 0 .. Depth /\ Inside(n) = ValuesTo[n - 1]
    BY DEF Inside
  <2> HIDE DEF built
  <2> QED BY <1>1, <2>1, <2>2
<1> HIDE DEF built
<1>4. \A n \in 0 .. Depth : n \in P
  <2>1. 0 \in 0 .. Depth
    OBVIOUS
  <2>2. 0 \in P
    BY <1>2, <2>1
  <2>3. \A n \in 1 .. Depth : built(n - 1) => built(n)
    BY <1>3
  <2>4. \A n \in 1 .. Depth : n - 1 \in P => n \in P
    BY <2>3
  <2> HIDE DEF P
  <2> QED BY <2>2, <2>4, IntervalInduction
<1>5. Depth \in 0 .. Depth
  OBVIOUS
<1>6. built(Depth)
  BY <1>4, <1>5
<1>7. PICK g : DOMAIN g = Values /\ \A v \in Values : g[v] = LeavesOf(g, v)
  BY <1>6 DEF built, Values
<1> DEFINE defined(f) == f = [v \in Values |-> LeavesOf(f, v)]
<1>8. PICK h : h = [v \in Values |-> LeavesOf(g, v)]
  OBVIOUS
<1>9. defined(h)
  <2>1. \A v \in Values : h[v] = g[v]
    BY <1>7, <1>8
  <2>2. ASSUME NEW v \in Values  PROVE LeavesOf(g, v) = LeavesOf(h, v)
    <3>1. Made(v, Inside(Depth)) /\ Inside(Depth) \subseteq Values
      BY <1>5, LevelsGrow, LevelIs DEF Values
    <3> QED BY <2>1, <3>1, SameSteps
  <2> QED BY <1>8, <2>2
<1>10. PICK c : c = CHOOSE f : defined(f)
  OBVIOUS
<1>11. Leaves = c
  BY <1>10 DEF Leaves, LeavesOf
<1>12. defined(c)
  <2> HIDE DEF defined
  <2> QED BY <1>9, <1>10
<1>13. \A v \in Values : c[v] = LeavesOf(c, v)
  BY <1>12
<1> QED BY <1>11, <1>13

-----------------------------------------------------------------------------
LEMMA ValueShape ==
  ASSUME Depth \in Nat, NEW v \in Values
  PROVE  /\ Made(v, Values) /\ Parts(v) \subseteq Values
         /\ Made(v, Parts(v))
<1>1. Depth \in 0 .. Depth
  OBVIOUS
<1>2. Values \subseteq Level(Inside(Depth)) /\ Inside(Depth) \subseteq Values
  BY <1>1, LevelsGrow DEF Values
<1>3. Made(v, Values)
  <2>1. v \in Level(Values)
    BY <1>2, LevelMore
  <2> QED BY <2>1, LevelIs
<1>4. Parts(v) \subseteq Values
  BY <1>3, PartsInside
<1>5. ASSUME NEW e \in Seq(Values), v = Arr(e)  PROVE Made(v, Parts(v))
  <2>1. PICK J : J = Parts(v)
    OBVIOUS
  <2>2. J = {e[n] : n \in DOMAIN e}
    BY <1>5, <2>1, PartsAre
  <2>3. e \in Seq(J)
    <3>1. \A n \in 1 .. Len(e) : e[n] \in J
      BY <2>2
    <3>2. e \in [1 .. Len(e) -> J] /\ Len(e) \in Nat
      BY <3>1
    <3> QED BY <3>2
  <2>4. Made(v, J)
    BY <1>5, <2>3 DEF Made
  <2> QED BY <2>1, <2>4
<1>6. ASSUME NEW kv \in Seq(FieldsOver(Values)), v = Obj(kv)  PROVE Made(v, Parts(v))
  <2>1. PICK J : J = Parts(v)
    OBVIOUS
  <2>2. J = {kv[n].v : n \in DOMAIN kv}
    BY <1>6, <2>1, PartsAre
  <2>3. kv \in Seq(FieldsOver(J))
    <3>1. \A n \in 1 .. Len(kv) : kv[n] \in FieldsOver(Values) /\ kv[n].v \in J
      BY <2>2
    <3>2. \A n \in 1 .. Len(kv) : kv[n] \in FieldsOver(J)
      BY <3>1 DEF FieldsOver
    <3>3. kv \in [1 .. Len(kv) -> FieldsOver(J)] /\ Len(kv) \in Nat
      BY <3>2
    <3> QED BY <3>3
  <2>4. Made(v, J)
    BY <1>6, <2>3 DEF Made
  <2> QED BY <2>1, <2>4
<1>7. Made(v, Parts(v))
  BY <1>3, <1>5, <1>6 DEF Made
<1> QED BY <1>3, <1>4, <1>7

LEMMA PartInduction ==
  ASSUME Depth \in Nat, NEW P, \A v \in Values : Parts(v) \subseteq P => v \in P
  PROVE  Values \subseteq P
<1>1. ASSUME NEW I \in SUBSET Values, I \subseteq P  PROVE (Level(I) \cap Values) \subseteq P
  <2>1. ASSUME NEW v \in Level(I) \cap Values  PROVE v \in P
    <3>1. Made(v, I)
      BY LevelIs
    <3>2. Parts(v) \subseteq I
      BY <3>1, PartsInside
    <3> QED BY <1>1, <3>2
  <2> QED BY <2>1
<1> QED BY <1>1, ValueInduction

(* What keeps every level keeps the values. *)
LEMMA LevelsKept ==
  ASSUME Depth \in Nat, NEW F, Sends(F, Atoms, Atoms),
         \A I \in SUBSET Values : Sends(F, I, I) => Sends(F, Level(I) \cap Values, Level(I))
  PROVE  Sends(F, Values, Values)
<1> DEFINE held(n) == Sends(F, ValuesTo[n], ValuesTo[n]) /\ ValuesTo[n] \subseteq Values
           P == {n \in 0 .. Depth : held(n)}
<1>0. \A i \in 0 .. Depth : ValuesTo[i] = IF i = 0 THEN Atoms ELSE Level(ValuesTo[i - 1])
  BY LevelsAre DEF LevelsUpTo
<1>1. \A n \in 0 .. Depth : ValuesTo[n] \subseteq Values
  BY LevelsBelow
<1>2. held(0)
  <2>1. 0 \in 0 .. Depth
    OBVIOUS
  <2> QED BY <1>0, <1>1, <2>1
<1>3. ASSUME NEW n \in 1 .. Depth, held(n - 1)  PROVE held(n)
  <2>1. PICK I : I = ValuesTo[n - 1]
    OBVIOUS
  <2>2. ValuesTo[n] = Level(I) /\ Level(I) \subseteq Values
    BY <1>0, <1>1, <2>1
  <2>3. I \in SUBSET Values /\ Sends(F, I, I)
    BY <1>3, <2>1
  <2>4. Sends(F, Level(I) \cap Values, Level(I))
    BY <2>3
  <2>5. Level(I) \cap Values = Level(I)
    BY <2>2
  <2> QED BY <1>1, <2>2, <2>4, <2>5
<1> HIDE DEF held
<1>4. \A n \in 0 .. Depth : n \in P
  <2>1. 0 \in 0 .. Depth
    OBVIOUS
  <2>2. 0 \in P
    BY <1>2, <2>1
  <2>3. \A n \in 1 .. Depth : held(n - 1) => held(n)
    BY <1>3
  <2>4. \A n \in 1 .. Depth : n - 1 \in P => n \in P
    BY <2>3
  <2> HIDE DEF P
  <2> QED BY <2>2, <2>4, IntervalInduction
<1>5. Depth \in 0 .. Depth
  OBVIOUS
<1>6. held(Depth)
  BY <1>4, <1>5
<1> QED BY <1>6 DEF held, Values

LEMMA MappedKeeps ==
  ASSUME NEW I, NEW F, Sends(F, I, I), NEW e \in Seq(I)
  PROVE  Mapped(F, e) \in Seq(I) /\ Len(Mapped(F, e)) = Len(e)
BY MappedIs

LEMMA FieldsKeep ==
  ASSUME NEW I, NEW F, Sends(F, I, I), NEW kv \in Seq(FieldsOver(I))
  PROVE  Fields(F, kv) \in Seq(FieldsOver(I)) /\ Len(Fields(F, kv)) = Len(kv)
<1>1. PICK m, l : m = Fields(F, kv) /\ l = Len(kv)
  OBVIOUS
<1>2. l \in Nat /\ m = [n \in 1 .. l |-> Field(kv[n].k, F[kv[n].v])]
  BY <1>1 DEF Fields
<1>3. ASSUME NEW n \in 1 .. l  PROVE Field(kv[n].k, F[kv[n].v]) \in FieldsOver(I)
  <2>1. kv[n] \in FieldsOver(I)
    BY <1>1
  <2>2. kv[n].k \in Keys /\ F[kv[n].v] \in I
    BY <2>1 DEF FieldsOver, Sends
  <2> QED BY <2>2 DEF Field, FieldsOver
<1>4. m \in Seq(FieldsOver(I)) /\ Len(m) = l
  BY <1>2, <1>3
<1> QED BY <1>1, <1>4

LEMMA ParseKeeps ==
  ASSUME Depth \in Nat, \A s \in DOMAIN Float : Float[s] \in DOMAIN Float
  PROVE  Sends(Parse, Values, Values)
<1>0. \A v \in Values : Parse[v] = ParseOf(Parse, v)
  BY ParseIsStep
<1>0a. Atoms \subseteq Values
  BY LevelsBelow
<1>1. Sends(Parse, Atoms, Atoms)
  <2>1. ASSUME NEW v \in Atoms  PROVE Parse[v] \in Atoms
    <3>1. Parse[v] = ParseOf(Parse, v)
      BY <1>0, <1>0a
    <3>2. CASE v = Null
      BY <3>1, <3>2, ParseOfIs
    <3>3. ASSUME NEW s \in DOMAIN Float, v = Scalar(s)  PROVE Parse[v] \in Atoms
      <4>1. Parse[v] = Scalar(Float[s])
        BY <3>1, <3>3, ParseOfIs
      <4> QED BY <4>1 DEF Atoms
    <3> QED BY <3>2, <3>3 DEF Atoms
  <2> QED BY <2>1 DEF Sends
<1>2. ASSUME NEW I \in SUBSET Values, Sends(Parse, I, I)
      PROVE  Sends(Parse, Level(I) \cap Values, Level(I))
  <2>1. ASSUME NEW v \in Level(I) \cap Values  PROVE Parse[v] \in Level(I)
    <3>1. Made(v, I) /\ Parse[v] = ParseOf(Parse, v)
      BY <1>0, LevelIs
    <3>2. CASE v \in Atoms
      BY <1>1, <3>2 DEF Sends, Level
    <3>3. ASSUME NEW e \in Seq(I), v = Arr(e)  PROVE Parse[v] \in Level(I)
      <4>1. Parse[v] = Arr(Mapped(Parse, e))
        BY <3>1, <3>3, ParseOfIs
      <4>2. Mapped(Parse, e) \in Seq(I)
        BY <1>2, MappedKeeps
      <4>3. Made(Parse[v], I)
        BY <4>1, <4>2 DEF Made
      <4> QED BY <4>3, LevelIs
    <3>4. ASSUME NEW kv \in Seq(FieldsOver(I)), v = Obj(kv)  PROVE Parse[v] \in Level(I)
      <4>1. Parse[v] = Obj(Fields(Parse, kv))
        BY <3>1, <3>4, ParseOfIs
      <4>2. Fields(Parse, kv) \in Seq(FieldsOver(I))
        BY <1>2, FieldsKeep
      <4>3. Made(Parse[v], I)
        BY <4>1, <4>2 DEF Made
      <4> QED BY <4>3, LevelIs
    <3> QED BY <3>1, <3>2, <3>3, <3>4 DEF Made, Atoms
  <2> QED BY <2>1 DEF Sends
<1> QED BY <1>1, <1>2, LevelsKept

LEMMA PruneKeeps ==
  ASSUME Depth \in Nat
  PROVE  Sends(PruneValue, Values, Values)
<1>0. \A v \in Values : PruneValue[v] = PruneOf(PruneValue, v)
  BY PruneIsStep
<1>0a. Atoms \subseteq Values
  BY LevelsBelow
<1>1. Sends(PruneValue, Atoms, Atoms)
  <2>1. ASSUME NEW v \in Atoms  PROVE PruneValue[v] \in Atoms
    <3>1. PruneValue[v] = PruneOf(PruneValue, v)
      BY <1>0, <1>0a
    <3>2. PruneValue[v] = v
      BY <3>1, PruneOfIs DEF Atoms
    <3> QED BY <3>2
  <2> QED BY <2>1 DEF Sends
<1>2. ASSUME NEW I \in SUBSET Values, Sends(PruneValue, I, I)
      PROVE  Sends(PruneValue, Level(I) \cap Values, Level(I))
  <2>1. ASSUME NEW v \in Level(I) \cap Values  PROVE PruneValue[v] \in Level(I)
    <3>1. Made(v, I) /\ PruneValue[v] = PruneOf(PruneValue, v)
      BY <1>0, LevelIs
    <3>2. CASE v \in Atoms
      BY <1>1, <3>2 DEF Sends, Level
    <3>3. ASSUME NEW e \in Seq(I), v = Arr(e)  PROVE PruneValue[v] \in Level(I)
      <4>0. PICK m, T : m = Mapped(PruneValue, e) /\ T = Present(e)
        OBVIOUS
      <4>1. PruneValue[v] = Arr(Pick(m, T))
        BY <3>1, <3>3, <4>0, PruneOfIs
      <4>2. m \in Seq(I)
        BY <1>2, <4>0, MappedKeeps
      <4>3. Pick(m, T) \in Seq(I)
        BY <4>2, PickPlaces
      <4>4. Made(PruneValue[v], I)
        BY <4>1, <4>3 DEF Made
      <4> QED BY <4>4, LevelIs
    <3>4. ASSUME NEW kv \in Seq(FieldsOver(I)), v = Obj(kv)  PROVE PruneValue[v] \in Level(I)
      <4>0. PICK m, T : m = Fields(PruneValue, kv) /\ T = Remaining(m)
        OBVIOUS
      <4>1. PruneValue[v] = Obj(Pick(m, T))
        BY <3>1, <3>4, <4>0, PruneOfIs
      <4>2. m \in Seq(FieldsOver(I))
        BY <1>2, <4>0, FieldsKeep
      <4>3. Pick(m, T) \in Seq(FieldsOver(I))
        BY <4>2, PickPlaces
      <4>4. Made(PruneValue[v], I)
        BY <4>1, <4>3 DEF Made
      <4> QED BY <4>4, LevelIs
    <3> QED BY <3>1, <3>2, <3>3, <3>4 DEF Made, Atoms
  <2> QED BY <2>1 DEF Sends
<1> QED BY <1>1, <1>2, LevelsKept

-----------------------------------------------------------------------------
(* The kinds of values are apart. *)
LEMMA KindsApart ==
  /\ \A s : Scalar(s) # Null /\ ~IsEmpty(Scalar(s)) /\ Scalar(s).t = "scalar" /\ Scalar(s).s = s
  /\ \A e : Arr(e) # Null /\ (IsEmpty(Arr(e)) <=> e = <<>>) /\ Arr(e).t = "arr" /\ Arr(e).e = e
  /\ \A kv : Obj(kv) # Null /\ (IsEmpty(Obj(kv)) <=> kv = <<>>) /\ Obj(kv).t = "obj" /\ Obj(kv).kv = kv
  /\ ~IsEmpty(Null) /\ Null.t = "null"
<1>1. ASSUME NEW s
      PROVE  Scalar(s) # Null /\ ~IsEmpty(Scalar(s)) /\ Scalar(s).t = "scalar" /\ Scalar(s).s = s
  BY DEF Scalar, Null, IsEmpty, Arr, Obj
<1>2. ASSUME NEW e
      PROVE  Arr(e) # Null /\ (IsEmpty(Arr(e)) <=> e = <<>>) /\ Arr(e).t = "arr" /\ Arr(e).e = e
  BY DEF Null, IsEmpty, Arr, Obj
<1>3. ASSUME NEW kv
      PROVE  Obj(kv) # Null /\ (IsEmpty(Obj(kv)) <=> kv = <<>>) /\ Obj(kv).t = "obj" /\ Obj(kv).kv = kv
  BY DEF Null, IsEmpty, Arr, Obj
<1>4. ~IsEmpty(Null) /\ Null.t = "null"
  BY DEF Null, IsEmpty, Arr, Obj
<1> QED BY <1>1, <1>2, <1>3, <1>4

LEMMA FieldIs ==
  ASSUME NEW k, NEW v
  PROVE  Field(k, v).k = k /\ Field(k, v).v = v
BY DEF Field

(* What pruning would take away, and what the scan has to find. *)
Prunable(x) ==
  \/ x.t = "null" \/ IsEmpty(x)
  \/ x.t = "scalar" /\ x.s \in Suspicious
  \/ x.t = "obj" /\ KeysOf(x) \cap Meta # {}

LEMMA FeatureIs ==
  ASSUME Depth \in Nat, NEW v \in Values
  PROVE  HasPrunableFeature(v) <=> Prunable(v) \/ \E x \in Parts(v) : HasPrunableFeature(x)
<1>1. Within[v] = WithinOf(Within, v)
  BY WithinIsStep
<1>2. \A y : HasPrunableFeature(y) <=> \E x \in Within[y] : Prunable(x)
  BY DEF HasPrunableFeature, Prunable
<1>3. \A x : x \in Within[v] <=> x = v \/ \E y \in Parts(v) : x \in Within[y]
  BY <1>1 DEF WithinOf
<1> QED BY <1>2, <1>3

LEMMA SameMapped ==
  ASSUME NEW I, NEW m \in Seq(I), NEW G, \A n \in DOMAIN m : G[m[n]] = m[n]
  PROVE  Mapped(G, m) = m
<1>1. m = [n \in DOMAIN m |-> m[n]]
  OBVIOUS
<1> QED BY <1>1 DEF Mapped

LEMMA SameFields ==
  ASSUME NEW I, NEW p \in Seq(FieldsOver(I)), NEW G, \A n \in DOMAIN p : G[p[n].v] = p[n].v
  PROVE  Fields(G, p) = p
<1>1. p = [n \in DOMAIN p |-> p[n]]
  OBVIOUS
<1>2. ASSUME NEW n \in DOMAIN p  PROVE Field(p[n].k, G[p[n].v]) = p[n]
  <2>1. p[n] \in FieldsOver(I)
    OBVIOUS
  <2> QED BY <2>1 DEF FieldsOver, Field
<1> QED BY <1>1, <1>2 DEF Fields

(* Elements and fields that pruning leaves alone stay in what they are in. *)
LEMMA UnprunedArr ==
  ASSUME Depth \in Nat, NEW m \in Seq(Values), Arr(m) \in Values,
         \A n \in DOMAIN m : PruneValue[m[n]] = m[n] /\ m[n] # Null
  PROVE  PruneValue[Arr(m)] = Arr(m)
<1>1. PruneValue[Arr(m)] = PruneOf(PruneValue, Arr(m))
  BY PruneIsStep
<1>2. PICK p, T : p = Mapped(PruneValue, m) /\ T = Present(m)
  OBVIOUS
<1>3. PruneValue[Arr(m)] = Arr(Pick(p, T))
  BY <1>1, <1>2, PruneOfIs
<1>4. p = m
  BY <1>2, SameMapped
<1>5. DOMAIN m \subseteq T
  BY <1>2 DEF Present
<1>6. Pick(m, T) = m
  BY <1>5, PickAll
<1> QED BY <1>3, <1>4, <1>6

LEMMA UnprunedObj ==
  ASSUME Depth \in Nat, NEW p \in Seq(FieldsOver(Values)), Obj(p) \in Values,
         \A n \in DOMAIN p : PruneValue[p[n].v] = p[n].v /\ Stays(p[n])
  PROVE  PruneValue[Obj(p)] = Obj(p)
<1>1. PruneValue[Obj(p)] = PruneOf(PruneValue, Obj(p))
  BY PruneIsStep
<1>2. PICK q, T : q = Fields(PruneValue, p) /\ T = Remaining(q)
  OBVIOUS
<1>3. PruneValue[Obj(p)] = Obj(Pick(q, T))
  BY <1>1, <1>2, PruneOfIs
<1>4. q = p
  BY <1>2, SameFields
<1>5. DOMAIN p \subseteq T
  BY <1>2, <1>4 DEF Remaining
<1>6. Pick(p, T) = p
  BY <1>5, PickAll
<1> QED BY <1>3, <1>4, <1>6

ParsingParameters == Depth \in Nat /\ \A s \in DOMAIN Float : Float[s] \in DOMAIN Float

AsPruned(v) == PruneValue[Parse[v]] = Parse[v] /\ Parse[v] # Null /\ ~IsEmpty(Parse[v])

(* A value the byte scan finds nothing in is as pruning leaves it. *)
LEMMA NothingToPrune ==
  ASSUME ParsingParameters, NEW v \in Values, ~HasPrunableFeature(v)
  PROVE  AsPruned(v)
<1> DEFINE P == {w \in Values : HasPrunableFeature(w) \/ AsPruned(w)}
<1>0. Depth \in Nat /\ \A s \in DOMAIN Float : Float[s] \in DOMAIN Float
  BY DEF ParsingParameters
<1>1. ASSUME NEW w \in Values, Parts(w) \subseteq P, ~HasPrunableFeature(w)  PROVE AsPruned(w)
  <2>1. ~Prunable(w) /\ \A x \in Parts(w) : AsPruned(x)
    BY <1>0, <1>1, FeatureIs
  <2>2. Made(w, Values) /\ Parts(w) \subseteq Values
    BY <1>0, ValueShape
  <2>3. Parse[w] = ParseOf(Parse, w) /\ Parse[w] \in Values /\ Sends(Parse, Values, Values)
    BY <1>0, ParseIsStep, ParseKeeps DEF Sends
  <2>4. w # Null
    BY <2>1, KindsApart DEF Prunable
  <2>5. ASSUME NEW s \in DOMAIN Float, w = Scalar(s)  PROVE AsPruned(w)
    <3>1. PICK r : r = Float[s]
      OBVIOUS
    <3>2. Parse[w] = Scalar(r)
      BY <2>3, <2>5, <3>1, ParseOfIs
    <3>3. PruneValue[Scalar(r)] = PruneOf(PruneValue, Scalar(r))
      BY <1>0, <2>3, <3>2, PruneIsStep
    <3>4. PruneValue[Scalar(r)] = Scalar(r)
      BY <3>3, PruneOfIs
    <3> QED BY <3>2, <3>4, KindsApart DEF AsPruned
  <2>6. ASSUME NEW e \in Seq(Values), w = Arr(e)  PROVE AsPruned(w)
    <3>1. PICK m : m = Mapped(Parse, e)
      OBVIOUS
    <3>2. Parse[w] = Arr(m)
      BY <2>3, <2>6, <3>1, ParseOfIs
    <3>3. m \in Seq(Values) /\ Len(m) = Len(e) /\ DOMAIN m = DOMAIN e
      BY <2>3, <3>1, MappedKeeps DEF Mapped
    <3>4. e # <<>>
      BY <2>1, <2>6, KindsApart DEF Prunable
    <3>5. ASSUME NEW n \in DOMAIN m  PROVE PruneValue[m[n]] = m[n] /\ m[n] # Null
      <4>1. m[n] = Parse[e[n]] /\ e[n] \in Parts(w)
        BY <2>6, <3>1, <3>3, PartsAre DEF Mapped
      <4> QED BY <2>1, <4>1 DEF AsPruned
    <3>6. PruneValue[Arr(m)] = Arr(m)
      BY <1>0, <2>3, <3>2, <3>3, <3>5, UnprunedArr
    <3>7. m # <<>>
      BY <3>3, <3>4
    <3> QED BY <3>2, <3>6, <3>7, KindsApart DEF AsPruned
  <2>7. ASSUME NEW kv \in Seq(FieldsOver(Values)), w = Obj(kv)  PROVE AsPruned(w)
    <3>1. PICK p : p = Fields(Parse, kv)
      OBVIOUS
    <3>2. Parse[w] = Obj(p)
      BY <2>3, <2>7, <3>1, ParseOfIs
    <3>3. p \in Seq(FieldsOver(Values)) /\ Len(p) = Len(kv) /\ DOMAIN p = DOMAIN kv
      BY <2>3, <3>1, FieldsKeep DEF Fields
    <3>4. kv # <<>> /\ KeysOf(w) \cap Meta = {}
      BY <2>1, <2>7, KindsApart DEF Prunable
    <3>5. ASSUME NEW n \in DOMAIN p  PROVE PruneValue[p[n].v] = p[n].v /\ Stays(p[n])
      <4>1. p[n] = Field(kv[n].k, Parse[kv[n].v])
        BY <3>1, <3>3 DEF Fields
      <4>2. kv[n].v \in Parts(w) /\ kv[n].k \in KeysOf(w)
        BY <2>7, <3>3, PartsAre, KindsApart DEF KeysOf
      <4>3. p[n].k = kv[n].k /\ p[n].v = Parse[kv[n].v]
        BY <4>1, FieldIs
      <4>4. AsPruned(kv[n].v) /\ kv[n].k \notin Meta
        BY <2>1, <3>4, <4>2
      <4> QED BY <4>3, <4>4 DEF AsPruned, Stays
    <3>6. PruneValue[Obj(p)] = Obj(p)
      BY <1>0, <2>3, <3>2, <3>3, <3>5, UnprunedObj
    <3>7. p # <<>>
      BY <3>3, <3>4
    <3> QED BY <3>2, <3>6, <3>7, KindsApart DEF AsPruned
  <2> QED BY <2>2, <2>4, <2>5, <2>6, <2>7 DEF Made
<1>2. \A w \in Values : Parts(w) \subseteq P => w \in P
  BY <1>1
<1>3. Values \subseteq P
  <2> HIDE DEF P
  <2> QED BY <1>0, <1>2, PartInduction
<1> QED BY <1>3

-----------------------------------------------------------------------------
(* The leaves of a value. *)
Steps == Keys \cup {"[]"}
LeafSet == [at : Seq(Steps), s : DOMAIN Float]
LeafLists == Seq(LeafSet)

LEMMA UnderIs ==
  ASSUME NEW k \in Steps, NEW l \in LeafLists
  PROVE  /\ Under(k, l) \in LeafLists /\ Len(Under(k, l)) = Len(l)
         /\ l = <<>> => Under(k, l) = <<>>
<1>1. PICK u, len : u = Under(k, l) /\ len = Len(l)
  OBVIOUS
<1>2. l \in Seq(LeafSet)
  BY DEF LeafLists
<1>3. len \in Nat /\ u = [n \in 1 .. len |-> [at |-> <<k>> \o l[n].at, s |-> l[n].s]]
  BY <1>1, <1>2 DEF Under
<1>4. ASSUME NEW n \in 1 .. len  PROVE [at |-> <<k>> \o l[n].at, s |-> l[n].s] \in LeafSet
  <2>1. l[n] \in LeafSet
    BY <1>1, <1>2
  <2>2. PICK a, s : a = l[n].at /\ s = l[n].s
    OBVIOUS
  <2>3. a \in Seq(Steps) /\ s \in DOMAIN Float
    BY <2>1, <2>2 DEF LeafSet
  <2>4. <<k>> \o a \in Seq(Steps)
    BY <2>3
  <2> QED BY <2>2, <2>3, <2>4 DEF LeafSet
<1>5. u \in Seq(LeafSet) /\ Len(u) = len
  BY <1>3, <1>4
<1>6. l = <<>> => u = <<>>
  BY <1>1, <1>5
<1> QED BY <1>1, <1>5, <1>6 DEF LeafLists

LEMMA ListsAre == <<>> \in LeafLists /\ "[]" \in Steps /\ Keys \subseteq Steps
BY DEF LeafLists, Steps

LEMMA InElementsAre ==
  ASSUME NEW e \in Seq(Values), NEW f, \A n \in DOMAIN e : f[e[n]] \in LeafLists
  PROVE  InElements(f, e) \in Seq(LeafLists) /\ Len(InElements(f, e)) = Len(e)
<1>1. PICK ps, len : ps = InElements(f, e) /\ len = Len(e)
  OBVIOUS
<1>2. len \in Nat /\ DOMAIN e = 1 .. len
  BY <1>1
<1>3. ASSUME NEW n \in 1 .. len  PROVE Under("[]", f[e[n]]) \in LeafLists
  BY <1>2, ListsAre, UnderIs
<1>4. ps = [n \in 1 .. len |-> Under("[]", f[e[n]])]
  BY <1>1, <1>2 DEF InElements
<1>5. ps \in Seq(LeafLists) /\ Len(ps) = len
  BY <1>2, <1>3, <1>4
<1> QED BY <1>1, <1>5

LEMMA InFieldsAre ==
  ASSUME NEW kv \in Seq(FieldsOver(Values)), NEW f, \A n \in DOMAIN kv : f[kv[n].v] \in LeafLists
  PROVE  InFields(f, kv) \in Seq(LeafLists) /\ Len(InFields(f, kv)) = Len(kv)
<1>1. PICK ps, len : ps = InFields(f, kv) /\ len = Len(kv)
  OBVIOUS
<1>2. len \in Nat /\ DOMAIN kv = 1 .. len
  BY <1>1
<1>3. ASSUME NEW n \in 1 .. len
      PROVE  (IF kv[n].k \in Meta THEN <<>> ELSE Under(kv[n].k, f[kv[n].v])) \in LeafLists
  <2>1. kv[n] \in FieldsOver(Values)
    BY <1>1
  <2>2. kv[n].k \in Steps
    BY <2>1, ListsAre DEF FieldsOver
  <2>3. Under(kv[n].k, f[kv[n].v]) \in LeafLists
    BY <1>2, <2>2, UnderIs
  <2> QED BY <2>3, ListsAre
<1>4. ps = [n \in 1 .. len |-> IF kv[n].k \in Meta THEN <<>> ELSE Under(kv[n].k, f[kv[n].v])]
  BY <1>1, <1>2 DEF InFields
<1>5. ps \in Seq(LeafLists) /\ Len(ps) = len
  BY <1>2, <1>3, <1>4
<1> QED BY <1>1, <1>5

LEMMA LeavesKeep ==
  ASSUME Depth \in Nat
  PROVE  Sends(Leaves, Values, LeafLists)
<1> DEFINE P == {w \in Values : Leaves[w] \in LeafLists}
<1>1. ASSUME NEW w \in Values, Parts(w) \subseteq P  PROVE Leaves[w] \in LeafLists
  <2>1. Leaves[w] = LeavesOf(Leaves, w)
    BY LeavesIsStep
  <2>2. Made(w, Values)
    BY ValueShape
  <2>3. CASE w = Null
    BY <2>1, <2>3, LeavesOfIs, ListsAre
  <2>4. ASSUME NEW s \in DOMAIN Float, w = Scalar(s)  PROVE Leaves[w] \in LeafLists
    <3>1. Leaves[w] = <<[at |-> <<>>, s |-> s]>>
      BY <2>1, <2>4, LeavesOfIs
    <3>2. [at |-> <<>>, s |-> s] \in LeafSet
      BY DEF LeafSet
    <3> QED BY <3>1, <3>2 DEF LeafLists
  <2>5. ASSUME NEW e \in Seq(Values), w = Arr(e)  PROVE Leaves[w] \in LeafLists
    <3>1. Leaves[w] = Flatten(InElements(Leaves, e))
      BY <2>1, <2>5, LeavesOfIs
    <3>2. \A n \in DOMAIN e : Leaves[e[n]] \in LeafLists
      <4>1. \A n \in DOMAIN e : e[n] \in Parts(w)
        BY <2>5, PartsAre
      <4> QED BY <1>1, <4>1
    <3>3. PICK ps : ps = InElements(Leaves, e)
      OBVIOUS
    <3>4. ps \in Seq(LeafLists)
      BY <3>2, <3>3, InElementsAre
    <3>5. Flatten(ps) \in LeafLists
      BY <3>4, FlattenTyped DEF LeafLists
    <3> QED BY <3>1, <3>3, <3>5
  <2>6. ASSUME NEW kv \in Seq(FieldsOver(Values)), w = Obj(kv)  PROVE Leaves[w] \in LeafLists
    <3>1. Leaves[w] = Flatten(InFields(Leaves, kv))
      BY <2>1, <2>6, LeavesOfIs
    <3>2. \A n \in DOMAIN kv : Leaves[kv[n].v] \in LeafLists
      <4>1. \A n \in DOMAIN kv : kv[n].v \in Parts(w)
        BY <2>6, PartsAre
      <4> QED BY <1>1, <4>1
    <3>3. PICK ps : ps = InFields(Leaves, kv)
      OBVIOUS
    <3>4. ps \in Seq(LeafLists)
      BY <3>2, <3>3, InFieldsAre
    <3>5. Flatten(ps) \in LeafLists
      BY <3>4, FlattenTyped DEF LeafLists
    <3> QED BY <3>1, <3>3, <3>5
  <2> QED BY <2>2, <2>3, <2>4, <2>5, <2>6 DEF Made
<1>2. \A w \in Values : Parts(w) \subseteq P => w \in P
  BY <1>1
<1>3. Values \subseteq P
  <2> HIDE DEF P
  <2> QED BY <1>2, PartInduction
<1> QED BY <1>3 DEF Sends

(* The pieces as a function of elements and fields. *)
ElementPiece == [x \in Values |-> Under("[]", Leaves[x])]
FieldPiece ==
  [f \in FieldsOver(Values) |-> IF f.k \in Meta THEN <<>> ELSE Under(f.k, Leaves[f.v])]

LEMMA PiecesAre ==
  ASSUME Depth \in Nat
  PROVE  /\ Sends(ElementPiece, Values, LeafLists)
         /\ Sends(FieldPiece, FieldsOver(Values), LeafLists)
         /\ \A e \in Seq(Values) : InElements(Leaves, e) = Mapped(ElementPiece, e)
         /\ \A kv \in Seq(FieldsOver(Values)) : InFields(Leaves, kv) = Mapped(FieldPiece, kv)
<1>1. \A x \in Values : Leaves[x] \in LeafLists
  BY LeavesKeep DEF Sends
<1>2. ASSUME NEW x \in Values  PROVE ElementPiece[x] \in LeafLists
  <2>1. Under("[]", Leaves[x]) \in LeafLists
    BY <1>1, ListsAre, UnderIs
  <2> QED BY <2>1 DEF ElementPiece
<1>3. ASSUME NEW f \in FieldsOver(Values)  PROVE FieldPiece[f] \in LeafLists
  <2>1. f.k \in Steps /\ f.v \in Values
    BY ListsAre DEF FieldsOver
  <2>2. Under(f.k, Leaves[f.v]) \in LeafLists
    BY <1>1, <2>1, UnderIs
  <2> QED BY <2>2, ListsAre DEF FieldPiece
<1>4. ASSUME NEW e \in Seq(Values)  PROVE InElements(Leaves, e) = Mapped(ElementPiece, e)
  <2>1. \A n \in DOMAIN e : ElementPiece[e[n]] = Under("[]", Leaves[e[n]])
    BY DEF ElementPiece
  <2> QED BY <2>1 DEF InElements, Mapped
<1>5. ASSUME NEW kv \in Seq(FieldsOver(Values))  PROVE InFields(Leaves, kv) = Mapped(FieldPiece, kv)
  <2> DEFINE FS == FieldsOver(Values)
  <2>1. \A n \in DOMAIN kv : kv[n] \in FS
    OBVIOUS
  <2>2. \A f \in FS : FieldPiece[f] = IF f.k \in Meta THEN <<>> ELSE Under(f.k, Leaves[f.v])
    BY DEF FieldPiece
  <2> HIDE DEF FS
  <2>3. \A n \in DOMAIN kv : FieldPiece[kv[n]] = IF kv[n].k \in Meta THEN <<>> ELSE Under(kv[n].k, Leaves[kv[n].v])
    BY <2>1, <2>2
  <2> QED BY <2>3 DEF InFields, Mapped
<1> QED BY <1>2, <1>3, <1>4, <1>5 DEF Sends

LEMMA NoLeaves ==
  ASSUME Depth \in Nat, NEW v \in Values, v = Null \/ IsEmpty(v)
  PROVE  Leaves[v] = <<>>
<1>1. Leaves[v] = LeavesOf(Leaves, v)
  BY LeavesIsStep
<1>2. CASE v = Null
  BY <1>1, <1>2, LeavesOfIs
<1>3. CASE v = Arr(<<>>)
  <2>1. InElements(Leaves, <<>>) = <<>>
    BY DEF InElements
  <2>2. LeavesOf(Leaves, Arr(<<>>)) = Flatten(InElements(Leaves, <<>>))
    BY LeavesOfIs
  <2> QED BY <1>1, <1>3, <2>1, <2>2, FlattenNone
<1>4. CASE v = Obj(<<>>)
  <2>1. InFields(Leaves, <<>>) = <<>>
    BY DEF InFields
  <2>2. LeavesOf(Leaves, Obj(<<>>)) = Flatten(InFields(Leaves, <<>>))
    BY LeavesOfIs
  <2> QED BY <1>1, <1>4, <2>1, <2>2, FlattenNone
<1> QED BY <1>2, <1>3, <1>4 DEF IsEmpty

(* A pruned value says what it said. *)
LEMMA PruningKeepsLeaves ==
  ASSUME Depth \in Nat, NEW v \in Values
  PROVE  Leaves[PruneValue[v]] = Leaves[v]
<1> DEFINE P == {w \in Values : Leaves[PruneValue[w]] = Leaves[w]}
<1>0. /\ Sends(Leaves, Values, LeafLists) /\ Sends(PruneValue, Values, Values)
      /\ Sends(ElementPiece, Values, LeafLists) /\ Sends(FieldPiece, FieldsOver(Values), LeafLists)
  BY LeavesKeep, PruneKeeps, PiecesAre
<1>1. ASSUME NEW w \in Values, Parts(w) \subseteq P
      PROVE  Leaves[PruneValue[w]] = Leaves[w]
  <2>1. /\ PruneValue[w] = PruneOf(PruneValue, w) /\ PruneValue[w] \in Values
        /\ Leaves[w] = LeavesOf(Leaves, w)
        /\ Leaves[PruneValue[w]] = LeavesOf(Leaves, PruneValue[w])
    BY <1>0, PruneIsStep, LeavesIsStep DEF Sends
  <2>2. Made(w, Values)
    BY ValueShape
  <2>3. w = Null \/ (\E s \in DOMAIN Float : w = Scalar(s)) => PruneValue[w] = w
    BY <2>1, PruneOfIs
  <2>4. ASSUME NEW e \in Seq(Values), w = Arr(e)  PROVE Leaves[PruneValue[w]] = Leaves[w]
    <3>1. PICK m, T : m = Mapped(PruneValue, e) /\ T = Present(e)
      OBVIOUS
    <3>2. PICK p : p = Pick(m, T)
      OBVIOUS
    <3>3. PruneValue[w] = Arr(p)
      BY <2>1, <2>4, <3>1, <3>2, PruneOfIs
    <3>4. m \in Seq(Values) /\ DOMAIN m = DOMAIN e
      BY <1>0, <3>1, MappedKeeps DEF Mapped
    <3>5. p \in Seq(Values)
      BY <3>2, <3>4, PickPlaces
    <3>6. Leaves[PruneValue[w]] = Flatten(Mapped(ElementPiece, p))
      <4>1. LeavesOf(Leaves, Arr(p)) = Flatten(InElements(Leaves, p))
        BY LeavesOfIs
      <4> QED BY <2>1, <3>3, <3>5, <4>1, PiecesAre
    <3>7. Leaves[w] = Flatten(InElements(Leaves, e))
      BY <2>1, <2>4, LeavesOfIs
    <3>8. PICK b : b = [n \in DOMAIN m |-> IF n \in T THEN ElementPiece[m[n]] ELSE <<>>]
      OBVIOUS
    <3>9. Flatten(Mapped(ElementPiece, p)) = Flatten(b)
      BY <1>0, <3>2, <3>4, <3>8, FlattenPick DEF LeafLists
    <3>10. ASSUME NEW n \in DOMAIN e  PROVE b[n] = Under("[]", Leaves[e[n]])
      <4>1. e[n] \in Values /\ m[n] \in Values /\ m[n] = PruneValue[e[n]]
        BY <3>1, <3>4 DEF Mapped
      <4>2. Leaves[PruneValue[e[n]]] = Leaves[e[n]]
        BY <1>1, <2>4, PartsAre
      <4>3. CASE n \in T
        BY <3>4, <3>8, <4>1, <4>2, <4>3 DEF ElementPiece
      <4>4. CASE n \notin T
        <5>1. e[n] = Null
          BY <3>1, <4>4 DEF Present
        <5>2. Leaves[e[n]] = <<>>
          BY <4>1, <5>1, NoLeaves
        <5>3. Under("[]", <<>>) = <<>>
          BY ListsAre, UnderIs
        <5> QED BY <3>4, <3>8, <4>4, <5>2, <5>3
      <4> QED BY <4>3, <4>4
    <3>11. b = InElements(Leaves, e)
      BY <3>4, <3>8, <3>10 DEF InElements
    <3> QED BY <3>6, <3>7, <3>9, <3>11
  <2>5. ASSUME NEW kv \in Seq(FieldsOver(Values)), w = Obj(kv)
        PROVE  Leaves[PruneValue[w]] = Leaves[w]
    <3>1. PICK m, T : m = Fields(PruneValue, kv) /\ T = Remaining(m)
      OBVIOUS
    <3>2. PICK p : p = Pick(m, T)
      OBVIOUS
    <3>3. PruneValue[w] = Obj(p)
      BY <2>1, <2>5, <3>1, <3>2, PruneOfIs
    <3>4. m \in Seq(FieldsOver(Values)) /\ DOMAIN m = DOMAIN kv
      BY <1>0, <3>1, FieldsKeep DEF Fields
    <3>5. p \in Seq(FieldsOver(Values))
      BY <3>2, <3>4, PickPlaces
    <3>6. Leaves[PruneValue[w]] = Flatten(Mapped(FieldPiece, p))
      <4>1. LeavesOf(Leaves, Obj(p)) = Flatten(InFields(Leaves, p))
        BY LeavesOfIs
      <4> QED BY <2>1, <3>3, <3>5, <4>1, PiecesAre
    <3>7. Leaves[w] = Flatten(InFields(Leaves, kv))
      BY <2>1, <2>5, LeavesOfIs
    <3>8. PICK b : b = [n \in DOMAIN m |-> IF n \in T THEN FieldPiece[m[n]] ELSE <<>>]
      OBVIOUS
    <3>9. Flatten(Mapped(FieldPiece, p)) = Flatten(b)
      BY <1>0, <3>2, <3>4, <3>8, FlattenPick DEF LeafLists
    <3>10. ASSUME NEW n \in DOMAIN kv
           PROVE  b[n] = IF kv[n].k \in Meta THEN <<>> ELSE Under(kv[n].k, Leaves[kv[n].v])
      <4>0. PICK k, x, y : k = kv[n].k /\ x = kv[n].v /\ y = PruneValue[x]
        OBVIOUS
      <4>1. kv[n] \in FieldsOver(Values) /\ m[n] \in FieldsOver(Values) /\ m[n] = Field(k, y)
        BY <3>1, <3>4, <4>0 DEF Fields
      <4>2. k \in Steps /\ x \in Values /\ y \in Values /\ m[n].k = k /\ m[n].v = y
        BY <4>0, <4>1, FieldIs, ListsAre DEF FieldsOver
      <4>3. Leaves[y] = Leaves[x]
        BY <1>1, <2>5, <4>0, PartsAre
      <4>4. CASE n \in T
        <5>1. b[n] = FieldPiece[m[n]]
          BY <3>4, <3>8, <4>4
        <5>2. FieldPiece[m[n]] = IF k \in Meta THEN <<>> ELSE Under(k, Leaves[y])
          BY <4>1, <4>2 DEF FieldPiece
        <5> QED BY <4>0, <4>3, <5>1, <5>2
      <4>5. CASE n \notin T
        <5>1. k \in Meta \/ y = Null \/ IsEmpty(y)
          BY <3>1, <3>4, <4>2, <4>5 DEF Remaining, Stays
        <5>2. k \notin Meta => Leaves[x] = <<>>
          BY <4>2, <4>3, <5>1, NoLeaves
        <5>3. Under(k, <<>>) = <<>>
          BY <4>2, ListsAre, UnderIs
        <5> QED BY <3>4, <3>8, <4>0, <4>5, <5>2, <5>3
      <4> QED BY <4>4, <4>5
    <3>11. b = InFields(Leaves, kv)
      BY <3>4, <3>8, <3>10 DEF InFields
    <3> QED BY <3>6, <3>7, <3>9, <3>11
  <2> QED BY <2>2, <2>3, <2>4, <2>5 DEF Made
<1>2. \A w \in Values : Parts(w) \subseteq P => w \in P
  BY <1>1
<1>3. Values \subseteq P
  <2> HIDE DEF P
  <2> QED BY <1>2, PartInduction
<1> QED BY <1>3

(* A pruned value has nothing left to prune. *)
LEMMA PruningOnce ==
  ASSUME Depth \in Nat, NEW v \in Values
  PROVE  PruneValue[PruneValue[v]] = PruneValue[v]
<1> DEFINE settled(w) == /\ PruneValue[PruneValue[w]] = PruneValue[w]
                         /\ PruneValue[w] = Null => w = Null
           P == {w \in Values : settled(w)}
<1>0. Sends(PruneValue, Values, Values)
  BY PruneKeeps
<1>1. ASSUME NEW w \in Values, Parts(w) \subseteq P  PROVE settled(w)
  <2>1. PruneValue[w] = PruneOf(PruneValue, w) /\ PruneValue[w] \in Values
    BY <1>0, PruneIsStep DEF Sends
  <2>2. Made(w, Values)
    BY ValueShape
  <2>3. w = Null \/ (\E s \in DOMAIN Float : w = Scalar(s)) => PruneValue[w] = w
    BY <2>1, PruneOfIs
  <2>4. ASSUME NEW e \in Seq(Values), w = Arr(e)  PROVE settled(w)
    <3>1. PICK m, T : m = Mapped(PruneValue, e) /\ T = Present(e)
      OBVIOUS
    <3>2. PICK p, len : p = Pick(m, T) /\ len = Len(m)
      OBVIOUS
    <3>3. PruneValue[w] = Arr(p)
      BY <2>1, <2>4, <3>1, <3>2, PruneOfIs
    <3>4. m \in Seq(Values) /\ DOMAIN m = DOMAIN e /\ DOMAIN m = 1 .. len
      BY <1>0, <3>1, <3>2, MappedKeeps DEF Mapped
    <3>5. p \in Seq(Values) /\ \E x : Places(x, p, m, T, len)
      BY <3>2, <3>4, PickPlaces
    <3>6. PICK x : Places(x, p, m, T, len)
      BY <3>5
    <3>7. ASSUME NEW j \in DOMAIN p  PROVE PruneValue[p[j]] = p[j] /\ p[j] # Null
      <4>1. PICK i : i = x[j]
        OBVIOUS
      <4>2. i \in DOMAIN e /\ i \in T /\ p[j] = m[i]
        BY <3>4, <3>5, <3>6, <4>1 DEF Places
      <4>3. m[i] = PruneValue[e[i]] /\ e[i] \in Parts(w) /\ e[i] # Null
        BY <2>4, <3>1, <4>2, PartsAre DEF Mapped, Present
      <4>4. settled(e[i])
        BY <1>1, <4>3
      <4> QED BY <4>2, <4>3, <4>4
    <3>8. PruneValue[Arr(p)] = Arr(p)
      BY <2>1, <3>3, <3>5, <3>7, UnprunedArr
    <3> QED BY <3>3, <3>8, KindsApart
  <2>5. ASSUME NEW kv \in Seq(FieldsOver(Values)), w = Obj(kv)  PROVE settled(w)
    <3>1. PICK m, T : m = Fields(PruneValue, kv) /\ T = Remaining(m)
      OBVIOUS
    <3>2. PICK p, len : p = Pick(m, T) /\ len = Len(m)
      OBVIOUS
    <3>3. PruneValue[w] = Obj(p)
      BY <2>1, <2>5, <3>1, <3>2, PruneOfIs
    <3>4. m \in Seq(FieldsOver(Values)) /\ DOMAIN m = DOMAIN kv /\ DOMAIN m = 1 .. len
      BY <1>0, <3>1, <3>2, FieldsKeep DEF Fields
    <3>5. p \in Seq(FieldsOver(Values)) /\ \E x : Places(x, p, m, T, len)
      BY <3>2, <3>4, PickPlaces
    <3>6. PICK x : Places(x, p, m, T, len)
      BY <3>5
    <3>7. ASSUME NEW j \in DOMAIN p  PROVE PruneValue[p[j].v] = p[j].v /\ Stays(p[j])
      <4>1. PICK i : i = x[j]
        OBVIOUS
      <4>2. i \in DOMAIN kv /\ i \in T /\ p[j] = m[i]
        BY <3>4, <3>5, <3>6, <4>1 DEF Places
      <4>3. m[i] = Field(kv[i].k, PruneValue[kv[i].v]) /\ kv[i].v \in Parts(w) /\ Stays(m[i])
        BY <2>5, <3>1, <4>2, PartsAre DEF Fields, Remaining
      <4>4. settled(kv[i].v)
        BY <1>1, <4>3
      <4> QED BY <4>2, <4>3, <4>4, FieldIs
    <3>8. PruneValue[Obj(p)] = Obj(p)
      BY <2>1, <3>3, <3>5, <3>7, UnprunedObj
    <3> QED BY <3>3, <3>8, KindsApart
  <2> QED BY <2>2, <2>3, <2>4, <2>5 DEF Made
<1> HIDE DEF settled
<1>2. \A w \in Values : Parts(w) \subseteq P => w \in P
  BY <1>1
<1>3. Values \subseteq P
  <2> HIDE DEF P
  <2> QED BY <1>2, PartInduction
<1> QED BY <1>3 DEF settled

-----------------------------------------------------------------------------
(* Where a table comes from. *)
FieldLists == Seq(FieldsOver(Values))
Lists == Seq(Values)
Paths == Seq(Keys)

LEMMA ShapeIs ==
  ASSUME Depth \in Nat, NEW v \in Values
  PROVE  /\ v.t = "arr" => \E e \in Lists : v = Arr(e)
         /\ v.t = "obj" => \E kv \in FieldLists : v = Obj(kv)
<1>1. Made(v, Values)
  BY ValueShape
<1>2. v = Null => v.t # "arr" /\ v.t # "obj"
  BY KindsApart
<1>3. ASSUME NEW s, v = Scalar(s)  PROVE v.t # "arr" /\ v.t # "obj"
  BY <1>3, KindsApart
<1>4. ASSUME NEW e, v = Arr(e)  PROVE v.t # "obj"
  BY <1>4, KindsApart
<1>5. ASSUME NEW kv, v = Obj(kv)  PROVE v.t # "arr"
  BY <1>5, KindsApart
<1> QED BY <1>1, <1>2, <1>3, <1>4, <1>5 DEF Made, Lists, FieldLists

(* In all that a value is made of, a key is there once. *)
Tidy(v) == v \in Values /\ \A x \in Within[v] : KeysOnce(x)

LEMMA TidyIs ==
  ASSUME Depth \in Nat, NEW v, Tidy(v)
  PROVE  KeysOnce(v) /\ \A x \in Parts(v) : Tidy(x)
<1>1. v \in Values /\ Within[v] = WithinOf(Within, v) /\ Parts(v) \subseteq Values
  BY WithinIsStep, ValueShape DEF Tidy
<1>2. \A x : x \in Within[v] <=> x = v \/ \E y \in Parts(v) : x \in Within[y]
  BY <1>1 DEF WithinOf
<1> QED BY <1>1, <1>2 DEF Tidy

Once(kv) == \A m, n \in DOMAIN kv : kv[m].k = kv[n].k => m = n

LEMMA OnceIs == ASSUME NEW kv  PROVE KeysOnce(Obj(kv)) <=> Once(kv)
BY KindsApart DEF KeysOnce, Once

LEMMA GetIs ==
  ASSUME NEW kv, Once(kv), NEW n \in DOMAIN kv
  PROVE  Get(Obj(kv), kv[n].k) = kv[n].v
<1>1. PICK c : c = CHOOSE m \in DOMAIN kv : kv[m].k = kv[n].k
  OBVIOUS
<1>2. c \in DOMAIN kv /\ kv[c].k = kv[n].k
  BY <1>1
<1>3. c = n
  BY <1>2 DEF Once
<1>4. Get(Obj(kv), kv[n].k) = kv[c].v
  BY <1>1 DEF Get, Obj
<1> QED BY <1>3, <1>4

LEMMA FieldIn ==
  ASSUME NEW kv \in FieldLists, NEW n \in DOMAIN kv
  PROVE  kv[n] \in FieldsOver(Values) /\ kv[n].k \in Keys /\ kv[n].v \in Values
<1>1. kv[n] \in FieldsOver(Values)
  BY DEF FieldLists
<1> QED BY <1>1 DEF FieldsOver

(* What json.Unmarshal makes of an object keeps the fields in their places. *)
LEMMA ParsedFields ==
  ASSUME ParsingParameters, NEW kv \in FieldLists, Obj(kv) \in Values
  PROVE  /\ Parse[Obj(kv)] = Obj(Fields(Parse, kv))
         /\ Fields(Parse, kv) \in FieldLists
         /\ DOMAIN Fields(Parse, kv) = DOMAIN kv
         /\ \A n \in DOMAIN kv : /\ Fields(Parse, kv)[n].k = kv[n].k
                                 /\ Fields(Parse, kv)[n].v = Parse[kv[n].v]
         /\ Once(kv) => Once(Fields(Parse, kv))
<1>0. Depth \in Nat
  BY DEF ParsingParameters
<1>1. Parse[Obj(kv)] = ParseOf(Parse, Obj(kv))
  BY <1>0, ParseIsStep
<1>2. Parse[Obj(kv)] = Obj(Fields(Parse, kv))
  BY <1>1, ParseOfIs
<1>3. Sends(Parse, Values, Values)
  BY ParseKeeps DEF ParsingParameters
<1>4. Fields(Parse, kv) \in FieldLists
  BY <1>3, FieldsKeep DEF FieldLists
<1>5. PICK p : p = Fields(Parse, kv)
  OBVIOUS
<1>6. DOMAIN p = DOMAIN kv /\ \A n \in DOMAIN kv : p[n] = Field(kv[n].k, Parse[kv[n].v])
  BY <1>5 DEF Fields
<1>7. \A n \in DOMAIN kv : p[n].k = kv[n].k /\ p[n].v = Parse[kv[n].v]
  BY <1>6, FieldIs
<1>8. Once(kv) => Once(p)
  BY <1>6, <1>7 DEF Once
<1> QED BY <1>2, <1>4, <1>5, <1>6, <1>7, <1>8

LEMMA ParsedList ==
  ASSUME ParsingParameters, NEW e \in Lists, Arr(e) \in Values
  PROVE  /\ Parse[Arr(e)] = Arr(Mapped(Parse, e))
         /\ Mapped(Parse, e) \in Lists /\ Len(Mapped(Parse, e)) = Len(e)
         /\ DOMAIN Mapped(Parse, e) = DOMAIN e
         /\ \A n \in DOMAIN e : Mapped(Parse, e)[n] = Parse[e[n]]
<1>0. Depth \in Nat
  BY DEF ParsingParameters
<1>1. Parse[Arr(e)] = ParseOf(Parse, Arr(e))
  BY <1>0, ParseIsStep
<1>2. Parse[Arr(e)] = Arr(Mapped(Parse, e))
  BY <1>1, ParseOfIs
<1>3. Sends(Parse, Values, Values)
  BY ParseKeeps DEF ParsingParameters
<1>4. Mapped(Parse, e) \in Lists /\ Len(Mapped(Parse, e)) = Len(e)
  BY <1>3, MappedKeeps DEF Lists
<1> QED BY <1>2, <1>4 DEF Mapped

(* An array of objects stands at the path of a candidate. *)
HitAt(kv, n) == n \in DOMAIN kv /\ IsObjectArray(kv[n].v)
RootPath(v, keys) == keys = <<>> /\ IsObjectArray(v)
FieldPath(kv, n, keys) == HitAt(kv, n) /\ keys = <<kv[n].k>>
InnerPath(kv, n, in, m, keys) ==
  n \in DOMAIN kv /\ kv[n].v = Obj(in) /\ HitAt(in, m) /\ keys = <<kv[n].k, in[m].k>>

LeadsTo(v, keys) ==
  \/ RootPath(v, keys)
  \/ \E kv \in FieldLists : v = Obj(kv) /\ \E n : FieldPath(kv, n, keys)
  \/ \E kv \in FieldLists : v = Obj(kv) /\
       \E in \in FieldLists : \E n, m : InnerPath(kv, n, in, m, keys)

LEMMA ShallowIs ==
  ASSUME NEW kv \in FieldLists
  PROVE  /\ Shallow(Obj(kv)) \in Seq(Paths)
         /\ \A j \in DOMAIN Shallow(Obj(kv)) : \E n : FieldPath(kv, n, Shallow(Obj(kv))[j])
<1>1. PICK T, len : T = {n \in DOMAIN kv : IsObjectArray(kv[n].v)} /\ len = Len(kv)
  OBVIOUS
<1>2. PICK hits : hits = Pick(kv, T)
  OBVIOUS
<1>3. hits \in FieldLists /\ \E x : Places(x, hits, kv, T, len)
  BY <1>1, <1>2, PickPlaces DEF FieldLists
<1>4. PICK x : Places(x, hits, kv, T, len)
  BY <1>3
<1>5. PICK sh : sh = Shallow(Obj(kv))
  OBVIOUS
<1>6. sh = [n \in DOMAIN hits |-> <<hits[n].k>>]
  BY <1>1, <1>2, <1>5 DEF Shallow, Obj
<1>7. DOMAIN hits = 1 .. Len(hits) /\ Len(hits) \in Nat
  BY <1>3 DEF FieldLists
<1>8. ASSUME NEW j \in DOMAIN hits  PROVE sh[j] \in Paths /\ \E n : FieldPath(kv, n, sh[j])
  <2>1. x[j] \in T /\ hits[j] = kv[x[j]]
    BY <1>4, <1>7 DEF Places
  <2>2. HitAt(kv, x[j]) /\ sh[j] = <<kv[x[j]].k>>
    BY <1>1, <1>6, <2>1 DEF HitAt
  <2>3. kv[x[j]].k \in Keys
    BY <2>2, FieldIn DEF HitAt
  <2> QED BY <2>2, <2>3 DEF FieldPath, Paths
<1>9. sh \in Seq(Paths)
  <2>1. \A j \in 1 .. Len(hits) : sh[j] \in Paths
    BY <1>7, <1>8
  <2> QED BY <1>6, <1>7, <2>1
<1> QED BY <1>5, <1>6, <1>8, <1>9

LEMMA PairIs == ASSUME NEW a, NEW b  PROVE <<a>> \o <<b>> = <<a, b>>
<1> DEFINE X == {a, b}
<1>1. PICK p, q, pq : p = <<a>> /\ q = <<b>> /\ pq = <<a, b>>
  OBVIOUS
<1>2. p \in Seq(X) /\ q \in Seq(X) /\ pq \in Seq(X) /\ Len(p) = 1 /\ Len(q) = 1 /\ Len(pq) = 2
  BY <1>1
<1>3. p[1] = a /\ q[1] = b /\ pq[1] = a /\ pq[2] = b
  BY <1>1
<1> HIDE DEF X
<1>4. PICK c : c = p \o q
  OBVIOUS
<1>5. c \in Seq(X) /\ Len(c) = 2
  BY <1>2, <1>4, ConcatProperties
<1>6. c[1] = p[1] /\ c[2] = q[1]
  BY <1>2, <1>4, ConcatProperties
<1>7. \A n \in 1 .. 2 : c[n] = pq[n]
  BY <1>3, <1>6
<1>8. c = pq
  BY <1>2, <1>5, <1>7
<1> QED BY <1>1, <1>4, <1>8

LEMMA BelowIs ==
  ASSUME Depth \in Nat, NEW f \in FieldsOver(Values)
  PROVE  /\ Below(f) \in Seq(Paths)
         /\ \A j \in DOMAIN Below(f) :
              \E in \in FieldLists : f.v = Obj(in) /\ \E m : HitAt(in, m) /\ Below(f)[j] = <<f.k, in[m].k>>
<1>1. f.k \in Keys /\ f.v \in Values
  BY DEF FieldsOver
<1>2. CASE f.v.t # "obj"
  <2>1. Below(f) = <<>>
    BY <1>2 DEF Below
  <2> QED BY <2>1
<1>3. CASE f.v.t = "obj"
  <2>1. PICK in \in FieldLists : f.v = Obj(in)
    BY <1>1, <1>3, ShapeIs
  <2>2. PICK sh, b : sh = Shallow(Obj(in)) /\ b = Below(f)
    OBVIOUS
  <2>3. b = [n \in DOMAIN sh |-> <<f.k>> \o sh[n]]
    BY <1>3, <2>1, <2>2 DEF Below
  <2>4. sh \in Seq(Paths) /\ \A j \in DOMAIN sh : \E n : FieldPath(in, n, sh[j])
    BY <2>2, ShallowIs
  <2>5. DOMAIN sh = 1 .. Len(sh) /\ Len(sh) \in Nat
    BY <2>4
  <2>6. ASSUME NEW j \in DOMAIN sh
        PROVE  b[j] \in Paths /\ \E m : HitAt(in, m) /\ b[j] = <<f.k, in[m].k>>
    <3>1. PICK m : FieldPath(in, m, sh[j])
      BY <2>4
    <3>2. HitAt(in, m) /\ sh[j] = <<in[m].k>> /\ b[j] = <<f.k>> \o sh[j]
      BY <2>3, <3>1 DEF FieldPath
    <3>3. b[j] = <<f.k, in[m].k>>
      BY <3>2, PairIs
    <3>4. in[m].k \in Keys
      BY <3>2, FieldIn DEF HitAt
    <3>5. <<f.k, in[m].k>> \in Paths
      BY <1>1, <3>4 DEF Paths
    <3> QED BY <3>2, <3>3, <3>5
  <2>7. b \in Seq(Paths)
    <3>1. \A j \in 1 .. Len(sh) : b[j] \in Paths
      BY <2>5, <2>6
    <3> QED BY <2>3, <2>5, <3>1
  <2>8. DOMAIN b = DOMAIN sh
    BY <2>3
  <2>9. \A j \in DOMAIN b : \E m : HitAt(in, m) /\ b[j] = <<f.k, in[m].k>>
    BY <2>6, <2>8
  <2> QED BY <2>1, <2>2, <2>7, <2>9
<1> QED BY <1>2, <1>3

LEMMA CandidatesLead ==
  ASSUME Depth \in Nat, NEW v \in Values, Candidates(v) # <<>>
  PROVE  LeadsTo(v, Candidates(v)[1])
<1>1. CASE v.t = "arr"
  <2>1. v.t # "obj"
    BY <1>1
  <2>2. Candidates(v) = IF IsObjectArray(v) THEN <<<<>>>> ELSE <<>>
    BY <1>1, <2>1 DEF Candidates
  <2> QED BY <2>2 DEF LeadsTo, RootPath
<1>2. CASE v.t = "obj"
  <2>1. PICK kv \in FieldLists : v = Obj(kv)
    BY <1>2, ShapeIs
  <2>2. PICK ps, sh : ps = [n \in DOMAIN kv |-> Below(kv[n])] /\ sh = Shallow(v)
    OBVIOUS
  <2>3. Candidates(v) = sh \o Flatten(ps)
    <3>1. v.t # "arr" /\ v.kv = kv
      BY <1>2, <2>1, KindsApart
    <3> QED BY <1>2, <2>2, <3>1 DEF Candidates
  <2>4. sh \in Seq(Paths) /\ \A j \in DOMAIN sh : \E n : FieldPath(kv, n, sh[j])
    BY <2>1, <2>2, ShallowIs
  <2>5. PICK len : len = Len(kv)
    OBVIOUS
  <2>6. len \in Nat /\ DOMAIN kv = 1 .. len
    BY <2>5 DEF FieldLists
  <2>7. ps \in Seq(Seq(Paths)) /\ DOMAIN ps = 1 .. len
    <3> DEFINE Found == Seq(Paths)
    <3>1. ASSUME NEW n \in 1 .. len  PROVE Below(kv[n]) \in Found
      BY <2>6, FieldIn, BelowIs
    <3> HIDE DEF Found
    <3>2. ps \in Seq(Found) /\ DOMAIN ps = 1 .. len
      BY <2>2, <2>6, <3>1
    <3> QED BY <3>2 DEF Found
  <2>8. PICK fl : fl = Flatten(ps)
    OBVIOUS
  <2>9. fl \in Seq(Paths)
    BY <2>7, <2>8, FlattenTyped
  <2>10. CASE sh # <<>>
    <3>1. 1 \in DOMAIN sh /\ (sh \o fl)[1] = sh[1]
      BY <2>4, <2>9, <2>10
    <3>2. PICK n : FieldPath(kv, n, sh[1])
      BY <2>4, <3>1
    <3>3. FieldPath(kv, n, Candidates(v)[1])
      BY <2>3, <2>8, <3>1, <3>2
    <3> QED BY <2>1, <3>3 DEF LeadsTo
  <2>11. CASE sh = <<>>
    <3>1. Candidates(v) = fl
      BY <2>3, <2>8, <2>9, <2>11
    <3>2. 1 \in DOMAIN fl
      BY <2>9, <3>1
    <3>3. InPiece(fl[1], ps)
      BY <2>7, <2>8, <3>2, FlattenHolds
    <3>4. PICK n \in DOMAIN ps : \E j \in DOMAIN ps[n] : fl[1] = ps[n][j]
      BY <3>3 DEF InPiece
    <3>5. PICK f : f = kv[n]
      OBVIOUS
    <3>6. f \in FieldsOver(Values) /\ ps[n] = Below(f) /\ n \in DOMAIN kv
      BY <2>2, <2>6, <2>7, <3>4, <3>5, FieldIn
    <3>7. PICK j \in DOMAIN Below(f) : fl[1] = Below(f)[j]
      BY <3>4, <3>6
    <3>8. PICK in \in FieldLists : f.v = Obj(in) /\ \E m : HitAt(in, m) /\ Below(f)[j] = <<f.k, in[m].k>>
      BY <3>6, <3>7, BelowIs
    <3>9. PICK m : HitAt(in, m) /\ fl[1] = <<f.k, in[m].k>>
      BY <3>7, <3>8
    <3>10. InnerPath(kv, n, in, m, Candidates(v)[1])
      BY <3>1, <3>5, <3>6, <3>8, <3>9 DEF InnerPath
    <3> QED BY <2>1, <3>10 DEF LeadsTo
  <2> QED BY <2>10, <2>11
<1>3. CASE v.t # "arr" /\ v.t # "obj"
  BY <1>3 DEF Candidates
<1> QED BY <1>1, <1>2, <1>3

-----------------------------------------------------------------------------
(* The rows of a table and its columns. *)
JSONParameters == ParsingParameters /\ MinRows \in Nat /\ MinRows >= 2

RowsAre(rows) ==
  rows \in Lists /\ Len(rows) >= 2 /\ \A i \in DOMAIN rows : KeysOnce(rows[i])

LEMMA HitIs ==
  ASSUME JSONParameters, NEW x \in Values, IsObjectArray(x)
  PROVE  \E e \in Lists : x = Arr(e) /\ Len(e) >= 2
<1>0. Depth \in Nat /\ MinRows \in Nat /\ MinRows >= 2
  BY DEF JSONParameters, ParsingParameters
<1>1. PICK e \in Lists : x = Arr(e)
  BY <1>0, ShapeIs DEF IsObjectArray
<1>2. x.e = e
  BY <1>1, KindsApart
<1>3. PICK len : len = Len(e)
  OBVIOUS
<1>4. len \in Nat /\ len >= MinRows
  BY <1>2, <1>3 DEF IsObjectArray, Lists
<1>5. len >= 2
  BY <1>0, <1>4
<1> QED BY <1>1, <1>3, <1>5

LEMMA ParsedOnce ==
  ASSUME ParsingParameters, NEW x, Tidy(x)
  PROVE  KeysOnce(Parse[x])
<1>0. Depth \in Nat /\ x \in Values
  BY DEF ParsingParameters, Tidy
<1>1. Parse[x] = ParseOf(Parse, x) /\ Made(x, Values)
  BY <1>0, ParseIsStep, ValueShape
<1>2. CASE x = Null
  BY <1>1, <1>2, ParseOfIs, KindsApart DEF KeysOnce
<1>3. ASSUME NEW s, x = Scalar(s)  PROVE KeysOnce(Parse[x])
  <2>1. PICK r : r = Float[s]
    OBVIOUS
  <2>2. Parse[x] = Scalar(r)
    BY <1>1, <1>3, <2>1, ParseOfIs
  <2> QED BY <2>2, KindsApart DEF KeysOnce
<1>4. ASSUME NEW e, x = Arr(e)  PROVE KeysOnce(Parse[x])
  <2>1. PICK r : r = Mapped(Parse, e)
    OBVIOUS
  <2>2. Parse[x] = Arr(r)
    BY <1>1, <1>4, <2>1, ParseOfIs
  <2> QED BY <2>2, KindsApart DEF KeysOnce
<1>5. ASSUME NEW kv \in FieldLists, x = Obj(kv)  PROVE KeysOnce(Parse[x])
  <2>1. Once(kv)
    BY <1>0, <1>5, TidyIs, OnceIs
  <2>2. Parse[x] = Obj(Fields(Parse, kv)) /\ Once(Fields(Parse, kv))
    BY <1>0, <1>5, <2>1, ParsedFields
  <2> QED BY <2>2, OnceIs
<1> QED BY <1>1, <1>2, <1>3, <1>4, <1>5 DEF Made, FieldLists

LEMMA RowsOfList ==
  ASSUME JSONParameters, NEW e \in Lists, Tidy(Arr(e)), Len(e) >= 2
  PROVE  /\ Parse[Arr(e)] = Arr(Mapped(Parse, e))
         /\ RowsAre(Mapped(Parse, e))
<1>0. ParsingParameters /\ Depth \in Nat /\ Arr(e) \in Values
  BY DEF JSONParameters, ParsingParameters, Tidy
<1>1. PICK m : m = Mapped(Parse, e)
  OBVIOUS
<1>2. /\ Parse[Arr(e)] = Arr(m) /\ m \in Lists /\ Len(m) = Len(e)
      /\ DOMAIN m = DOMAIN e /\ \A n \in DOMAIN e : m[n] = Parse[e[n]]
  BY <1>0, <1>1, ParsedList
<1>3. \A n \in DOMAIN e : Tidy(e[n])
  BY <1>0, TidyIs, PartsAre
<1>4. \A n \in DOMAIN m : KeysOnce(m[n])
  BY <1>0, <1>2, <1>3, ParsedOnce
<1> QED BY <1>1, <1>2, <1>4 DEF RowsAre

(* The value of a field, before and after json.Unmarshal. *)
LEMMA FieldOf ==
  ASSUME ParsingParameters, NEW kv \in FieldLists, Tidy(Obj(kv)), NEW n \in DOMAIN kv
  PROVE  /\ Get(Obj(kv), kv[n].k) = kv[n].v
         /\ Get(Parse[Obj(kv)], kv[n].k) = Parse[kv[n].v]
         /\ Tidy(kv[n].v)
<1>0. Depth \in Nat /\ Obj(kv) \in Values
  BY DEF ParsingParameters, Tidy
<1>1. Once(kv)
  BY <1>0, TidyIs, OnceIs
<1>2. PICK p : p = Fields(Parse, kv)
  OBVIOUS
<1>3. /\ Parse[Obj(kv)] = Obj(p) /\ DOMAIN p = DOMAIN kv /\ Once(p)
      /\ p[n].k = kv[n].k /\ p[n].v = Parse[kv[n].v]
  BY <1>0, <1>1, <1>2, ParsedFields
<1>4. Get(Obj(p), p[n].k) = p[n].v
  BY <1>3, GetIs
<1>5. Get(Obj(kv), kv[n].k) = kv[n].v
  BY <1>1, GetIs
<1>6. Tidy(kv[n].v)
  BY <1>0, TidyIs, PartsAre
<1> QED BY <1>3, <1>4, <1>5, <1>6

(* The array at a path, as the document has it, and as it is parsed. *)
StandsAt(v, keys, e) ==
  /\ e \in Lists /\ Len(e) >= 2 /\ Tidy(Arr(e))
  /\ ArrayAt(Parse[v], keys) = Mapped(Parse, e)

LEMMA AtRoot ==
  ASSUME JSONParameters, NEW v, Tidy(v), NEW keys, RootPath(v, keys)
  PROVE  \E e : v = Arr(e) /\ StandsAt(v, keys, e)
<1>0. v \in Values /\ keys = <<>> /\ IsObjectArray(v)
  BY DEF Tidy, RootPath
<1>1. PICK e \in Lists : v = Arr(e) /\ Len(e) >= 2
  BY <1>0, HitIs
<1>2. Parse[v] = Arr(Mapped(Parse, e))
  BY <1>1, RowsOfList
<1>3. ArrayAt(Parse[v], keys) = Mapped(Parse, e)
  BY <1>0, <1>2, KindsApart DEF ArrayAt
<1> QED BY <1>1, <1>3 DEF StandsAt

LEMMA AtField ==
  ASSUME JSONParameters, NEW kv \in FieldLists, Tidy(Obj(kv)), NEW n, NEW keys, FieldPath(kv, n, keys)
  PROVE  \E e : kv[n].v = Arr(e) /\ StandsAt(Obj(kv), keys, e)
<1>0. PICK k : k = kv[n].k
  OBVIOUS
<1>1. n \in DOMAIN kv /\ IsObjectArray(kv[n].v) /\ keys = <<k>> /\ ParsingParameters
  BY <1>0 DEF FieldPath, HitAt, JSONParameters
<1>2. Tidy(kv[n].v) /\ Get(Parse[Obj(kv)], k) = Parse[kv[n].v]
  BY <1>0, <1>1, FieldOf
<1>3. PICK e \in Lists : kv[n].v = Arr(e) /\ Len(e) >= 2
  BY <1>1, <1>2, HitIs DEF Tidy
<1>4. Parse[kv[n].v] = Arr(Mapped(Parse, e))
  BY <1>2, <1>3, RowsOfList
<1>5. keys # <<>> /\ Len(keys) = 1 /\ keys[1] = k
  BY <1>1
<1>6. ArrayAt(Parse[Obj(kv)], keys) = Get(Parse[Obj(kv)], k).e
  BY <1>5 DEF ArrayAt, Parent
<1>7. ArrayAt(Parse[Obj(kv)], keys) = Mapped(Parse, e)
  BY <1>2, <1>4, <1>6, KindsApart
<1> QED BY <1>2, <1>3, <1>7 DEF StandsAt

LEMMA AtInner ==
  ASSUME JSONParameters, NEW kv \in FieldLists, Tidy(Obj(kv)),
         NEW n, NEW in \in FieldLists, NEW m, NEW keys, InnerPath(kv, n, in, m, keys)
  PROVE  \E e : in[m].v = Arr(e) /\ StandsAt(Obj(kv), keys, e)
<1>0. PICK k, l : k = kv[n].k /\ l = in[m].k
  OBVIOUS
<1>1. /\ n \in DOMAIN kv /\ kv[n].v = Obj(in) /\ m \in DOMAIN in /\ IsObjectArray(in[m].v)
      /\ keys = <<k, l>> /\ ParsingParameters
  BY <1>0 DEF InnerPath, HitAt, JSONParameters
<1>2. Tidy(Obj(in)) /\ Get(Parse[Obj(kv)], k) = Parse[Obj(in)]
  BY <1>0, <1>1, FieldOf
<1>3. Tidy(in[m].v) /\ Get(Parse[Obj(in)], l) = Parse[in[m].v]
  BY <1>0, <1>1, <1>2, FieldOf
<1>4. PICK e \in Lists : in[m].v = Arr(e) /\ Len(e) >= 2
  BY <1>1, <1>3, HitIs DEF Tidy
<1>5. Parse[in[m].v] = Arr(Mapped(Parse, e))
  BY <1>3, <1>4, RowsOfList
<1>6. keys # <<>> /\ Len(keys) = 2 /\ keys[1] = k /\ keys[2] = l
  BY <1>1
<1>7. ArrayAt(Parse[Obj(kv)], keys) = Get(Get(Parse[Obj(kv)], k), l).e
  BY <1>6 DEF ArrayAt, Parent
<1>8. ArrayAt(Parse[Obj(kv)], keys) = Mapped(Parse, e)
  BY <1>2, <1>3, <1>5, <1>7, KindsApart
<1> QED BY <1>3, <1>4, <1>8 DEF StandsAt

LEMMA LedToRows ==
  ASSUME JSONParameters, NEW v, Tidy(v), NEW keys, LeadsTo(v, keys)
  PROVE  RowsAre(ArrayAt(Parse[v], keys))
<1>1. \E e : StandsAt(v, keys, e)
  BY AtRoot, AtField, AtInner DEF LeadsTo
<1>2. PICK e : StandsAt(v, keys, e)
  BY <1>1
<1>3. e \in Lists /\ Len(e) >= 2 /\ Tidy(Arr(e)) /\ ArrayAt(Parse[v], keys) = Mapped(Parse, e)
  BY <1>2 DEF StandsAt
<1> QED BY <1>3, RowsOfList

LEMMA LiftableLeads ==
  ASSUME Depth \in Nat, NEW v \in Values, NEW keys \in FindLiftableArray(v)
  PROVE  LeadsTo(v, keys) /\ LiftIsLossless(v, keys)
<1>1. keys = Candidates(v)[1] /\ Candidates(v) # <<>> /\ LiftIsLossless(v, Candidates(v)[1])
  BY DEF FindLiftableArray
<1> QED BY <1>1, CandidatesLead

(* A table's columns are keys of its first row, each once. *)
LEMMA ColumnsAre ==
  ASSUME Depth \in Nat, NEW rows, RowsAre(rows), IsTable(rows)
  PROVE  /\ Columns(rows) \in Paths
         /\ \A m, n \in DOMAIN Columns(rows) : Columns(rows)[m] = Columns(rows)[n] => m = n
         /\ \A n \in DOMAIN Columns(rows) : Columns(rows)[n] \notin Meta
         /\ \A i \in DOMAIN rows : \E kv \in FieldLists : rows[i] = Obj(kv) /\ Once(kv)
<1>1. rows \in Seq(Values) /\ 1 \in DOMAIN rows /\ \A i \in DOMAIN rows : KeysOnce(rows[i])
  <2>1. PICK len : len = Len(rows)
    OBVIOUS
  <2>2. len \in Nat /\ len >= 2 /\ DOMAIN rows = 1 .. len
    BY <2>1 DEF RowsAre, Lists
  <2> QED BY <2>2 DEF RowsAre, Lists
<1>2. \A i \in DOMAIN rows : rows[i] \in Values
  BY <1>1
<1>3. ASSUME NEW i \in DOMAIN rows  PROVE \E kv \in FieldLists : rows[i] = Obj(kv) /\ Once(kv)
  <2>1. rows[i].t = "obj" /\ rows[i] \in Values /\ KeysOnce(rows[i])
    BY <1>1, <1>2 DEF IsTable
  <2>2. PICK kv \in FieldLists : rows[i] = Obj(kv)
    BY <2>1, ShapeIs
  <2> QED BY <2>1, <2>2, OnceIs
<1>4. PICK kv \in FieldLists : rows[1] = Obj(kv) /\ Once(kv)
  BY <1>1, <1>3
<1>5. PICK T, len : T = Own(rows[1]) /\ len = Len(kv)
  OBVIOUS
<1>6. T = {n \in DOMAIN kv : kv[n].k \notin Meta} /\ rows[1].kv = kv
  BY <1>4, <1>5, KindsApart DEF Own
<1>7. PICK own, cols : own = Pick(kv, T) /\ cols = Columns(rows)
  OBVIOUS
<1>8. cols = [n \in DOMAIN own |-> own[n].k]
  BY <1>5, <1>6, <1>7 DEF Columns
<1>9. own \in FieldLists /\ \E x : Places(x, own, kv, T, len)
  BY <1>5, <1>7, PickPlaces DEF FieldLists
<1>10. PICK x : Places(x, own, kv, T, len)
  BY <1>9
<1>11. DOMAIN own = 1 .. Len(own) /\ Len(own) \in Nat
  BY <1>9 DEF FieldLists
<1>12. ASSUME NEW n \in DOMAIN own
       PROVE  x[n] \in DOMAIN kv /\ cols[n] = kv[x[n]].k /\ cols[n] \in Keys /\ cols[n] \notin Meta
  <2>1. x[n] \in T /\ own[n] = kv[x[n]]
    BY <1>10, <1>11 DEF Places
  <2> QED BY <1>6, <1>8, <2>1, FieldIn
<1>13. ASSUME NEW m \in DOMAIN own, NEW n \in DOMAIN own, cols[m] = cols[n]  PROVE m = n
  <2>1. x[m] = x[n]
    BY <1>4, <1>12, <1>13 DEF Once
  <2> QED BY <1>10, <1>11, <2>1 DEF Places
<1>14. cols \in Paths
  <2>1. \A n \in 1 .. Len(own) : cols[n] \in Keys
    BY <1>11, <1>12
  <2> QED BY <1>8, <1>11, <2>1 DEF Paths
<1>15. DOMAIN cols = DOMAIN own
  BY <1>8
<1> QED BY <1>3, <1>7, <1>12, <1>13, <1>14, <1>15

-----------------------------------------------------------------------------
(* Reading a table. *)
HoistedIn(rows) == {n \in DOMAIN Columns(rows) : Hoistable(rows, Columns(rows)[n])}
ConstantIn(rows) == Pick(Columns(rows), HoistedIn(rows))
VaryingIn(rows) == Pick(Columns(rows), DOMAIN Columns(rows) \ HoistedIn(rows))
Display(x) == IF x = Null THEN Dash ELSE Cell(x)
LongAmong(rows, keys) == {p \in (DOMAIN rows) \X keys : TooLong(Value(rows[p[1]], p[2]))}
LongIn(rows, s) == {p \in (DOMAIN rows) \X (DOMAIN s) : TooLong(Value(rows[p[1]], s[p[2]]))}

ReadFrom(t, i, key) ==
  LET shared == {n \in DOMAIN t.constant : t.constant[n][1] = key}
  IN  IF shared # {} THEN t.constant[CHOOSE n \in shared : TRUE][2]
      ELSE t.cells[i][CHOOSE n \in DOMAIN t.columns : t.columns[n] = key]

Tabulates(t, v, keys, rows) ==
  /\ t.rows = Len(rows) /\ t.label = keys /\ t.envelope = ScalarSiblings(v, keys)
  /\ t.constant = [n \in DOMAIN ConstantIn(rows) |->
                     <<ConstantIn(rows)[n], Cell(Value(rows[1], ConstantIn(rows)[n]))>>]
  /\ t.columns = VaryingIn(rows)
  /\ t.cells = [i \in DOMAIN rows |-> [n \in DOMAIN VaryingIn(rows) |->
                  Display(Value(rows[i], VaryingIn(rows)[n]))]]
  /\ t.truncated = Cardinality(LongIn(rows, VaryingIn(rows)))

LEMMA TableIs ==
  ASSUME NEW v, NEW keys, NEW rows, rows = ArrayAt(Parse[v], keys), NEW t, t = Table(v, keys)
  PROVE  Tabulates(t, v, keys, rows)
<1>1. PICK hoisted, constant, varying :
        hoisted = HoistedIn(rows) /\ constant = ConstantIn(rows) /\ varying = VaryingIn(rows)
  OBVIOUS
<1>2. t = [rows |-> Len(rows), label |-> keys, envelope |-> ScalarSiblings(v, keys),
           constant |-> [n \in DOMAIN constant |-> <<constant[n], Cell(Value(rows[1], constant[n]))>>],
           columns |-> varying,
           cells |-> [i \in DOMAIN rows |-> [n \in DOMAIN varying |-> Display(Value(rows[i], varying[n]))]],
           truncated |-> Cardinality(LongIn(rows, varying))]
  BY <1>1 DEF Table, HoistedIn, ConstantIn, VaryingIn, Display, LongIn
<1> QED BY <1>1, <1>2 DEF Tabulates

(* The hoisted columns and the others, and where they stand among all. *)
Split(cols, H, constant, varying, x, y, len) ==
  /\ Places(x, constant, cols, H, len) /\ Places(y, varying, cols, (DOMAIN cols) \ H, len)
  /\ constant \in Paths /\ varying \in Paths
  /\ len \in Nat /\ DOMAIN cols = 1 .. len
  /\ \A m, n \in 1 .. len : cols[m] = cols[n] => m = n

LEMMA ColumnsSplit ==
  ASSUME Depth \in Nat, NEW rows, RowsAre(rows), IsTable(rows)
  PROVE  \E x, y, len : Split(Columns(rows), HoistedIn(rows), ConstantIn(rows), VaryingIn(rows), x, y, len)
<1>1. PICK cols, H, len : cols = Columns(rows) /\ H = HoistedIn(rows) /\ len = Len(cols)
  OBVIOUS
<1>2. cols \in Seq(Keys) /\ \A m, n \in DOMAIN cols : cols[m] = cols[n] => m = n
  BY <1>1, ColumnsAre DEF Paths
<1>3. len \in Nat /\ DOMAIN cols = 1 .. len
  BY <1>1, <1>2
<1>4. Pick(cols, H) \in Seq(Keys) /\ \E x : Places(x, Pick(cols, H), cols, H, len)
  BY <1>1, <1>2, PickPlaces
<1>5. PICK O : O = (DOMAIN cols) \ H
  OBVIOUS
<1>6. Pick(cols, O) \in Seq(Keys) /\ \E y : Places(y, Pick(cols, O), cols, O, len)
  BY <1>1, <1>2, PickPlaces
<1>7. PICK x : Places(x, ConstantIn(rows), cols, H, len)
  BY <1>1, <1>4 DEF ConstantIn
<1>8. PICK y : Places(y, VaryingIn(rows), cols, O, len)
  BY <1>1, <1>5, <1>6 DEF VaryingIn
<1>9. ConstantIn(rows) \in Paths /\ VaryingIn(rows) \in Paths
  BY <1>1, <1>4, <1>5, <1>6 DEF ConstantIn, VaryingIn, Paths
<1>10. Split(cols, H, ConstantIn(rows), VaryingIn(rows), x, y, len)
  BY <1>2, <1>3, <1>5, <1>7, <1>8, <1>9 DEF Split
<1> QED BY <1>1, <1>10

(* Every entry comes back: the one of a hoisted column from the headline, any *)
(* other from its cell.                                                       *)
LEMMA EntriesReadBack ==
  ASSUME JSONParameters, NEW v, NEW keys, NEW rows, rows = ArrayAt(Parse[v], keys),
         RowsAre(rows), IsTable(rows), NEW t, t = Table(v, keys),
         NEW i \in DOMAIN rows, NEW key \in ColumnSet(rows)
  PROVE  ReadFrom(t, i, key) = Display(Value(rows[i], key))
<1>0. Depth \in Nat
  BY DEF JSONParameters, ParsingParameters
<1>1. PICK cols, H, cs, vs :
        cols = Columns(rows) /\ H = HoistedIn(rows) /\ cs = ConstantIn(rows) /\ vs = VaryingIn(rows)
  OBVIOUS
<1>2. PICK x, y, len : Split(cols, H, cs, vs, x, y, len)
  BY <1>0, <1>1, ColumnsSplit
<1>3. /\ t.constant = [n \in DOMAIN cs |-> <<cs[n], Cell(Value(rows[1], cs[n]))>>]
      /\ t.columns = vs
      /\ t.cells = [j \in DOMAIN rows |-> [n \in DOMAIN vs |-> Display(Value(rows[j], vs[n]))]]
  <2>1. Tabulates(t, v, keys, rows)
    BY TableIs
  <2> QED BY <1>1, <2>1 DEF Tabulates
<1>4. DOMAIN cs = 1 .. Len(cs) /\ DOMAIN vs = 1 .. Len(vs)
  BY <1>2 DEF Split, Paths
<1>5. \A n \in DOMAIN cs : x[n] \in 1 .. len /\ x[n] \in H /\ cs[n] = cols[x[n]]
  BY <1>2, <1>4 DEF Split, Places
<1>6. \A n \in DOMAIN vs : y[n] \in 1 .. len /\ y[n] \notin H /\ vs[n] = cols[y[n]]
  BY <1>2, <1>4 DEF Split, Places
<1>7. PICK c \in 1 .. len : key = cols[c]
  BY <1>1, <1>2 DEF ColumnSet, Split
<1>8. PICK shared : shared = {n \in DOMAIN t.constant : t.constant[n][1] = key}
  OBVIOUS
<1>9. shared = {n \in DOMAIN cs : cs[n] = key}
  BY <1>3, <1>8
<1>10. CASE c \in H
  <2>1. PICK n \in DOMAIN cs : x[n] = c
    BY <1>2, <1>4, <1>10 DEF Split, Places
  <2>2. n \in shared
    BY <1>5, <1>7, <1>9, <2>1
  <2>3. PICK m : m = CHOOSE j \in shared : TRUE
    OBVIOUS
  <2>4. m \in shared
    BY <2>2, <2>3
  <2>5. ReadFrom(t, i, key) = t.constant[m][2]
    BY <1>8, <2>2, <2>3 DEF ReadFrom
  <2>6. t.constant[m][2] = Cell(Value(rows[1], key))
    BY <1>3, <1>9, <2>4
  <2>7. Hoistable(rows, key)
    BY <1>1, <1>7, <1>10 DEF HoistedIn
  <2>8. Value(rows[i], key) # Null /\ Cell(Value(rows[i], key)) = Cell(Value(rows[1], key))
    BY <2>7 DEF Hoistable
  <2> QED BY <2>5, <2>6, <2>8 DEF Display
<1>11. CASE c \notin H
  <2>1. ASSUME NEW n \in shared  PROVE FALSE
    <3>1. n \in DOMAIN cs /\ cs[n] = key
      BY <1>9
    <3>2. x[n] \in 1 .. len /\ x[n] \in H /\ cols[x[n]] = cols[c]
      BY <1>5, <1>7, <3>1
    <3>3. x[n] = c
      BY <1>2, <1>7, <3>2 DEF Split
    <3> QED BY <1>11, <3>2, <3>3
  <2>2. PICK n \in DOMAIN vs : y[n] = c
    <3>1. c \in (DOMAIN cols) \ H
      BY <1>2, <1>7, <1>11 DEF Split
    <3> QED BY <1>2, <1>4, <3>1 DEF Split, Places
  <2>3. vs[n] = key
    BY <1>6, <1>7, <2>2
  <2>4. PICK m : m = CHOOSE j \in DOMAIN vs : vs[j] = key
    OBVIOUS
  <2>5. m \in DOMAIN vs /\ vs[m] = key
    BY <2>3, <2>4
  <2>6. ReadFrom(t, i, key) = t.cells[i][m]
    BY <1>3, <1>8, <2>1, <2>4 DEF ReadFrom
  <2> QED BY <1>3, <2>5, <2>6
<1> QED BY <1>10, <1>11

(* A hoisted value is not clipped, so every clipped one is in a cell. *)
LEMMA ClippedAreCounted ==
  ASSUME JSONParameters, NEW v, NEW keys, NEW rows, rows = ArrayAt(Parse[v], keys),
         RowsAre(rows), IsTable(rows), NEW t, t = Table(v, keys)
  PROVE  t.truncated = Cardinality(LongAmong(rows, ColumnSet(rows)))
<1>0. Depth \in Nat
  BY DEF JSONParameters, ParsingParameters
<1>1. PICK cols, H, cs, vs :
        cols = Columns(rows) /\ H = HoistedIn(rows) /\ cs = ConstantIn(rows) /\ vs = VaryingIn(rows)
  OBVIOUS
<1>2. PICK x, y, len : Split(cols, H, cs, vs, x, y, len)
  BY <1>0, <1>1, ColumnsSplit
<1>3. PICK S, C, T : S = LongIn(rows, vs) /\ C = ColumnSet(rows) /\ T = LongAmong(rows, C)
  OBVIOUS
<1>4a. t.truncated = Cardinality(LongIn(rows, VaryingIn(rows)))
  <2>1. Tabulates(t, v, keys, rows)
    BY TableIs
  <2> QED BY <2>1 DEF Tabulates
<1>4. t.truncated = Cardinality(S)
  BY <1>1, <1>3, <1>4a
<1>5. PICK num, many : num = Len(rows) /\ many = Len(vs)
  OBVIOUS
<1>6. num \in Nat /\ DOMAIN rows = 1 .. num /\ many \in Nat /\ DOMAIN vs = 1 .. many
  BY <1>2, <1>5 DEF RowsAre, Lists, Split, Paths
<1>7. \A n \in 1 .. many : y[n] \in 1 .. len /\ y[n] \notin H /\ vs[n] = cols[y[n]] /\ vs[n] \in C
  <2>1. \A n \in 1 .. many : y[n] \in 1 .. len /\ y[n] \notin H /\ vs[n] = cols[y[n]]
    BY <1>2, <1>5 DEF Split, Places
  <2>2. \A n \in 1 .. len : cols[n] \in C
    BY <1>1, <1>2, <1>3 DEF Split, ColumnSet
  <2> QED BY <2>1, <2>2
<1>8. S = {p \in (1 .. num) \X (1 .. many) : TooLong(Value(rows[p[1]], vs[p[2]]))}
  BY <1>3, <1>6 DEF LongIn
<1>9. T = {p \in (1 .. num) \X C : TooLong(Value(rows[p[1]], p[2]))}
  BY <1>3, <1>6 DEF LongAmong
<1>10. IsFiniteSet(S)
  <2>1. IsFiniteSet(1 .. num) /\ IsFiniteSet(1 .. many)
    BY <1>6, FS_Interval
  <2>2. PICK A, B : A = 1 .. num /\ B = 1 .. many
    OBVIOUS
  <2>3. IsFiniteSet(A \X B)
    BY <2>1, <2>2, FS_Product
  <2>4. S \subseteq A \X B
    BY <1>8, <2>2
  <2> QED BY <2>3, <2>4, FS_Subset
<1>11. PICK f : f = [p \in S |-> <<p[1], vs[p[2]]>>]
  OBVIOUS
<1>12. ASSUME NEW p \in S  PROVE f[p] \in T
  <2>1. p[1] \in 1 .. num /\ p[2] \in 1 .. many /\ TooLong(Value(rows[p[1]], vs[p[2]]))
    BY <1>8
  <2>2. vs[p[2]] \in C
    BY <1>7, <2>1
  <2> QED BY <1>9, <1>11, <2>1, <2>2
<1>13. ASSUME NEW p \in S, NEW q \in S, f[p] = f[q]  PROVE p = q
  <2>1. p \in (1 .. num) \X (1 .. many) /\ q \in (1 .. num) \X (1 .. many)
    BY <1>8
  <2>2. p[1] = q[1] /\ vs[p[2]] = vs[q[2]]
    BY <1>11, <1>13
  <2>3. y[p[2]] = y[q[2]]
    BY <1>2, <1>7, <2>1, <2>2 DEF Split
  <2>4. p[2] = q[2]
    BY <1>2, <1>5, <2>1, <2>3 DEF Split, Places
  <2> QED BY <2>1, <2>2, <2>4
<1>14. ASSUME NEW q \in T  PROVE \E p \in S : f[p] = q
  <2>1. q \in (1 .. num) \X C /\ TooLong(Value(rows[q[1]], q[2]))
    BY <1>9
  <2>2. PICK i, key : q = <<i, key>> /\ i \in 1 .. num /\ key \in C
    BY <2>1
  <2>3. TooLong(Value(rows[i], key))
    BY <2>1, <2>2
  <2>4. PICK c \in 1 .. len : key = cols[c]
    BY <1>1, <1>2, <1>3, <2>2 DEF ColumnSet, Split
  <2>5. c \notin H
    <3>1. SUFFICES ASSUME Hoistable(rows, key)  PROVE FALSE
      BY <1>1, <2>4 DEF HoistedIn
    <3>2. ~TooLong(Value(rows[i], key))
      BY <1>6, <2>2, <3>1 DEF Hoistable
    <3> QED BY <2>3, <3>2
  <2>6. PICK n \in 1 .. many : y[n] = c
    <3>1. c \in (DOMAIN cols) \ H
      BY <1>2, <2>4, <2>5 DEF Split
    <3> QED BY <1>2, <1>5, <3>1 DEF Split, Places
  <2>7. vs[n] = key
    BY <1>7, <2>4, <2>6
  <2>8. <<i, n>> \in S
    BY <1>8, <2>2, <2>3, <2>7
  <2>9. f[<<i, n>>] = q
    BY <1>11, <2>2, <2>7, <2>8
  <2> QED BY <2>8, <2>9
<1>15. ExistsBijection(S, T)
  <2>1. f \in [S -> T] /\ DOMAIN f = S
    BY <1>11, <1>12
  <2>2. f \in Injection(S, T)
    BY <1>13, <2>1 DEF Injection, IsInjective
  <2>3. f \in Surjection(S, T)
    BY <1>14, <2>1 DEF Surjection
  <2> QED BY <2>2, <2>3 DEF ExistsBijection, Bijection
<1>16. Cardinality(S) = Cardinality(T)
  BY <1>10, <1>15, FS_Bijection
<1> QED BY <1>3, <1>4, <1>16

-----------------------------------------------------------------------------
(* What the invariants rest on: how a document was distilled.  Without it a  *)
(* result says nothing of the document it came from.                         *)
EndsAs(d, r) ==
  \/ r = Untouched
  \/ r = [by |-> "gate", value |-> Null] /\ ~CanDistillJSON(d)
  \/ \E keys \in Liftable(d) : r = [by |-> "table", value |-> Table(d, keys)]
  \/ r = [by |-> "pruned", value |-> PruneValue[Parse[d]]]

JSONIInv == doc \in Docs /\ EndsAs(doc, distilled) /\ (phase = "scan" => distilled = Untouched)

LEMMA JSONParametersHold == JSONParameters /\ Depth \in Nat /\ \A d \in Docs : Tidy(d)
BY JSONAssumption DEF JSONParameters, ParsingParameters, Tidy

LEMMA JSONInitIInv == JSONInit => JSONIInv
BY DEF JSONInit, JSONIInv, EndsAs

LEMMA JSONNextIInv == JSONIInv /\ [JSONNext]_jsonVars => JSONIInv'
<1> SUFFICES ASSUME JSONIInv, [JSONNext]_jsonVars  PROVE JSONIInv'
  OBVIOUS
<1>0. doc \in Docs /\ EndsAs(doc, distilled) /\ (phase = "scan" => distilled = Untouched)
  BY DEF JSONIInv
<1>1. doc' = doc
  BY DEF JSONNext, jsonVars, Unfit, Scan, Lift, NoTable, Prune, NotPruned, JSONOver
<1>2. CASE distilled' = distilled /\ (phase' = phase \/ phase' # "scan")
  BY <1>0, <1>1, <1>2 DEF JSONIInv
<1>3. CASE Scan
  <2>1. CASE gate /\ ~CanDistillJSON(doc)
    <3>1. phase' = "done" /\ distilled' = [by |-> "gate", value |-> Null]
      BY <1>0, <1>3, <2>1 DEF Scan, Untouched
    <3>2. EndsAs(doc, distilled')
      BY <2>1, <3>1 DEF EndsAs
    <3> QED BY <1>0, <1>1, <3>1, <3>2 DEF JSONIInv
  <2>2. CASE ~(gate /\ ~CanDistillJSON(doc))
    <3>1. distilled' = distilled /\ phase' # "scan"
      BY <1>3, <2>2 DEF Scan
    <3> QED BY <1>2, <3>1
  <2> QED BY <2>1, <2>2
<1>4. CASE Lift
  <2>1. PICK keys \in Liftable(doc) :
          phase' = "done" /\ distilled' = [by |-> "table", value |-> Table(doc, keys)]
    BY <1>4 DEF Lift
  <2>2. EndsAs(doc, distilled')
    BY <2>1 DEF EndsAs
  <2> QED BY <1>0, <1>1, <2>1, <2>2 DEF JSONIInv
<1>5. CASE Prune
  <2>1. phase' = "done" /\ distilled' = [by |-> "pruned", value |-> PruneValue[Parse[doc]]]
    BY <1>5 DEF Prune
  <2>2. EndsAs(doc, distilled')
    BY <2>1 DEF EndsAs
  <2> QED BY <1>0, <1>1, <2>1, <2>2 DEF JSONIInv
<1>6. CASE Unfit \/ NoTable \/ NotPruned \/ JSONOver \/ UNCHANGED jsonVars
  <2>1. distilled' = distilled /\ (phase' = phase \/ phase' # "scan")
    BY <1>6 DEF Unfit, NoTable, NotPruned, JSONOver, jsonVars
  <2> QED BY <1>2, <2>1
<1> QED BY <1>3, <1>4, <1>5, <1>6 DEF JSONNext

LEMMA JSONInvariance == JSONSpec => []JSONIInv
<1> QED BY JSONInitIInv, JSONNextIInv, PTL DEF JSONSpec

(* The pre-scan costs no table and no pruning: whatever the byte scan turns  *)
(* away, both transforms leave as it is (json_tabular.go:33-34).             *)
THEOREM TheGateIsNeutral == JSONSpec => []GateIsNeutral
<1>1. JSONIInv => GateIsNeutral
  <2> SUFFICES ASSUME JSONIInv, distilled.by = "gate"
               PROVE  Liftable(doc) = {} /\ ~PruneChanges(Parse[doc])
    BY DEF GateIsNeutral
  <2>1. ~CanDistillJSON(doc) /\ doc \in Docs
    BY DEF JSONIInv, EndsAs, Untouched
  <2>2. doc \in Values /\ JSONParameters
    BY <2>1, JSONParametersHold DEF Tidy
  <2>3. Liftable(doc) = {}
    BY <2>1 DEF CanDistillJSON, Liftable
  <2>4. AsPruned(doc)
    BY <2>1, <2>2, NothingToPrune DEF CanDistillJSON, JSONParameters
  <2> QED BY <2>3, <2>4 DEF AsPruned, PruneChanges
<1> QED BY <1>1, JSONInvariance, PTL

(* Pruning removes no scalar outside metadata and changes none but by        *)
(* float64, and pruned twice is pruned once (json_tabular.go:79-118).        *)
THEOREM PruningKeepsData == JSONSpec => []PruneKeepsData
<1>1. JSONIInv => PruneKeepsData
  <2> SUFFICES ASSUME JSONIInv, distilled.by = "pruned"
               PROVE  /\ Leaves[distilled.value] = Leaves[Parse[doc]]
                      /\ ~PruneChanges(distilled.value)
    BY DEF PruneKeepsData
  <2>1. distilled.value = PruneValue[Parse[doc]] /\ doc \in Docs
    BY DEF JSONIInv, EndsAs, Untouched
  <2>2. Depth \in Nat /\ Parse[doc] \in Values
    BY <2>1, JSONParametersHold, ParseKeeps DEF JSONParameters, ParsingParameters, Tidy, Sends
  <2> QED BY <2>1, <2>2, PruningKeepsLeaves, PruningOnce DEF PruneChanges
<1> QED BY <1>1, JSONInvariance, PTL

(* Whatever was lifted, the table is the one of a path that leads to rows. *)
LEMMA LiftedIs ==
  ASSUME JSONIInv, Lifted
  PROVE  \E keys : /\ distilled.value = Table(doc, keys) /\ distilled.value.label = keys
                   /\ LeadsTo(doc, keys) /\ LiftIsLossless(doc, keys)
                   /\ Rows = ArrayAt(Parse[doc], keys) /\ RowsAre(Rows) /\ IsTable(Rows)
<1>1. PICK keys \in Liftable(doc) : distilled = [by |-> "table", value |-> Table(doc, keys)]
  BY DEF JSONIInv, EndsAs, Untouched, Lifted
<1>2. distilled.value = Table(doc, keys) /\ distilled.value.label = keys
  BY <1>1 DEF Table
<1>3. Tidy(doc) /\ JSONParameters /\ Depth \in Nat
  BY JSONParametersHold DEF JSONIInv
<1>4. LeadsTo(doc, keys) /\ LiftIsLossless(doc, keys)
  BY <1>1, <1>3, LiftableLeads DEF Liftable, Tidy
<1>5. Rows = ArrayAt(Parse[doc], keys)
  BY <1>2 DEF Rows
<1>6. RowsAre(Rows)
  BY <1>3, <1>4, <1>5, LedToRows
<1>7. IsTable(Rows)
  BY <1>1, <1>5 DEF Liftable
<1> QED BY <1>2, <1>4, <1>5, <1>6, <1>7

(* What the table says of a row is true of it, also after a value has been   *)
(* hoisted, and every clipped cell is counted (json_tabular.go:159-242).     *)
THEOREM TablesReadBack == JSONSpec => []TableReadsBack
<1>1. JSONIInv => TableReadsBack
  <2> SUFFICES ASSUME JSONIInv, Lifted
               PROVE  /\ distilled.value.rows = Len(Rows)
                      /\ \A i \in DOMAIN Rows : \A key \in ColumnSet(Rows) :
                           LET v == Value(Rows[i], key)
                           IN  Read(i, key) = IF v = Null THEN Dash ELSE Cell(v)
                      /\ distilled.value.truncated =
                           Cardinality({p \in (DOMAIN Rows) \X ColumnSet(Rows) :
                                          TooLong(Value(Rows[p[1]], p[2]))})
    BY DEF TableReadsBack
  <2>1. PICK keys : /\ distilled.value = Table(doc, keys)
                    /\ Rows = ArrayAt(Parse[doc], keys) /\ RowsAre(Rows) /\ IsTable(Rows)
    BY LiftedIs
  <2>2. PICK t, rows : t = distilled.value /\ rows = Rows
    OBVIOUS
  <2>3. t = Table(doc, keys) /\ rows = ArrayAt(Parse[doc], keys) /\ RowsAre(rows) /\ IsTable(rows)
    BY <2>1, <2>2
  <2>4. t.rows = Len(rows)
    <3>1. Tabulates(t, doc, keys, rows)
      BY <2>3, TableIs
    <3> QED BY <3>1 DEF Tabulates
  <2>5. ASSUME NEW i \in DOMAIN rows, NEW key \in ColumnSet(rows)
        PROVE  Read(i, key) = Display(Value(rows[i], key))
    <3>1. ReadFrom(t, i, key) = Display(Value(rows[i], key))
      BY <2>3, JSONParametersHold, EntriesReadBack
    <3>2. Read(i, key) = ReadFrom(t, i, key)
      BY <2>2 DEF Read, ReadFrom
    <3> QED BY <3>1, <3>2
  <2>6. t.truncated = Cardinality(LongAmong(rows, ColumnSet(rows)))
    BY <2>3, JSONParametersHold, ClippedAreCounted
  <2> QED BY <2>2, <2>4, <2>5, <2>6 DEF Display, LongAmong
<1> QED BY <1>1, JSONInvariance, PTL

-----------------------------------------------------------------------------
(* What a lift leaves out. *)
(* What stands at some places, and nothing at the others. *)
PiecesAt(b, G, s, T) == b = [n \in DOMAIN s |-> IF n \in T THEN G[s[n]] ELSE <<>>]
PicksAs(G, s, T, b) == Flatten(Mapped(G, Pick(s, T))) = Flatten(b)

LEMMA PickedPieces ==
  ASSUME NEW S, NEW s \in Seq(S), NEW T, NEW X, NEW G, Sends(G, S, Seq(X)),
         NEW b, PiecesAt(b, G, s, T)
  PROVE  Pieces(b, X, Len(s)) /\ PicksAs(G, s, T, b)
<1>1. b = [n \in DOMAIN s |-> IF n \in T THEN G[s[n]] ELSE <<>>]
  BY DEF PiecesAt
<1>2. b \in Seq(Seq(X)) /\ PicksAs(G, s, T, b)
  BY <1>1, FlattenPick DEF PicksAs
<1>3. PICK len : len = Len(s)
  OBVIOUS
<1>4. len \in Nat /\ DOMAIN s = 1 .. len
  BY <1>3
<1>5. DOMAIN b = 1 .. len
  BY <1>1, <1>4
<1>6. Len(b) = len
  BY <1>2, <1>4, <1>5
<1> QED BY <1>2, <1>3, <1>6 DEF Pieces

LEMMA PickedIsValue ==
  ASSUME Depth \in Nat, NEW kv \in FieldLists, Obj(kv) \in Values, NEW T
  PROVE  Obj(Pick(kv, T)) \in Values /\ Pick(kv, T) \in FieldLists
<1>1. Depth \in 0 .. Depth
  OBVIOUS
<1>2. PICK I : I = Inside(Depth)
  OBVIOUS
<1>3. (Values = Level(I) \/ Values = Atoms) /\ Values \subseteq Level(I)
  BY <1>1, <1>2, LevelsGrow DEF Values
<1>4. Obj(kv) \notin Atoms
  BY KindsApart DEF Atoms
<1>5. Values = Level(I) /\ Made(Obj(kv), I)
  BY <1>3, <1>4, LevelIs
<1>6. kv \in Seq(FieldsOver(I))
  <2>1. Obj(kv) # Null /\ (\A s : Obj(kv) # Scalar(s)) /\ \A e : Obj(kv) # Arr(e)
    <3>1. Obj(kv).t = "obj"
      BY KindsApart
    <3>2. \A s : Scalar(s).t = "scalar"
      BY KindsApart
    <3>3. \A e : Arr(e).t = "arr"
      BY KindsApart
    <3>4. Null.t = "null"
      BY KindsApart
    <3> QED BY <3>1, <3>2, <3>3, <3>4
  <2>2. PICK kw \in Seq(FieldsOver(I)) : Obj(kv) = Obj(kw)
    BY <1>5, <2>1 DEF Made
  <2>3. kv = kw
    BY <2>2, KindsApart
  <2> QED BY <2>2, <2>3
<1>7. PICK p : p = Pick(kv, T)
  OBVIOUS
<1>8. p \in Seq(FieldsOver(I))
  BY <1>6, <1>7, PickPlaces
<1>9. Made(Obj(p), I)
  BY <1>8 DEF Made
<1>10. Obj(p) \in Values
  BY <1>5, <1>9, LevelIs
<1>11. p \in FieldLists
  BY <1>7, PickPlaces DEF FieldLists
<1> QED BY <1>7, <1>10, <1>11

LEMMA ObjLeaves ==
  ASSUME Depth \in Nat, NEW kv \in FieldLists, Obj(kv) \in Values
  PROVE  Leaves[Obj(kv)] = Flatten(Mapped(FieldPiece, kv))
<1>1. Leaves[Obj(kv)] = LeavesOf(Leaves, Obj(kv))
  BY LeavesIsStep
<1>2. LeavesOf(Leaves, Obj(kv)) = Flatten(InFields(Leaves, kv))
  BY LeavesOfIs
<1>3. InFields(Leaves, kv) = Mapped(FieldPiece, kv)
  BY PiecesAre DEF FieldLists
<1> QED BY <1>1, <1>2, <1>3

Divides(l, p, q) == p \in LeafLists /\ q \in LeafLists /\ Len(l) = Len(p) + Len(q)

(* The fields under some keys, and the others, tell together what all tell. *)
LEMMA LeavesSplit ==
  ASSUME Depth \in Nat, NEW kv \in FieldLists, Obj(kv) \in Values,
         NEW T, NEW O, O = (DOMAIN kv) \ T
  PROVE  Divides(Leaves[Obj(kv)], Leaves[Obj(Pick(kv, T))], Leaves[Obj(Pick(kv, O))])
<1>1. PICK p, q : p = Pick(kv, T) /\ q = Pick(kv, O)
  OBVIOUS
<1>2. Obj(p) \in Values /\ p \in FieldLists /\ Obj(q) \in Values /\ q \in FieldLists
  BY <1>1, PickedIsValue
<1>3. /\ Leaves[Obj(kv)] = Flatten(Mapped(FieldPiece, kv))
      /\ Leaves[Obj(p)] = Flatten(Mapped(FieldPiece, p))
      /\ Leaves[Obj(q)] = Flatten(Mapped(FieldPiece, q))
  BY <1>2, ObjLeaves
<1>4. PICK FS : FS = FieldsOver(Values)
  OBVIOUS
<1>5. kv \in Seq(FS) /\ Sends(FieldPiece, FS, Seq(LeafSet))
  BY <1>4, PiecesAre DEF FieldLists, LeafLists
<1>6. PICK a, b, m : /\ a = [n \in DOMAIN kv |-> IF n \in T THEN FieldPiece[kv[n]] ELSE <<>>]
                     /\ b = [n \in DOMAIN kv |-> IF n \in O THEN FieldPiece[kv[n]] ELSE <<>>]
                     /\ m = Mapped(FieldPiece, kv)
  OBVIOUS
<1>6a. PiecesAt(a, FieldPiece, kv, T) /\ PiecesAt(b, FieldPiece, kv, O)
  BY <1>6 DEF PiecesAt
<1>7. Pieces(a, LeafSet, Len(kv)) /\ PicksAs(FieldPiece, kv, T, a)
  BY <1>5, <1>6a, PickedPieces
<1>8. Pieces(b, LeafSet, Len(kv)) /\ PicksAs(FieldPiece, kv, O, b)
  BY <1>5, <1>6a, PickedPieces
<1>9. PICK len : len = Len(kv)
  OBVIOUS
<1>10. len \in Nat /\ DOMAIN kv = 1 .. len
  BY <1>5, <1>9
<1>11. m \in Seq(LeafLists) /\ Len(m) = len
  BY <1>5, <1>6, <1>9, MappedIs DEF LeafLists
<1>12. Pieces(a, LeafSet, len) /\ Pieces(b, LeafSet, len) /\ Pieces(m, LeafSet, len)
  BY <1>7, <1>8, <1>9, <1>11 DEF Pieces, LeafLists
<1>13. ASSUME NEW n \in 1 .. len  PROVE Len(m[n]) = Len(a[n]) + Len(b[n])
  <2>1. PICK x : x = FieldPiece[kv[n]]
    OBVIOUS
  <2>2. m[n] = x
    BY <1>6, <1>10, <2>1 DEF Mapped
  <2>3. Len(x) \in Nat
    <3>1. x \in LeafLists
      BY <1>4, <1>5, <1>10, <2>1 DEF Sends, LeafLists
    <3> QED BY <3>1 DEF LeafLists
  <2>4. Len(<<>>) = 0
    OBVIOUS
  <2>5. (a[n] = x /\ b[n] = <<>>) \/ (a[n] = <<>> /\ b[n] = x)
    BY <1>6, <1>10, <2>1
  <2>5a. PICK y, z, w : y = Len(a[n]) /\ z = Len(b[n]) /\ w = Len(x)
    OBVIOUS
  <2>6. (y = w /\ z = 0) \/ (y = 0 /\ z = w)
    BY <2>4, <2>5, <2>5a
  <2>6a. w \in Nat
    BY <2>3, <2>5a
  <2>7. w = y + z
    BY ONLY <2>6, <2>6a
  <2> QED BY <2>2, <2>5a, <2>7
<1>14. AddUp(m, a, b, len)
  BY <1>13 DEF AddUp
<1>15. SumsTo(m, a, b)
  BY <1>12, <1>14, FlattenSplit
<1>16. Leaves[Obj(p)] = Flatten(a) /\ Leaves[Obj(q)] = Flatten(b) /\ Leaves[Obj(kv)] = Flatten(m)
  BY <1>1, <1>3, <1>6, <1>7, <1>8 DEF PicksAs
<1>17. Leaves[Obj(p)] \in LeafLists /\ Leaves[Obj(q)] \in LeafLists
  BY <1>2, LeavesKeep DEF Sends
<1>18. Len(Leaves[Obj(kv)]) = Len(Leaves[Obj(p)]) + Len(Leaves[Obj(q)])
  BY <1>15, <1>16 DEF SumsTo
<1> QED BY <1>1, <1>17, <1>18 DEF Divides

ColumnsOf(rows, row) == {n \in DOMAIN row.kv : row.kv[n].k \in ColumnSet(rows)}
RestOf(rows, row) == {n \in DOMAIN row.kv : row.kv[n].k \notin ColumnSet(rows)}
SharedOf(rows) == [i \in DOMAIN rows |-> Leaves[Obj(Pick(rows[i].kv, ColumnsOf(rows, rows[i])))]]
LateOf(rows) == [i \in DOMAIN rows |-> Leaves[Obj(Pick(rows[i].kv, RestOf(rows, rows[i])))]]

LEMMA RowsSplit ==
  ASSUME JSONParameters, NEW rows, RowsAre(rows), IsTable(rows), Arr(rows) \in Values
  PROVE  /\ Len(Leaves[Arr(rows)]) = Len(Flatten(SharedOf(rows))) + Len(Flatten(LateOf(rows)))
         /\ Len(Flatten(SharedOf(rows))) \in Nat /\ Len(Flatten(LateOf(rows))) \in Nat
<1>0. Depth \in Nat
  BY DEF JSONParameters, ParsingParameters
<1>1. PICK a, b, m, len : /\ a = SharedOf(rows) /\ b = LateOf(rows) /\ m = InElements(Leaves, rows)
                          /\ len = Len(rows)
  OBVIOUS
<1>2. rows \in Seq(Values) /\ len \in Nat /\ DOMAIN rows = 1 .. len
  BY <1>1 DEF RowsAre, Lists
<1>3. Leaves[Arr(rows)] = Flatten(m)
  <2>1. Leaves[Arr(rows)] = LeavesOf(Leaves, Arr(rows))
    BY <1>0, LeavesIsStep
  <2> QED BY <1>1, <2>1, LeavesOfIs
<1>4. \A x \in Values : Leaves[x] \in LeafLists
  BY <1>0, LeavesKeep DEF Sends
<1>5. m \in Seq(LeafLists) /\ Len(m) = len
  BY <1>1, <1>2, <1>4, InElementsAre
<1>6. ASSUME NEW i \in 1 .. len
      PROVE  /\ a[i] \in LeafLists /\ b[i] \in LeafLists
             /\ Len(m[i]) = Len(a[i]) + Len(b[i])
  <2>1. PICK kv \in FieldLists : rows[i] = Obj(kv)
    BY <1>0, <1>2, ColumnsAre
  <2>2. rows[i] \in Values /\ rows[i].kv = kv
    BY <1>2, <2>1, KindsApart
  <2>3. PICK T, O : T = ColumnsOf(rows, rows[i]) /\ O = RestOf(rows, rows[i])
    OBVIOUS
  <2>4. O = (DOMAIN kv) \ T
    BY <2>2, <2>3 DEF ColumnsOf, RestOf
  <2>5. a[i] = Leaves[Obj(Pick(kv, T))] /\ b[i] = Leaves[Obj(Pick(kv, O))]
    BY <1>1, <1>2, <2>2, <2>3 DEF SharedOf, LateOf
  <2>6. /\ Len(Leaves[Obj(kv)]) = Len(a[i]) + Len(b[i])
        /\ a[i] \in LeafLists /\ b[i] \in LeafLists
    <3>1. Obj(kv) \in Values
      BY <2>1, <2>2
    <3>2. Divides(Leaves[Obj(kv)], Leaves[Obj(Pick(kv, T))], Leaves[Obj(Pick(kv, O))])
      BY <1>0, <2>4, <3>1, LeavesSplit
    <3>3. Divides(Leaves[Obj(kv)], a[i], b[i])
      BY <2>5, <3>2
    <3> QED BY <3>3 DEF Divides
  <2>7. m[i] = Under("[]", Leaves[Obj(kv)])
    BY <1>1, <1>2, <2>1 DEF InElements
  <2>8. Len(m[i]) = Len(Leaves[Obj(kv)])
    BY <1>4, <2>1, <2>2, <2>7, ListsAre, UnderIs
  <2> QED BY <2>6, <2>8
<1>7. a \in Seq(LeafLists) /\ Len(a) = len
  <2>1. DOMAIN a = 1 .. len /\ a = [i \in DOMAIN a |-> a[i]]
    BY <1>1, <1>2 DEF SharedOf
  <2>2. a = [i \in 1 .. len |-> a[i]]
    BY <2>1
  <2>3. \A i \in 1 .. len : a[i] \in LeafLists
    BY <1>6
  <2> QED BY <1>2, <2>2, <2>3
<1>8. b \in Seq(LeafLists) /\ Len(b) = len
  <2>1. DOMAIN b = 1 .. len /\ b = [i \in DOMAIN b |-> b[i]]
    BY <1>1, <1>2 DEF LateOf
  <2>2. b = [i \in 1 .. len |-> b[i]]
    BY <2>1
  <2>3. \A i \in 1 .. len : b[i] \in LeafLists
    BY <1>6
  <2> QED BY <1>2, <2>2, <2>3
<1>9. SumsTo(m, a, b)
  <2>1. Pieces(m, LeafSet, len) /\ Pieces(a, LeafSet, len) /\ Pieces(b, LeafSet, len)
    BY <1>5, <1>7, <1>8 DEF Pieces, LeafLists
  <2>2. AddUp(m, a, b, len)
    BY <1>6 DEF AddUp
  <2> QED BY <2>1, <2>2, FlattenSplit
<1>10. Flatten(a) \in LeafLists /\ Flatten(b) \in LeafLists
  BY <1>7, <1>8, FlattenTyped DEF LeafLists
<1> QED BY <1>1, <1>3, <1>9, <1>10 DEF LeafLists, SumsTo

(* What an object says: its scalars, and what the array's field says, if all *)
(* else is worthless and that field is no metadata.                          *)
Told(v) == Len(Leaves[Parse[v]])

LEMMA SiblingsTell ==
  ASSUME JSONParameters, NEW kv \in FieldLists, Tidy(Obj(kv)), NEW n \in DOMAIN kv,
         NEW key, key = kv[n].k, NEW budget, SiblingsAccountedFor(Obj(kv), key, budget)
  PROVE  /\ Len(Scalars(Obj(kv), key)) \in Nat /\ Told(kv[n].v) \in Nat
         /\ Told(Obj(kv)) = Len(Scalars(Obj(kv), key)) + IF key \in Meta THEN 0 ELSE Told(kv[n].v)
<1>0. ParsingParameters /\ Depth \in Nat /\ Obj(kv) \in Values
  BY DEF JSONParameters, ParsingParameters, Tidy
<1>1. PICK p, len : p = Fields(Parse, kv) /\ len = Len(kv)
  OBVIOUS
<1>2. /\ Parse[Obj(kv)] = Obj(p) /\ p \in FieldLists /\ DOMAIN p = DOMAIN kv
      /\ \A j \in DOMAIN kv : p[j].k = kv[j].k /\ p[j].v = Parse[kv[j].v]
  BY <1>0, <1>1, ParsedFields
<1>3. Sends(Parse, Values, Values) /\ Sends(Leaves, Values, LeafLists)
  BY <1>0, ParseKeeps, LeavesKeep DEF ParsingParameters
<1>4. Once(kv)
  BY <1>0, TidyIs, OnceIs
<1>5. len \in Nat /\ DOMAIN kv = 1 .. len
  BY <1>1 DEF FieldLists
<1>6. Leaves[Parse[Obj(kv)]] = Flatten(Mapped(FieldPiece, p))
  BY <1>0, <1>2, <1>3, ObjLeaves DEF Sends
<1>7. PICK T, m : T = {j \in Beside(Obj(kv), key) : kv[j].v.t = "scalar"} /\ m = Mapped(FieldPiece, p)
  OBVIOUS
<1>8. PICK c, d : /\ c = [j \in DOMAIN kv |-> IF j \in T THEN <<kv[j]>> ELSE <<>>]
                  /\ d = [j \in DOMAIN kv |-> IF j = n THEN m[n] ELSE <<>>]
  OBVIOUS
<1>9. Scalars(Obj(kv), key) = Flatten(c)
  BY <1>7, <1>8, KindsApart DEF Scalars, Pick
<1>10. m \in Seq(LeafLists) /\ Len(m) = len
  <2>1. Sends(FieldPiece, FieldsOver(Values), LeafLists)
    BY <1>0, PiecesAre
  <2>2. p \in Seq(FieldsOver(Values)) /\ Len(p) = len
    BY <1>2, <1>5 DEF FieldLists
  <2> QED BY <1>7, <2>1, <2>2, MappedIs
<1>11. ASSUME NEW j \in 1 .. len
       PROVE  /\ kv[j].k \in Steps /\ Leaves[Parse[kv[j].v]] \in LeafLists
              /\ m[j] = IF kv[j].k \in Meta THEN <<>> ELSE Under(kv[j].k, Leaves[Parse[kv[j].v]])
  <2>1. kv[j].k \in Keys /\ kv[j].v \in Values /\ kv[j] \in FieldsOver(Values)
    BY <1>5, FieldIn
  <2>2. p[j] \in FieldsOver(Values)
    BY <1>2, <1>5, FieldIn
  <2>3. m[j] = FieldPiece[p[j]]
    BY <1>2, <1>5, <1>7 DEF Mapped
  <2>4. FieldPiece[p[j]] = IF p[j].k \in Meta THEN <<>> ELSE Under(p[j].k, Leaves[p[j].v])
    BY <2>2 DEF FieldPiece
  <2>5. Leaves[Parse[kv[j].v]] \in LeafLists
    BY <1>3, <2>1 DEF Sends
  <2> QED BY <1>2, <1>5, <2>1, <2>3, <2>4, <2>5, ListsAre
<1>12. ASSUME NEW j \in 1 .. len
       PROVE  Len(m[j]) = IF kv[j].k \in Meta THEN 0 ELSE Told(kv[j].v)
  <2>1. kv[j].k \notin Meta => Len(m[j]) = Len(Leaves[Parse[kv[j].v]])
    BY <1>11, UnderIs
  <2>2. kv[j].k \in Meta => m[j] = <<>>
    BY <1>11
  <2> QED BY <2>1, <2>2 DEF Told
<1>13. ASSUME NEW j \in Beside(Obj(kv), key)
       PROVE  /\ j \in 1 .. len /\ j # n /\ kv[j].k \notin Meta
              /\ Told(kv[j].v) = IF j \in T THEN 1 ELSE 0
  <2>1. j \in 1 .. len /\ kv[j].k # key /\ kv[j].k \notin Meta
    BY <1>5, KindsApart DEF Beside
  <2>2. PICK v : v = kv[j].v
    OBVIOUS
  <2>3. v \in Values /\ Parse[v] = ParseOf(Parse, v) /\ Parse[v] \in Values
    BY <1>0, <1>3, <1>5, <2>1, <2>2, FieldIn, ParseIsStep DEF Sends
  <2>4. Leaves[Parse[v]] = LeavesOf(Leaves, Parse[v])
    BY <1>0, <2>3, LeavesIsStep
  <2>5. v.t \in {"scalar", "null"} \/ IsEmpty(v)
    BY <2>2, KindsApart DEF SiblingsAccountedFor
  <2>6. Made(v, Values)
    BY <1>0, <2>3, ValueShape
  <2>7. ASSUME NEW s \in DOMAIN Float, v = Scalar(s)  PROVE j \in T /\ Told(v) = 1
    <3>1. PICK r : r = Float[s]
      OBVIOUS
    <3>2. Parse[v] = Scalar(r)
      BY <2>3, <2>7, <3>1, ParseOfIs
    <3>3. Leaves[Parse[v]] = <<[at |-> <<>>, s |-> r]>>
      BY <2>4, <3>2, LeavesOfIs
    <3>4. j \in T
      BY <1>7, <2>2, <2>7, KindsApart
    <3> QED BY <3>3, <3>4 DEF Told
  <2>8. ASSUME v = Null \/ IsEmpty(v)  PROVE j \notin T /\ Told(v) = 0
    <3>1. v.t # "scalar"
      BY <2>8, KindsApart DEF IsEmpty
    <3>2. Parse[v] = v
      <4>1. CASE v = Null
        BY <2>3, <4>1, ParseOfIs
      <4>2. CASE v = Arr(<<>>)
        <5>1. Mapped(Parse, <<>>) = <<>>
          BY DEF Mapped
        <5>2. ParseOf(Parse, Arr(<<>>)) = Arr(Mapped(Parse, <<>>))
          BY ParseOfIs
        <5> QED BY <2>3, <4>2, <5>1, <5>2
      <4>3. CASE v = Obj(<<>>)
        <5>1. Fields(Parse, <<>>) = <<>>
          BY DEF Fields
        <5>2. ParseOf(Parse, Obj(<<>>)) = Obj(Fields(Parse, <<>>))
          BY ParseOfIs
        <5> QED BY <2>3, <4>3, <5>1, <5>2
      <4> QED BY <2>8, <4>1, <4>2, <4>3 DEF IsEmpty
    <3>3. Leaves[Parse[v]] = <<>>
      BY <1>0, <2>3, <2>8, <3>2, NoLeaves
    <3>4. j \notin T
      BY <1>7, <2>2, <3>1
    <3> QED BY <3>3, <3>4 DEF Told
  <2>9. (\E s \in DOMAIN Float : v = Scalar(s)) \/ v = Null \/ IsEmpty(v)
    <3>1. \A e : v = Arr(e) => v.t = "arr"
      BY KindsApart
    <3>2. \A w : v = Obj(w) => v.t = "obj"
      BY KindsApart
    <3> QED BY <2>5, <2>6, <3>1, <3>2 DEF Made
  <2>10. Told(v) = IF j \in T THEN 1 ELSE 0
    BY <2>7, <2>8, <2>9
  <2>11. j # n
    BY <2>1
  <2> QED BY <2>1, <2>2, <2>10, <2>11
<1>14. ASSUME NEW j \in 1 .. len  PROVE Len(m[j]) = Len(c[j]) + Len(d[j])
  <2>1. c[j] = IF j \in T THEN <<kv[j]>> ELSE <<>>
    BY <1>5, <1>8
  <2>2. d[j] = IF j = n THEN m[n] ELSE <<>>
    BY <1>5, <1>8
  <2>3. Len(c[j]) = IF j \in T THEN 1 ELSE 0
    BY <2>1
  <2>4. Len(d[j]) = IF j = n THEN Len(m[n]) ELSE 0
    BY <2>2
  <2>5. Len(m[n]) \in Nat
    <3>1. m[n] \in LeafLists
      BY <1>5, <1>10
    <3> QED BY <3>1 DEF LeafLists
  <2>6. CASE j = n
    <3>1. j \notin T
      BY <1>7, <1>13, <2>6
    <3> QED BY <2>3, <2>4, <2>5, <2>6, <3>1
  <2>7. CASE j # n
    <3>1. kv[j].k # key
      BY <1>4, <1>5, <2>7 DEF Once
    <3>2. CASE kv[j].k \in Meta
      <4>1. j \notin T
        BY <1>7, <1>13, <3>2
      <4>2. Len(m[j]) = 0
        BY <1>12, <3>2
      <4> QED BY <2>3, <2>4, <2>7, <4>1, <4>2
    <3>3. CASE kv[j].k \notin Meta
      <4>1. j \in Beside(Obj(kv), key)
        BY <1>5, <3>1, <3>3, KindsApart DEF Beside
      <4>2. Len(m[j]) = IF j \in T THEN 1 ELSE 0
        BY <1>12, <1>13, <3>3, <4>1
      <4> QED BY <2>3, <2>4, <2>7, <4>2
    <3> QED BY <3>2, <3>3
  <2> QED BY <2>6, <2>7
<1>15. PICK FS : FS = FieldsOver(Values)
  OBVIOUS
<1>16. c \in Seq(Seq(FS)) /\ Len(c) = len
  <2>1. \A j \in 1 .. len : kv[j] \in FS
    BY <1>5, <1>15, FieldIn
  <2> DEFINE Wordings == Seq(FS)
  <2>2. ASSUME NEW j \in 1 .. len  PROVE c[j] \in Wordings
    <3>1. PICK x : x = kv[j]
      OBVIOUS
    <3>2. x \in FS
      BY <2>1, <3>1
    <3>3. c[j] = IF j \in T THEN <<x>> ELSE <<>>
      BY <1>5, <1>8, <3>1
    <3> QED BY <3>2, <3>3
  <2>3. c = [j \in 1 .. len |-> c[j]]
    BY <1>5, <1>8
  <2> HIDE DEF Wordings
  <2>4. c \in Seq(Wordings) /\ Len(c) = len
    BY <1>5, <2>2, <2>3
  <2> QED BY <2>4 DEF Wordings
<1>17. d \in Seq(LeafLists) /\ Len(d) = len
  <2>1. m[n] \in LeafLists
    BY <1>5, <1>10
  <2>2. \A j \in 1 .. len : d[j] \in LeafLists
    BY <1>5, <1>8, <2>1, ListsAre
  <2> QED BY <1>5, <1>8, <2>2
<1>18. SumsTo(m, c, d)
  <2>1. Pieces(m, LeafSet, len) /\ Pieces(c, FS, len) /\ Pieces(d, LeafSet, len)
    BY <1>10, <1>16, <1>17 DEF Pieces, LeafLists
  <2>2. AddUp(m, c, d, len)
    BY <1>14 DEF AddUp
  <2> QED BY <2>1, <2>2, FlattenSplit
<1>19. Len(Flatten(d)) = Len(m[n])
  <2>1. \A j \in 1 .. len : j # n => Len(d[j]) = 0
    BY <1>5, <1>8
  <2>2. d[n] = m[n] /\ n \in 1 .. len
    BY <1>5, <1>8
  <2>3. Len(Flatten(d)) = Len(d[n])
    BY <1>17, <2>1, <2>2, FlattenAlone DEF LeafLists
  <2> QED BY <2>2, <2>3
<1>20. Len(m[n]) = IF key \in Meta THEN 0 ELSE Told(kv[n].v)
  BY <1>5, <1>12
<1>21. Told(Obj(kv)) = Len(Scalars(Obj(kv), key)) + IF key \in Meta THEN 0 ELSE Told(kv[n].v)
  BY <1>6, <1>7, <1>9, <1>18, <1>19, <1>20 DEF Told, SumsTo
<1>22. Len(Scalars(Obj(kv), key)) \in Nat
  <2>1. PICK fl : fl = Flatten(c)
    OBVIOUS
  <2>2. fl \in Seq(FS)
    BY <1>16, <2>1, FlattenTyped
  <2> QED BY <1>9, <2>1, <2>2
<1>23. Told(kv[n].v) \in Nat
  BY <1>5, <1>11 DEF Told, LeafLists
<1> QED BY <1>21, <1>22, <1>23

-----------------------------------------------------------------------------
(* A lift tells what the document tells. *)
LEMMA HeadlineIs ==
  ASSUME JSONParameters, Budget \in Nat, NEW v, NEW keys, keys # <<>>,
         NEW len, len = Len(Scalars(Parent(v, keys), keys[Len(keys)])), len \in Nat, len <= Budget
  PROVE  Len(ScalarSiblings(v, keys)) = len
<1>1. PICK all, h : all = Scalars(Parent(v, keys), keys[Len(keys)]) /\ h = ScalarSiblings(v, keys)
  OBVIOUS
<1>2. h = [n \in 1 .. IF Len(all) < Budget THEN Len(all) ELSE Budget |->
             <<all[n].k, IF TooLong(all[n].v) THEN Clipped ELSE <<all[n].v.s>>>>]
  BY <1>1 DEF ScalarSiblings
<1>3. (IF Len(all) < Budget THEN Len(all) ELSE Budget) = len
  BY <1>1
<1>4. DOMAIN h = 1 .. len /\ h = [n \in DOMAIN h |-> h[n]]
  BY <1>2, <1>3
<1> DEFINE X == {h[n] : n \in 1 .. len}
<1>5. \A n \in 1 .. len : h[n] \in X
  OBVIOUS
<1> HIDE DEF X
<1>6. h = [n \in 1 .. len |-> h[n]]
  BY <1>4
<1>7. h \in Seq(X) /\ Len(h) = len
  BY <1>5, <1>6
<1> QED BY <1>1, <1>7

LEMMA NoHeadline == ASSUME NEW v  PROVE Len(ScalarSiblings(v, <<>>)) = 0
BY DEF ScalarSiblings

Columned(rows) == Len(Flatten(SharedOf(rows)))
Uncolumned(rows) == Len(Flatten(LateOf(rows)))

LEMMA RowsTell ==
  ASSUME JSONParameters, NEW v, NEW keys, NEW e, StandsAt(v, keys, e),
         NEW rows, rows = ArrayAt(Parse[v], keys), IsTable(rows)
  PROVE  /\ Told(Arr(e)) = Columned(rows) + Uncolumned(rows)
         /\ Columned(rows) \in Nat /\ Uncolumned(rows) \in Nat
<1>1. e \in Lists /\ Len(e) >= 2 /\ Tidy(Arr(e)) /\ rows = Mapped(Parse, e)
  BY DEF StandsAt
<1>2. Parse[Arr(e)] = Arr(rows) /\ RowsAre(rows)
  BY <1>1, RowsOfList
<1>3. Arr(e) \in Values /\ ParsingParameters
  BY <1>1 DEF Tidy, JSONParameters
<1>4. Arr(rows) \in Values
  BY <1>2, <1>3, ParseKeeps DEF Sends, ParsingParameters
<1>5. /\ Len(Leaves[Arr(rows)]) = Len(Flatten(SharedOf(rows))) + Len(Flatten(LateOf(rows)))
      /\ Len(Flatten(SharedOf(rows))) \in Nat /\ Len(Flatten(LateOf(rows))) \in Nat
  BY <1>2, <1>4, RowsSplit
<1> QED BY <1>2, <1>5 DEF Told, Columned, Uncolumned

InMeta(keys) == \E n \in DOMAIN keys : keys[n] \in Meta

(* The document's scalars are those of the headline, the columns, and the    *)
(* keys without a column.                                                    *)
Accounts(v, keys, rows) ==
  LET given == Len(ScalarSiblings(v, keys)) + Columned(rows) + Uncolumned(rows)
  IN  IF InMeta(keys) THEN Told(v) <= given ELSE Told(v) = given

LEMMA RootAccounts ==
  ASSUME JSONParameters, NEW v, Tidy(v), NEW keys, RootPath(v, keys),
         NEW rows, rows = ArrayAt(Parse[v], keys), IsTable(rows)
  PROVE  Accounts(v, keys, rows)
<1>1. PICK e : v = Arr(e) /\ StandsAt(v, keys, e)
  BY AtRoot
<1>2. PICK t, c, m, h : /\ t = Told(v) /\ c = Columned(rows) /\ m = Uncolumned(rows)
                        /\ h = Len(ScalarSiblings(v, keys))
  OBVIOUS
<1>3. t = c + m /\ c \in Nat /\ m \in Nat
  BY <1>1, <1>2, RowsTell
<1>4. keys = <<>>
  BY DEF RootPath
<1>5. h = 0 /\ ~InMeta(keys)
  BY <1>2, <1>4, NoHeadline DEF InMeta
<1>6. t = h + c + m
  BY <1>3, <1>5
<1> QED BY <1>2, <1>5, <1>6 DEF Accounts

LEMMA FieldAccounts ==
  ASSUME JSONParameters, Budget \in Nat, NEW kv \in FieldLists, Tidy(Obj(kv)), NEW n, NEW keys,
         FieldPath(kv, n, keys), LiftIsLossless(Obj(kv), keys),
         NEW rows, rows = ArrayAt(Parse[Obj(kv)], keys), IsTable(rows)
  PROVE  Accounts(Obj(kv), keys, rows)
<1>1. PICK e : kv[n].v = Arr(e) /\ StandsAt(Obj(kv), keys, e)
  BY AtField
<1>2. PICK k, v, s : k = kv[n].k /\ v = Obj(kv) /\ s = Scalars(v, k)
  OBVIOUS
<1>3. PICK t, c, m, h : /\ t = Told(v) /\ c = Columned(rows) /\ m = Uncolumned(rows)
                        /\ h = Len(ScalarSiblings(v, keys))
  OBVIOUS
<1>4. n \in DOMAIN kv /\ keys = <<k>>
  BY <1>2 DEF FieldPath, HitAt
<1>5. keys # <<>> /\ Len(keys) = 1 /\ keys[1] = k
  BY <1>4
<1>6. SiblingsAccountedFor(v, k, Budget)
  BY <1>2, <1>5 DEF LiftIsLossless
<1>7. Told(kv[n].v) = c + m /\ c \in Nat /\ m \in Nat
  BY <1>1, <1>2, <1>3, RowsTell
<1>8. PICK l, w : l = Len(s) /\ w = Told(kv[n].v)
  OBVIOUS
<1>9. l \in Nat /\ t = l + IF k \in Meta THEN 0 ELSE w
  BY <1>2, <1>3, <1>4, <1>6, <1>8, SiblingsTell
<1>10. l <= Budget
  BY <1>2, <1>6, <1>8 DEF SiblingsAccountedFor
<1>11. h = l
  <2>1. l = Len(Scalars(Parent(v, keys), keys[Len(keys)]))
    BY <1>2, <1>5, <1>8 DEF Parent
  <2> QED BY <1>3, <1>5, <1>9, <1>10, <2>1, HeadlineIs
<1>12. InMeta(keys) <=> k \in Meta
  BY <1>4, <1>5 DEF InMeta
<1>13. IF k \in Meta THEN t <= h + c + m ELSE t = h + c + m
  BY <1>7, <1>8, <1>9, <1>11
<1> QED BY <1>2, <1>3, <1>12, <1>13 DEF Accounts

LEMMA InnerAccounts ==
  ASSUME JSONParameters, Budget \in Nat, NEW kv \in FieldLists, Tidy(Obj(kv)),
         NEW n, NEW in \in FieldLists, NEW i, NEW keys,
         InnerPath(kv, n, in, i, keys), LiftIsLossless(Obj(kv), keys),
         NEW rows, rows = ArrayAt(Parse[Obj(kv)], keys), IsTable(rows)
  PROVE  Accounts(Obj(kv), keys, rows)
<1>1. PICK e : in[i].v = Arr(e) /\ StandsAt(Obj(kv), keys, e)
  BY AtInner
<1>2. PICK k, l, v, x : k = kv[n].k /\ l = in[i].k /\ v = Obj(kv) /\ x = Obj(in)
  OBVIOUS
<1>3. PICK t, c, m, h : /\ t = Told(v) /\ c = Columned(rows) /\ m = Uncolumned(rows)
                        /\ h = Len(ScalarSiblings(v, keys))
  OBVIOUS
<1>4. /\ n \in DOMAIN kv /\ kv[n].v = x /\ i \in DOMAIN in /\ keys = <<k, l>>
      /\ ParsingParameters
  BY <1>2 DEF InnerPath, HitAt, JSONParameters
<1>5. keys # <<>> /\ Len(keys) = 2 /\ keys[1] = k /\ keys[2] = l
  BY <1>4
<1>6. Get(v, k) = x /\ Tidy(x)
  BY <1>2, <1>4, FieldOf
<1>7. SiblingsAccountedFor(v, k, 0) /\ SiblingsAccountedFor(x, l, Budget)
  BY <1>2, <1>5, <1>6 DEF LiftIsLossless
<1>8. Told(in[i].v) = c + m /\ c \in Nat /\ m \in Nat
  BY <1>1, <1>2, <1>3, RowsTell
<1>9. PICK o, p, w, u : o = Len(Scalars(v, k)) /\ p = Len(Scalars(x, l)) /\ w = Told(in[i].v) /\ u = Told(x)
  OBVIOUS
<1>10. o \in Nat /\ u \in Nat /\ t = o + IF k \in Meta THEN 0 ELSE u
  BY <1>2, <1>3, <1>4, <1>7, <1>9, SiblingsTell
<1>11. p \in Nat /\ u = p + IF l \in Meta THEN 0 ELSE w
  BY <1>2, <1>4, <1>6, <1>7, <1>9, SiblingsTell
<1>12. o <= 0 /\ p <= Budget
  BY <1>7, <1>9 DEF SiblingsAccountedFor
<1>13. h = p
  <2>1. p = Len(Scalars(Parent(v, keys), keys[Len(keys)]))
    BY <1>5, <1>6, <1>9 DEF Parent
  <2> QED BY <1>3, <1>5, <1>11, <1>12, <2>1, HeadlineIs
<1>14. InMeta(keys) <=> k \in Meta \/ l \in Meta
  <2>1. DOMAIN keys = {1, 2}
    BY <1>4
  <2> QED BY <1>5, <2>1 DEF InMeta
<1>15. IF k \in Meta \/ l \in Meta THEN t <= h + c + m ELSE t = h + c + m
  BY <1>8, <1>9, <1>10, <1>11, <1>12, <1>13
<1> QED BY <1>2, <1>3, <1>14, <1>15 DEF Accounts

LEMMA LiftAccounts ==
  ASSUME JSONParameters, Budget \in Nat, NEW v, Tidy(v), NEW keys, LeadsTo(v, keys),
         LiftIsLossless(v, keys), NEW rows, rows = ArrayAt(Parse[v], keys), IsTable(rows)
  PROVE  Accounts(v, keys, rows)
<1>1. CASE RootPath(v, keys)
  BY <1>1, RootAccounts
<1>2. ASSUME NEW kv \in FieldLists, v = Obj(kv), NEW n, FieldPath(kv, n, keys)
      PROVE  Accounts(v, keys, rows)
  BY <1>2, FieldAccounts
<1>3. ASSUME NEW kv \in FieldLists, v = Obj(kv), NEW in \in FieldLists, NEW n, NEW m,
             InnerPath(kv, n, in, m, keys)
      PROVE  Accounts(v, keys, rows)
  BY <1>3, InnerAccounts
<1> QED BY <1>1, <1>2, <1>3 DEF LeadsTo

(* A lift drops nothing but the values of keys the first row does not have;  *)
(* from under a metadata key it tells more than pruning would keep           *)
(* (json_prescan.go:93-117).                                                 *)
THEOREM LiftsLoseOnlyLateColumns == JSONSpec => []LiftLosesOnlyLateColumns
<1>1. JSONIInv => LiftLosesOnlyLateColumns
  <2> SUFFICES ASSUME JSONIInv, Lifted  PROVE LiftLosesOnlyLateColumns
    BY DEF LiftLosesOnlyLateColumns
  <2>1. PICK keys : /\ distilled.value = Table(doc, keys) /\ distilled.value.label = keys
                    /\ LeadsTo(doc, keys) /\ LiftIsLossless(doc, keys)
                    /\ Rows = ArrayAt(Parse[doc], keys) /\ RowsAre(Rows) /\ IsTable(Rows)
    BY LiftedIs
  <2>2. JSONParameters /\ Budget \in Nat /\ Tidy(doc)
    BY JSONParametersHold, JSONAssumption DEF JSONIInv
  <2>3. Accounts(doc, keys, Rows)
    BY <2>1, <2>2, LiftAccounts
  <2>4. distilled.value.envelope = ScalarSiblings(doc, keys)
    BY <2>1 DEF Table
  <2>5. SharedOf(Rows) = [i \in DOMAIN Rows |-> Leaves[Shared(Rows[i])]]
    BY DEF SharedOf, Shared, ColumnsOf
  <2>6. LateOf(Rows) = [i \in DOMAIN Rows |-> Leaves[Late(Rows[i])]]
    BY DEF LateOf, Late, RestOf
  <2> DEFINE meta == \E n \in DOMAIN distilled.value.label : distilled.value.label[n] \in Meta
             seen == Len(distilled.value.envelope)
                     + Len(Flatten([i \in DOMAIN Rows |-> Leaves[Shared(Rows[i])]]))
             late == Len(Flatten([i \in DOMAIN Rows |-> Leaves[Late(Rows[i])]]))
  <2>7. meta <=> InMeta(keys)
    BY <2>1 DEF InMeta
  <2>8. seen = Len(ScalarSiblings(doc, keys)) + Columned(Rows) /\ late = Uncolumned(Rows)
    BY <2>4, <2>5, <2>6 DEF Columned, Uncolumned
  <2> HIDE DEF meta, seen, late
  <2>9. IF meta THEN Told(doc) <= seen + late ELSE Told(doc) = seen + late
    BY <2>3, <2>7, <2>8 DEF Accounts
  <2> QED BY <2>9 DEF meta, seen, late, Told, LiftLosesOnlyLateColumns
<1> QED BY <1>1, JSONInvariance, PTL

(* Numbers that float64 and its printing give back as they were spelled. *)
Exact(v) == \A x \in Within[v] : x.t = "scalar" => Float[x.s] = x.s

LEMMA ExactParts ==
  ASSUME Depth \in Nat, NEW v \in Values, Exact(v)
  PROVE  /\ v.t = "scalar" => Float[v.s] = v.s
         /\ \A x \in Parts(v) : Exact(x)
<1>1. Within[v] = WithinOf(Within, v)
  BY WithinIsStep
<1>2. v \in Within[v] /\ \A x \in Parts(v) : Within[x] \subseteq Within[v]
  BY <1>1 DEF WithinOf
<1> QED BY <1>2 DEF Exact

(* A document of such numbers is what json.Unmarshal makes of it. *)
LEMMA ExactIsParsed ==
  ASSUME ParsingParameters, NEW v \in Values, Exact(v)
  PROVE  Parse[v] = v
<1> DEFINE P == {w \in Values : Exact(w) => Parse[w] = w}
<1>0. Depth \in Nat
  BY DEF ParsingParameters
<1>1. ASSUME NEW w \in Values, Parts(w) \subseteq P, Exact(w)  PROVE Parse[w] = w
  <2>1. /\ w.t = "scalar" => Float[w.s] = w.s
        /\ \A x \in Parts(w) : Parse[x] = x
    BY <1>0, <1>1, ExactParts
  <2>2. Made(w, Values) /\ Parse[w] = ParseOf(Parse, w)
    BY <1>0, ValueShape, ParseIsStep
  <2>3. CASE w = Null
    BY <2>2, <2>3, ParseOfIs
  <2>4. ASSUME NEW s \in DOMAIN Float, w = Scalar(s)  PROVE Parse[w] = w
    <3>1. Float[s] = s
      BY <2>1, <2>4, KindsApart
    <3> QED BY <2>2, <2>4, <3>1, ParseOfIs
  <2>5. ASSUME NEW e \in Seq(Values), w = Arr(e)  PROVE Parse[w] = w
    <3>1. \A n \in DOMAIN e : Parse[e[n]] = e[n]
      BY <2>1, <2>5, PartsAre
    <3>2. Mapped(Parse, e) = e
      BY <3>1, SameMapped
    <3> QED BY <2>2, <2>5, <3>2, ParseOfIs
  <2>6. ASSUME NEW kv \in Seq(FieldsOver(Values)), w = Obj(kv)  PROVE Parse[w] = w
    <3>1. \A n \in DOMAIN kv : Parse[kv[n].v] = kv[n].v
      BY <2>1, <2>6, PartsAre
    <3>2. Fields(Parse, kv) = kv
      BY <3>1, SameFields
    <3> QED BY <2>2, <2>6, <3>2, ParseOfIs
  <2> QED BY <2>2, <2>3, <2>4, <2>5, <2>6 DEF Made
<1>2. \A w \in Values : Parts(w) \subseteq P => w \in P
  BY <1>1
<1>3. Values \subseteq P
  <2> HIDE DEF P
  <2> QED BY <1>0, <1>2, PartInduction
<1> QED BY <1>3

(* The condition under which numbers come back as spelled: none of them is   *)
(* one that float64 rounds or Go prints otherwise (json_tabular.go:37-47).   *)
THEOREM ExactNumbersAreKept == JSONSpec => [](Exact(doc) => NumbersKept)
<1>1. JSONIInv => (Exact(doc) => NumbersKept)
  <2> SUFFICES ASSUME JSONIInv, Exact(doc), distilled.by = "pruned"
               PROVE  Leaves[distilled.value] = Leaves[doc]
    BY DEF NumbersKept
  <2>1. distilled.value = PruneValue[Parse[doc]] /\ doc \in Docs
    BY DEF JSONIInv, EndsAs, Untouched
  <2>2. ParsingParameters /\ Depth \in Nat /\ doc \in Values
    BY <2>1, JSONParametersHold DEF JSONParameters, ParsingParameters, Tidy
  <2>3. Parse[doc] = doc
    BY <2>2, ExactIsParsed
  <2> QED BY <2>1, <2>2, <2>3, PruningKeepsLeaves
<1> QED BY <1>1, JSONInvariance, PTL
=============================================================================
