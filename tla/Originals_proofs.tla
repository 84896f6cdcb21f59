-------------------------- MODULE Originals_proofs --------------------------
(* What TLAPS proves of Originals, for every set of texts, any number of     *)
(* processes and any number of failed writes.                                *)
EXTENDS Originals, FiniteSetTheorems, TLAPS

Typed ==
  /\ mem \in [Procs -> SUBSET Refs]
  /\ lines \in Seq(Refs \cup {Junk, TooLong})
  /\ tail \in Refs \cup {Junk, TooLong, Empty}
  /\ pc \in [Procs -> {"down", "up", "writing"}]
  /\ arg \in [Procs -> Refs \cup {Empty}]
  /\ acked \in SUBSET Refs
  /\ faults \in 0 .. MaxFaults
  /\ \A p \in Procs : pc[p] = "writing" => arg[p] \in Refs

(* What a process takes for stored: its map, but for a record it is writing. *)
Kept(p) == mem[p] \ (IF pc[p] = "writing" THEN {arg[p]} ELSE {})

(* What any process takes for stored, or some Put has accepted. *)
Claimed == acked \cup UNION {Kept(p) : p \in Procs}
Lost == Claimed \ Loadable

(* What the next append destroys, glued to the tail: its own record, and the *)
(* one the tail is.                                                          *)
AtStake == IF tail \in Refs THEN 2 ELSE IF tail = Junk THEN 1 ELSE 0

(* Of each fault's two records one may be lost only later, by a write that   *)
(* itself succeeds: the bound counts what is at stake.                       *)
Bounded ==
  Opens => /\ IsFiniteSet(Lost)
           /\ Cardinality(Lost) + AtStake <= 2 * faults

IInv == Typed /\ Bounded

LEMMA AddsOne ==
  ASSUME NEW S, IsFiniteSet(S), NEW a, NEW T, T \subseteq S \cup {a}
  PROVE  IsFiniteSet(T) /\ Cardinality(T) \in Nat /\ Cardinality(T) <= Cardinality(S) + 1
<1>1. /\ IsFiniteSet(S \cup {a})
      /\ Cardinality(S \cup {a}) = IF a \in S THEN Cardinality(S) ELSE Cardinality(S) + 1
  BY FS_AddElement
<1>2. IsFiniteSet(T) /\ Cardinality(T) <= Cardinality(S \cup {a})
  BY <1>1, FS_Subset
<1>3. Cardinality(S) \in Nat /\ Cardinality(T) \in Nat /\ Cardinality(S \cup {a}) \in Nat
  BY <1>1, <1>2, FS_CardinalityType
<1> QED BY <1>1, <1>2, <1>3

LEMMA AddsTwo ==
  ASSUME NEW S, IsFiniteSet(S), NEW a, NEW b, NEW T, T \subseteq S \cup {a, b}
  PROVE  IsFiniteSet(T) /\ Cardinality(T) \in Nat /\ Cardinality(T) <= Cardinality(S) + 2
<1>1. PICK U : U = S \cup {a}
  OBVIOUS
<1>2. IsFiniteSet(U) /\ Cardinality(U) \in Nat /\ Cardinality(U) <= Cardinality(S) + 1
  BY <1>1, AddsOne
<1>3. IsFiniteSet(T) /\ Cardinality(T) \in Nat /\ Cardinality(T) <= Cardinality(U) + 1
  <2>1. T \subseteq U \cup {b}
    BY <1>1
  <2> QED BY <1>2, <2>1, AddsOne
<1>4. Cardinality(S) \in Nat
  BY FS_CardinalityType
<1> QED BY <1>2, <1>3, <1>4

(* A step that leaves the file alone and loses nothing of what is claimed.   *)
LEMMA NothingLost ==
  ASSUME Typed, Bounded, Lost' \subseteq Lost, UNCHANGED <<lines, tail, faults>>
  PROVE  Bounded'
<1>1. (Opens' <=> Opens) /\ AtStake' = AtStake /\ faults' = faults
  BY DEF Opens, AtStake
<1> SUFFICES ASSUME Opens
             PROVE  IsFiniteSet(Lost') /\ Cardinality(Lost') + AtStake <= 2 * faults
  BY <1>1 DEF Bounded
<1>2. IsFiniteSet(Lost) /\ Cardinality(Lost) + AtStake <= 2 * faults
  BY DEF Bounded
<1>3. IsFiniteSet(Lost') /\ Cardinality(Lost') <= Cardinality(Lost)
  BY <1>2, FS_Subset
<1>4. Cardinality(Lost') \in Nat /\ Cardinality(Lost) \in Nat /\ AtStake \in Nat
  BY <1>2, <1>3, FS_CardinalityType DEF AtStake
<1>5. faults \in Nat
  BY FaultsAssumption DEF Typed
<1> QED BY <1>2, <1>3, <1>4, <1>5

LEMMA LossOfClaims ==
  ASSUME Typed, Bounded, Claimed' \subseteq Claimed, UNCHANGED <<lines, tail, faults>>
  PROVE  Bounded'
<1>1. Loadable' = Loadable
  BY DEF Loadable
<1>2. Lost' \subseteq Lost
  BY <1>1 DEF Lost
<1> QED BY <1>2, NothingLost

(* The terminated lines after an append, and what a scan finds then. *)
LEMMA AppendScans ==
  ASSUME Typed, NEW p \in Procs, AppendRecord(p), Opens'
  PROVE  /\ Opens
         /\ Line(p) # TooLong /\ tail # TooLong
         /\ Loadable' = (({lines[i] : i \in DOMAIN lines} \cup {Line(p)}) \cap Refs)
         /\ AtStake' = 0
<1>1. PICK line : line = Line(p)
  OBVIOUS
<1>2. lines \in Seq(Refs \cup {Junk, TooLong}) /\ lines' = Append(lines, line) /\ tail' = Empty
  BY <1>1 DEF Typed, AppendRecord
<1>3. /\ Len(lines) \in Nat /\ DOMAIN lines = 1 .. Len(lines)
      /\ DOMAIN lines' = 1 .. Len(lines) + 1
      /\ \A i \in DOMAIN lines : lines'[i] = lines[i] /\ i \in DOMAIN lines'
      /\ lines'[Len(lines) + 1] = line
  <2>1. Len(lines) \in Nat /\ DOMAIN lines = 1 .. Len(lines)
    BY <1>2
  <2>2. Len(lines') = Len(lines) + 1 /\ DOMAIN lines' = 1 .. Len(lines')
    BY <1>2, <2>1
  <2>3. lines'[Len(lines) + 1] = line /\ \A i \in 1 .. Len(lines) : lines'[i] = lines[i]
    BY <1>2, <2>1
  <2> QED BY <2>1, <2>2, <2>3
<1>4. {lines'[i] : i \in DOMAIN lines'} = {lines[i] : i \in DOMAIN lines} \cup {line}
  <2>1. \A i \in DOMAIN lines' : i \in DOMAIN lines \/ i = Len(lines) + 1
    BY <1>3
  <2>2. Len(lines) + 1 \in DOMAIN lines'
    BY <1>3
  <2> QED BY <1>3, <2>1, <2>2
<1>5. Empty \notin Refs /\ Empty # Junk
  BY JunkAssumption
<1>6. Loadable' = (({lines[i] : i \in DOMAIN lines} \cup {line}) \cap Refs) /\ AtStake' = 0
  BY <1>2, <1>4, <1>5 DEF Loadable, AtStake
<1>7. line # TooLong /\ \A i \in DOMAIN lines : lines[i] # TooLong
  BY <1>3 DEF Opens
<1>8. tail # TooLong
  BY <1>1, <1>7, JunkAssumption DEF Line
<1> QED BY <1>1, <1>6, <1>7, <1>8 DEF Opens

(* An append costs what was at stake. *)
LEMMA AppendCosts ==
  ASSUME Typed, Bounded, NEW p \in Procs, pc[p] = "writing", AppendRecord(p),
         Claimed' \subseteq Claimed \cup {arg[p]}, UNCHANGED faults
  PROVE  Bounded'
<1> SUFFICES ASSUME Opens'
             PROVE  IsFiniteSet(Lost') /\ Cardinality(Lost') + AtStake' <= 2 * faults
  BY DEF Bounded
<1>1. PICK r : r = arg[p] /\ r \in Refs
  BY DEF Typed
<1>2. PICK line : line = Line(p)
  OBVIOUS
<1>3. /\ Opens /\ line # TooLong /\ tail # TooLong /\ AtStake' = 0
      /\ Loadable' = (({lines[i] : i \in DOMAIN lines} \cup {line}) \cap Refs)
  BY <1>2, AppendScans
<1>4. line = IF tail = Empty THEN r ELSE Junk
  BY <1>1, <1>2, <1>3 DEF Line
<1>5. IsFiniteSet(Lost) /\ Cardinality(Lost) + AtStake <= 2 * faults /\ faults \in Nat
  BY <1>3, FaultsAssumption DEF Bounded, Typed
<1>6. Cardinality(Lost) \in Nat
  BY <1>5, FS_CardinalityType
<1>7. Junk \notin Refs /\ Empty \notin Refs
  BY JunkAssumption
<1>8. CASE tail = Empty
  <2>1. Lost' \subseteq Lost
    BY <1>1, <1>3, <1>4, <1>7, <1>8 DEF Lost, Loadable
  <2>2. IsFiniteSet(Lost') /\ Cardinality(Lost') <= Cardinality(Lost) /\ Cardinality(Lost') \in Nat
    BY <1>5, <2>1, FS_Subset, FS_CardinalityType
  <2> QED BY <1>3, <1>5, <1>6, <2>2 DEF AtStake
<1>9. CASE tail = Junk
  <2>1. Lost' \subseteq Lost \cup {r}
    BY <1>1, <1>3, <1>7, <1>9 DEF Lost, Loadable
  <2>2. AtStake = 1
    BY <1>7, <1>9 DEF AtStake
  <2>3. /\ IsFiniteSet(Lost') /\ Cardinality(Lost') \in Nat
        /\ Cardinality(Lost') <= Cardinality(Lost) + 1
    BY <1>5, <2>1, AddsOne
  <2> QED BY <1>3, <1>5, <1>6, <2>2, <2>3
<1>10. CASE tail \in Refs
  <2>1. Lost' \subseteq Lost \cup {r, tail}
    BY <1>1, <1>3 DEF Lost, Loadable
  <2>2. AtStake = 2
    BY <1>10 DEF AtStake
  <2>3. /\ IsFiniteSet(Lost') /\ Cardinality(Lost') \in Nat
        /\ Cardinality(Lost') <= Cardinality(Lost) + 2
    BY <1>5, <2>1, AddsTwo
  <2> QED BY <1>3, <1>5, <1>6, <2>2, <2>3
<1> QED BY <1>3, <1>8, <1>9, <1>10 DEF Typed

(* A torn write costs its own record and stakes another one, or stakes both. *)
LEMMA TornCosts ==
  ASSUME Typed, Bounded, NEW p \in Procs, Torn(p), Claimed' \subseteq Claimed \cup {arg[p]}
  PROVE  Bounded'
<1> SUFFICES ASSUME Opens'
             PROVE  IsFiniteSet(Lost') /\ Cardinality(Lost') + AtStake' <= 2 * faults'
  BY DEF Bounded
<1>1. PICK r : r = arg[p] /\ r \in Refs
  BY DEF Torn, Typed
<1>2. tail' \in TornTail(p) /\ UNCHANGED lines /\ faults' = faults + 1 /\ faults \in Nat
  BY FaultsAssumption DEF Torn, Typed
<1>3. Opens /\ tail # TooLong /\ tail' # TooLong
  BY <1>2 DEF Opens, TornTail
<1>4. tail' = tail \/ tail' = Junk \/ (tail = Empty /\ tail' = r)
  BY <1>1, <1>2, <1>3 DEF TornTail, Line
<1>5. IsFiniteSet(Lost) /\ Cardinality(Lost) + AtStake <= 2 * faults
  BY <1>3 DEF Bounded
<1>6. Cardinality(Lost) \in Nat
  BY <1>5, FS_CardinalityType
<1>7. Junk \notin Refs /\ Empty \notin Refs /\ Empty # Junk
  BY JunkAssumption
<1>8. CASE tail' = tail
  <2>1. Lost' \subseteq Lost \cup {r} /\ AtStake' = AtStake
    BY <1>1, <1>2, <1>8 DEF Lost, Loadable, AtStake
  <2>2. /\ IsFiniteSet(Lost') /\ Cardinality(Lost') \in Nat
        /\ Cardinality(Lost') <= Cardinality(Lost) + 1
    BY <1>5, <2>1, AddsOne
  <2>3. AtStake \in Nat
    BY DEF AtStake
  <2> QED BY <1>2, <1>5, <1>6, <2>1, <2>2, <2>3
<1>9. CASE tail' = Junk
  <2>1. AtStake' = 1
    BY <1>7, <1>9 DEF AtStake
  <2>2. CASE tail \in Refs
    <3>1. Lost' \subseteq Lost \cup {r, tail}
      BY <1>1, <1>2 DEF Lost, Loadable
    <3>2. AtStake = 2
      BY <2>2 DEF AtStake
    <3>3. /\ IsFiniteSet(Lost') /\ Cardinality(Lost') \in Nat
          /\ Cardinality(Lost') <= Cardinality(Lost) + 2
      BY <1>5, <3>1, AddsTwo
    <3> QED BY <1>2, <1>5, <1>6, <2>1, <3>2, <3>3
  <2>3. CASE tail \notin Refs
    <3>1. Lost' \subseteq Lost \cup {r}
      BY <1>1, <1>2, <2>3 DEF Lost, Loadable
    <3>2. AtStake \in {0, 1}
      BY <2>3 DEF AtStake
    <3>3. /\ IsFiniteSet(Lost') /\ Cardinality(Lost') \in Nat
          /\ Cardinality(Lost') <= Cardinality(Lost) + 1
      BY <1>5, <3>1, AddsOne
    <3> QED BY <1>2, <1>5, <1>6, <2>1, <3>2, <3>3
  <2> QED BY <2>2, <2>3
<1>10. CASE tail = Empty /\ tail' = r
  <2>1. Lost' \subseteq Lost /\ AtStake' = 2 /\ AtStake = 0
    BY <1>1, <1>2, <1>7, <1>10 DEF Lost, Loadable, AtStake
  <2>2. IsFiniteSet(Lost') /\ Cardinality(Lost') <= Cardinality(Lost) /\ Cardinality(Lost') \in Nat
    BY <1>5, <2>1, FS_Subset, FS_CardinalityType
  <2> QED BY <1>2, <1>5, <1>6, <2>1, <2>2
<1> QED BY <1>4, <1>8, <1>9, <1>10

LEMMA LineIsTyped ==
  ASSUME Typed, NEW p \in Procs, pc[p] = "writing"
  PROVE  arg[p] \in Refs /\ Line(p) \in Refs \cup {Junk, TooLong}
BY DEF Typed, Line

LEMMA TypeOfInit == ASSUME Init PROVE Typed
<1>1. lines = <<>> /\ lines \in Seq(Refs \cup {Junk, TooLong}) /\ 0 \in 0 .. MaxFaults
  BY FaultsAssumption DEF Init
<1> QED BY <1>1 DEF Init, Typed

LEMMA TypeOfNext == ASSUME Typed, [Next]_vars PROVE Typed'
<1>1. CASE UNCHANGED vars
  BY <1>1 DEF vars, Typed
<1>2. ASSUME NEW p \in Procs, Open(p) PROVE Typed'
  BY <1>2 DEF Open, Loadable, Typed
<1>3. ASSUME NEW p \in Procs, OpenFails(p) PROVE Typed'
  BY <1>1, <1>3 DEF OpenFails
<1>4. ASSUME NEW p \in Procs, Torn(p) PROVE UNCHANGED lines /\ tail' \in Refs \cup {Junk, TooLong, Empty}
                                            /\ faults' \in 0 .. MaxFaults
  <2>1. arg[p] \in Refs /\ Line(p) \in Refs \cup {Junk, TooLong}
    BY <1>4, LineIsTyped DEF Torn
  <2> QED BY <1>4, <2>1, FaultsAssumption DEF Torn, TornTail, Typed
<1>5. ASSUME NEW p \in Procs, pc[p] = "writing", AppendRecord(p)
      PROVE  lines' \in Seq(Refs \cup {Junk, TooLong}) /\ tail' = Empty
  <2>1. PICK line \in Refs \cup {Junk, TooLong} : line = Line(p)
    BY <1>5, LineIsTyped
  <2> QED BY <1>5, <2>1 DEF AppendRecord, Typed
<1>6. ASSUME NEW p \in Procs, Written(p) PROVE Typed'
  <2>1. arg[p] \in Refs /\ lines' \in Seq(Refs \cup {Junk, TooLong}) /\ tail' = Empty
    BY <1>5, <1>6, LineIsTyped DEF Written
  <2> QED BY <1>6, <2>1 DEF Written, Typed
<1>7. ASSUME NEW p \in Procs, CrashAfterWrite(p) PROVE Typed'
  <2>1. lines' \in Seq(Refs \cup {Junk, TooLong}) /\ tail' = Empty
    BY <1>5, <1>7 DEF CrashAfterWrite
  <2> QED BY <1>7, <2>1 DEF CrashAfterWrite, Down, Typed
<1>8. ASSUME NEW p \in Procs, WriteFails(p) \/ CrashInWrite(p) PROVE Typed'
  <2>1. /\ UNCHANGED lines /\ tail' \in Refs \cup {Junk, TooLong, Empty}
        /\ faults' \in 0 .. MaxFaults
    BY <1>4, <1>8 DEF WriteFails, CrashInWrite
  <2> QED BY <1>8, <2>1 DEF WriteFails, CrashInWrite, Torn, Down, Typed
<1>9. ASSUME NEW p \in Procs, Exit(p) PROVE Typed'
  BY <1>9 DEF Exit, Down, Typed
<1>10. ASSUME NEW p \in Procs, NEW r \in Refs, PutKnown(p, r) \/ PutNew(p, r) PROVE Typed'
  BY <1>10 DEF PutKnown, PutNew, Typed
<1> QED BY <1>1, <1>2, <1>3, <1>6, <1>7, <1>8, <1>9, <1>10 DEF Next

LEMMA BoundOfInit == ASSUME Init PROVE Bounded
<1>1. Lost = {} /\ AtStake = 0
  BY JunkAssumption DEF Init, Lost, Claimed, Kept, AtStake
<1>2. IsFiniteSet(Lost) /\ Cardinality(Lost) = 0
  BY <1>1, FS_EmptySet
<1> QED BY <1>1, <1>2 DEF Init, Bounded

(* Who takes what for stored after a step. *)
LEMMA ClaimsOfStep ==
  ASSUME NEW S, acked' \subseteq acked \cup S, \A q \in Procs : Kept(q)' \subseteq Kept(q) \cup S
  PROVE  Claimed' \subseteq Claimed \cup S
BY DEF Claimed

(* A finished write claims its record; a process that goes down claims no    *)
(* more than before.                                                         *)
LEMMA ClaimsOfWrite ==
  ASSUME Typed, NEW p \in Procs, pc[p] = "writing",
         acked' \subseteq acked \cup {arg[p]}, arg' = [arg EXCEPT ![p] = Empty],
         Down(p) \/ (pc' = [pc EXCEPT ![p] = "up"] /\ UNCHANGED mem)
  PROVE  Claimed' \subseteq Claimed \cup {arg[p]}
<1>1. ASSUME NEW q \in Procs PROVE Kept(q)' \subseteq Kept(q) \cup {arg[p]}
  BY DEF Typed, Kept, Down
<1> QED BY <1>1, ClaimsOfStep

LEMMA BoundOfNext == ASSUME IInv, [Next]_vars PROVE Bounded'
<1>1. Typed /\ Bounded
  BY DEF IInv
<1>2. CASE UNCHANGED vars
  <2>1. UNCHANGED <<lines, tail, faults>> /\ Claimed' = Claimed
    BY <1>2 DEF vars, Claimed, Kept
  <2> QED BY <1>1, <2>1, LossOfClaims
<1>3. ASSUME NEW p \in Procs, Open(p) PROVE Bounded'
  (* What a process finds in the file is not lost, whoever claims it.        *)
  <2>1. UNCHANGED <<lines, tail, faults, acked>> /\ Loadable' = Loadable
    BY <1>3 DEF Open, Loadable
  <2>2. ASSUME NEW q \in Procs PROVE Kept(q)' \subseteq Kept(q) \cup Loadable
    BY <1>1, <1>3 DEF Open, Typed, Kept
  <2>3. Claimed' \subseteq Claimed \cup Loadable
    BY <2>1, <2>2, ClaimsOfStep
  <2>4. Lost' \subseteq Lost
    BY <2>1, <2>3 DEF Lost
  <2> QED BY <1>1, <2>1, <2>4, NothingLost
<1>4. ASSUME NEW p \in Procs, OpenFails(p) PROVE Bounded'
  BY <1>2, <1>4 DEF OpenFails
<1>5. ASSUME NEW p \in Procs, Written(p) \/ CrashAfterWrite(p) PROVE Bounded'
  <2>1. pc[p] = "writing" /\ AppendRecord(p) /\ UNCHANGED faults
    BY <1>5 DEF Written, CrashAfterWrite
  <2>2. Claimed' \subseteq Claimed \cup {arg[p]}
    <3>1. /\ acked' \subseteq acked \cup {arg[p]} /\ arg' = [arg EXCEPT ![p] = Empty]
          /\ Down(p) \/ (pc' = [pc EXCEPT ![p] = "up"] /\ UNCHANGED mem)
      BY <1>5 DEF Written, CrashAfterWrite
    <3> QED BY <1>1, <2>1, <3>1, ClaimsOfWrite
  <2> QED BY <1>1, <2>1, <2>2, AppendCosts
<1>6. ASSUME NEW p \in Procs, WriteFails(p) \/ CrashInWrite(p) PROVE Bounded'
  <2>1. Torn(p) /\ pc[p] = "writing"
    BY <1>6 DEF WriteFails, CrashInWrite, Torn
  <2>2. Claimed' \subseteq Claimed \cup {arg[p]}
    <3>1. /\ acked' \subseteq acked \cup {arg[p]} /\ arg' = [arg EXCEPT ![p] = Empty]
          /\ Down(p) \/ (pc' = [pc EXCEPT ![p] = "up"] /\ UNCHANGED mem)
      BY <1>6 DEF WriteFails, CrashInWrite, Torn
    <3> QED BY <1>1, <2>1, <3>1, ClaimsOfWrite
  <2> QED BY <1>1, <2>1, <2>2, TornCosts
<1>7. ASSUME NEW p \in Procs, Exit(p) PROVE Bounded'
  <2>1. UNCHANGED <<lines, tail, faults, acked>>
    BY <1>7 DEF Exit
  <2>2. ASSUME NEW q \in Procs PROVE Kept(q)' \subseteq Kept(q)
    BY <1>1, <1>7 DEF Exit, Down, Typed, Kept
  <2>3. Claimed' \subseteq Claimed
    BY <2>1, <2>2 DEF Claimed
  <2> QED BY <1>1, <2>1, <2>3, LossOfClaims
<1>8. ASSUME NEW p \in Procs, NEW r \in Refs, PutKnown(p, r) PROVE Bounded'
  <2>1. UNCHANGED <<lines, tail, faults, mem, pc, arg>> /\ r \in Kept(p) /\ acked' = acked \cup {r}
    BY <1>8 DEF PutKnown, Kept
  <2>2. Claimed' \subseteq Claimed
    BY <2>1 DEF Claimed, Kept
  <2> QED BY <1>1, <2>1, <2>2, LossOfClaims
<1>9. ASSUME NEW p \in Procs, NEW r \in Refs, PutNew(p, r) PROVE Bounded'
  <2>1. UNCHANGED <<lines, tail, faults, acked>>
    BY <1>9 DEF PutNew
  <2>2. ASSUME NEW q \in Procs PROVE Kept(q)' \subseteq Kept(q)
    BY <1>1, <1>9 DEF PutNew, Typed, Kept
  <2>3. Claimed' \subseteq Claimed
    BY <2>1, <2>2 DEF Claimed
  <2> QED BY <1>1, <2>1, <2>3, LossOfClaims
<1> QED BY <1>2, <1>3, <1>4, <1>5, <1>6, <1>7, <1>8, <1>9 DEF Next

LEMMA Invariance == Spec => []IInv
<1>1. Init => IInv
  BY TypeOfInit, BoundOfInit DEF IInv
<1>2. IInv /\ [Next]_vars => IInv'
  BY TypeOfNext, BoundOfNext DEF IInv
<1> QED BY <1>1, <1>2, PTL DEF Spec

(* Every variable keeps its type, and a process writes one text at a time.   *)
THEOREM TypeCorrect == Spec => []Typed
<1>1. IInv => Typed
  BY DEF IInv
<1> QED BY <1>1, Invariance, PTL

(* Two texts are the most a failed or torn write can cost, over any number   *)
(* of processes and restarts, until a record too long for the scanner is     *)
(* written (originals.go:79-93).                                             *)
THEOREM LossStaysBounded == Spec => []LossIsBounded
<1>1. ASSUME IInv PROVE LossIsBounded
  <2> SUFFICES ASSUME Opens PROVE Cardinality(acked \ Loadable) <= 2 * faults
    BY DEF LossIsBounded
  <2>1. IsFiniteSet(Lost) /\ Cardinality(Lost) + AtStake <= 2 * faults /\ faults \in Nat
    BY <1>1, FaultsAssumption DEF IInv, Bounded, Typed
  <2>2. acked \ Loadable \subseteq Lost
    BY DEF Lost, Claimed
  <2>3. /\ IsFiniteSet(acked \ Loadable)
        /\ Cardinality(acked \ Loadable) <= Cardinality(Lost)
    BY <2>1, <2>2, FS_Subset
  <2>4. Cardinality(Lost) \in Nat /\ Cardinality(acked \ Loadable) \in Nat /\ AtStake \in Nat
    BY <2>1, <2>3, FS_CardinalityType DEF AtStake
  <2> QED BY <2>1, <2>3, <2>4
<1> QED BY <1>1, Invariance, PTL

(* Where no write fails, what any Put has accepted is found by every restart *)
(* that can read the file at all, however many processes share it            *)
(* (originals.go:1-8).                                                       *)
THEOREM NothingLostWithoutFaults == Spec => [](faults = 0 /\ Opens => AckedIsDurable)
<1>1. ASSUME IInv, faults = 0, Opens PROVE AckedIsDurable
  <2>1. IsFiniteSet(Lost) /\ Cardinality(Lost) + AtStake <= 0
    BY <1>1 DEF IInv, Bounded
  <2>2. Cardinality(Lost) \in Nat /\ AtStake \in Nat
    BY <2>1, FS_CardinalityType DEF AtStake
  <2>3. Lost = {}
    BY <2>1, <2>2, FS_EmptySet
  <2> QED BY <2>3 DEF Lost, Claimed, AckedIsDurable
<1> QED BY <1>1, Invariance, PTL
=============================================================================
