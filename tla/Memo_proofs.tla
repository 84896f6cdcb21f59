----------------------------- MODULE Memo_proofs -----------------------------
(* The memo's list and map never disagree and its bound holds, for every set *)
(* of keys, values and clients and every capacity.  The lemmas say what the  *)
(* list surgery of MemoOps does to a list without repetitions.               *)
EXTENDS MemoHistory, SequenceTheorems, TLAPS

Distinct(order) ==
  \A i, j \in DOMAIN order : order[i] = order[j] => i = j

LEMMA ListedElements ==
  ASSUME NEW S, NEW order \in Seq(S), NEW x
  PROVE  x \in Listed(order) <=> \E i \in 1 .. Len(order) : order[i] = x
BY DEF Listed

LEMMA DistinctElements ==
  ASSUME NEW S, NEW order \in Seq(S)
  PROVE  Distinct(order) <=>
           \A i, j \in 1 .. Len(order) : order[i] = order[j] => i = j
BY DEF Distinct

(* Moving a listed key to the front permutes the list. *)
LEMMA MoveToFrontPermutes ==
  ASSUME NEW S, NEW order \in Seq(S), NEW k \in Listed(order), Distinct(order)
  PROVE  /\ MoveToFront(order, k) \in Seq(S)
         /\ Len(MoveToFront(order, k)) = Len(order)
         /\ Listed(MoveToFront(order, k)) = Listed(order)
         /\ Distinct(MoveToFront(order, k))
<1> DEFINE p == PosOf(order, k)
           moved == MoveToFront(order, k)
           from(i) == IF i = 1 THEN p ELSE IF i <= p THEN i - 1 ELSE i
<1>1. p \in 1 .. Len(order) /\ order[p] = k
  BY DEF PosOf, Listed
<1>2. \A i \in 1 .. Len(order) : from(i) \in 1 .. Len(order)
  BY <1>1
<1>3. moved = [i \in 1 .. Len(order) |-> order[from(i)]]
  BY <1>1 DEF MoveToFront
<1>4. /\ moved \in Seq(S)
      /\ Len(moved) = Len(order)
      /\ \A i \in 1 .. Len(order) : moved[i] = order[from(i)]
  <2> HIDE DEF moved, from
  <2> QED BY SMTT(20), <1>2, <1>3
<1>5. \A i, j \in 1 .. Len(order) : from(i) = from(j) => i = j
  BY <1>1
<1>6. \A i \in 1 .. Len(order) : \E j \in 1 .. Len(order) : from(j) = i
  <2> SUFFICES ASSUME NEW i \in 1 .. Len(order)
               PROVE  \E j \in 1 .. Len(order) : from(j) = i
    OBVIOUS
  <2>1. CASE i < p
    <3>1. i + 1 \in 1 .. Len(order) /\ from(i + 1) = i
      BY <1>1, <2>1
    <3> QED BY <3>1
  <2>2. CASE i = p
    <3>1. 1 \in 1 .. Len(order) /\ from(1) = i
      BY <1>1, <2>2
    <3> QED BY <3>1
  <2>3. CASE i > p
    <3>1. from(i) = i
      BY <1>1, <2>3
    <3> QED BY <3>1
  <2> QED BY <1>1, <2>1, <2>2, <2>3
<1> HIDE DEF moved, from, p
<1>7. Distinct(moved)
  <2> SUFFICES ASSUME NEW i \in 1 .. Len(order), NEW j \in 1 .. Len(order),
                      moved[i] = moved[j]
               PROVE  i = j
    BY <1>4, DistinctElements
  <2>1. from(i) = from(j)
    BY SMTT(20), <1>2, <1>4, DistinctElements
  <2> QED BY <1>5, <2>1
<1>8. \A x : x \in Listed(moved) <=> x \in Listed(order)
  <2> TAKE x
  <2>1. x \in Listed(moved) <=> \E i \in 1 .. Len(order) : order[from(i)] = x
    BY <1>4, ListedElements
  <2>2. x \in Listed(order) <=> \E i \in 1 .. Len(order) : order[i] = x
    BY ListedElements
  <2> QED BY <1>2, <1>6, <2>1, <2>2
<1> QED BY <1>4, <1>7, <1>8 DEF moved

(* Pushing a key that is not listed adds exactly that key. *)
LEMMA PushFrontAdds ==
  ASSUME NEW S, NEW order \in Seq(S), NEW k \in S, k \notin Listed(order),
         Distinct(order)
  PROVE  /\ PushFront(order, k) \in Seq(S)
         /\ Len(PushFront(order, k)) = Len(order) + 1
         /\ Listed(PushFront(order, k)) = Listed(order) \cup {k}
         /\ Distinct(PushFront(order, k))
<1> DEFINE pushed == PushFront(order, k)
<1>1. /\ pushed \in Seq(S)
      /\ Len(pushed) = Len(order) + 1
      /\ pushed[1] = k
      /\ \A i \in 1 .. Len(order) : pushed[i + 1] = order[i]
      /\ \A i \in 2 .. Len(order) + 1 : pushed[i] = order[i - 1]
  BY DEF PushFront
<1> HIDE DEF pushed
<1>2. \A i \in 1 .. Len(order) : order[i] # k
  BY ListedElements
<1>3. Distinct(pushed)
  <2> SUFFICES ASSUME NEW i \in 1 .. Len(order) + 1, NEW j \in 1 .. Len(order) + 1,
                      pushed[i] = pushed[j]
               PROVE  i = j
    BY <1>1, DistinctElements
  <2>1. CASE i = 1 \/ j = 1
    <3>1. \A n \in 2 .. Len(order) + 1 : pushed[n] # k
      BY <1>1, <1>2
    <3> QED BY <1>1, <2>1, <3>1
  <2>2. CASE i # 1 /\ j # 1
    <3>1. /\ pushed[i] = order[i - 1] /\ i - 1 \in 1 .. Len(order)
          /\ pushed[j] = order[j - 1] /\ j - 1 \in 1 .. Len(order)
      BY <1>1, <2>2
    <3>2. i - 1 = j - 1
      BY <3>1, DistinctElements
    <3> QED BY <3>2
  <2> QED BY <2>1, <2>2
<1>4. \A x : x \in Listed(pushed) <=> x \in Listed(order) \cup {k}
  <2> TAKE x
  <2>1. x \in Listed(pushed) <=> \E i \in 1 .. Len(order) + 1 : pushed[i] = x
    BY <1>1, ListedElements
  <2>2. x \in Listed(order) <=> \E i \in 1 .. Len(order) : order[i] = x
    BY ListedElements
  <2>3. ASSUME NEW i \in 1 .. Len(order) + 1, pushed[i] = x
        PROVE  x = k \/ \E j \in 1 .. Len(order) : order[j] = x
    <3>1. CASE i = 1
      BY <1>1, <2>3, <3>1
    <3>2. CASE i # 1
      <4>1. i - 1 \in 1 .. Len(order) /\ order[i - 1] = x
        BY <1>1, <2>3, <3>2
      <4> QED BY <4>1
    <3> QED BY <3>1, <3>2
  <2>4. ASSUME NEW i \in 1 .. Len(order), order[i] = x
        PROVE  \E j \in 1 .. Len(order) + 1 : pushed[j] = x
    <3>1. i + 1 \in 1 .. Len(order) + 1 /\ pushed[i + 1] = x
      BY <1>1, <2>4
    <3> QED BY <3>1
  <2>5. 1 \in 1 .. Len(order) + 1
    OBVIOUS
  <2> QED BY <1>1, <2>1, <2>2, <2>3, <2>4, <2>5
<1> QED BY <1>1, <1>3, <1>4 DEF pushed

(* Dropping the back of the list removes exactly that key. *)
LEMMA DropBackRemoves ==
  ASSUME NEW S, NEW order \in Seq(S), Len(order) > 0, Distinct(order),
         NEW rest, rest = SubSeq(order, 1, Len(order) - 1)
  PROVE  /\ rest \in Seq(S)
         /\ Len(rest) = Len(order) - 1
         /\ Listed(rest) = Listed(order) \ {Back(order)}
         /\ Distinct(rest)
         /\ Back(order) \in Listed(order)
<1>1. /\ rest \in Seq(S)
      /\ Len(rest) = Len(order) - 1
      /\ \A i \in 1 .. Len(order) - 1 : rest[i] = order[i]
  <2> DEFINE n == Len(order) - 1
  <2>1. n \in Nat /\ \A i \in 1 .. n : order[i] \in S
    OBVIOUS
  <2>2. /\ SubSeq(order, 1, n) \in Seq(S)
        /\ Len(SubSeq(order, 1, n)) = IF 1 <= n THEN n - 1 + 1 ELSE 0
        /\ \A i \in 1 .. n - 1 + 1 : SubSeq(order, 1, n)[i] = order[1 + i - 1]
    <3> HIDE DEF n
    <3>1. 1 \in Int /\ n \in Int
      BY <2>1
    <3> QED BY ONLY <2>1, <3>1, SubSeqProperties
  <2>3. rest = SubSeq(order, 1, n)
    OBVIOUS
  <2>4. Len(rest) = n
    <3> HIDE DEF n
    <3> QED BY <2>1, <2>2, <2>3
  <2>5. ASSUME NEW i \in 1 .. n  PROVE rest[i] = order[i]
    <3> HIDE DEF n
    <3>1. 1 + i - 1 = i /\ i \in 1 .. n - 1 + 1
      BY <2>1
    <3> QED BY <2>2, <2>3, <3>1
  <2> QED BY <2>2, <2>3, <2>4, <2>5
<1>2. Distinct(rest)
  <2> SUFFICES ASSUME NEW i \in 1 .. Len(order) - 1, NEW j \in 1 .. Len(order) - 1,
                      rest[i] = rest[j]
               PROVE  i = j
    BY <1>1, DistinctElements
  <2>1. order[i] = order[j] /\ i \in 1 .. Len(order) /\ j \in 1 .. Len(order)
    BY <1>1
  <2> QED BY <2>1, DistinctElements
<1>3. \A x : x \in Listed(rest) <=> x \in Listed(order) /\ x # Back(order)
  <2> TAKE x
  <2>1. x \in Listed(rest) <=> \E i \in 1 .. Len(order) - 1 : order[i] = x
    <3>1. x \in Listed(rest) <=> \E i \in 1 .. Len(rest) : rest[i] = x
      BY <1>1, ListedElements
    <3> QED BY <1>1, <3>1
  <2>2. x \in Listed(order) <=> \E i \in 1 .. Len(order) : order[i] = x
    BY ListedElements
  <2>3. ASSUME NEW i \in 1 .. Len(order) - 1, order[i] = Back(order)
        PROVE  FALSE
    <3>1. i = Len(order)
      BY <2>3, DistinctElements DEF Back
    <3> QED BY <3>1
  <2> QED BY <2>1, <2>2, <2>3 DEF Back
<1>4. Back(order) \in Listed(order)
  <2>1. Len(order) \in 1 .. Len(order)
    OBVIOUS
  <2> QED BY <2>1, ListedElements DEF Back
<1> QED BY <1>1, <1>2, <1>3, <1>4
-----------------------------------------------------------------------------
(* A cache whose list and map agree. *)
CacheType == [order : Seq(Keys), val : UNION {[S -> Values] : S \in SUBSET Keys}]

Agrees(c) ==
  /\ c \in CacheType
  /\ Listed(c.order) = DOMAIN c.val
  /\ Distinct(c.order)

LEMMA CacheTypeParts ==
  ASSUME NEW c
  PROVE  c \in CacheType <=>
           /\ c = [order |-> c.order, val |-> c.val]
           /\ c.order \in Seq(Keys)
           /\ DOMAIN c.val \subseteq Keys
           /\ c.val \in [DOMAIN c.val -> Values]
<1>1. c \in CacheType =>
           /\ c = [order |-> c.order, val |-> c.val]
           /\ c.order \in Seq(Keys)
           /\ c.val \in UNION {[S -> Values] : S \in SUBSET Keys}
  BY DEF CacheType
<1>2. c.val \in UNION {[S -> Values] : S \in SUBSET Keys} <=>
        DOMAIN c.val \subseteq Keys /\ c.val \in [DOMAIN c.val -> Values]
  OBVIOUS
<1>3. ASSUME c = [order |-> c.order, val |-> c.val],
             c.order \in Seq(Keys),
             c.val \in UNION {[S -> Values] : S \in SUBSET Keys}
      PROVE  c \in CacheType
  BY <1>3 DEF CacheType
<1> QED BY <1>1, <1>2, <1>3

LEMMA LookupAgrees ==
  ASSUME NEW c, Agrees(c), NEW k \in Keys
  PROVE  /\ Agrees(Lookup(c, k))
         /\ Len(Lookup(c, k).order) = Len(c.order)
         /\ Lookup(c, k).val = c.val
         /\ Answer(c, k) \in Values \cup {Miss}
<1> USE DEF Agrees
<1>1. /\ c.order \in Seq(Keys)
      /\ DOMAIN c.val \subseteq Keys
      /\ c.val \in [DOMAIN c.val -> Values]
      /\ c = [order |-> c.order, val |-> c.val]
  BY CacheTypeParts
<1>2. Answer(c, k) \in Values \cup {Miss}
  BY <1>1 DEF Answer
<1>3. CASE k \in DOMAIN c.val
  <2>1. Lookup(c, k) = [order |-> MoveToFront(c.order, k), val |-> c.val]
    BY <1>1, <1>3 DEF Lookup
  <2>2. /\ MoveToFront(c.order, k) \in Seq(Keys)
        /\ Len(MoveToFront(c.order, k)) = Len(c.order)
        /\ Listed(MoveToFront(c.order, k)) = Listed(c.order)
        /\ Distinct(MoveToFront(c.order, k))
    BY <1>1, <1>3, MoveToFrontPermutes
  <2> HIDE DEF Agrees
  <2>3. Lookup(c, k) \in CacheType
    BY <1>1, <2>1, <2>2, CacheTypeParts
  <2> QED BY <1>2, <2>1, <2>2, <2>3 DEF Agrees
<1>4. CASE k \notin DOMAIN c.val
  BY <1>2, <1>4 DEF Lookup
<1> QED BY <1>3, <1>4

LEMMA InsertAgrees ==
  ASSUME NEW c, Agrees(c), NEW k \in Keys, NEW v \in Values
  PROVE  /\ Agrees(Insert(c, k, v))
         /\ Len(Insert(c, k, v).order) \in {Len(c.order), Len(c.order) + 1}
         /\ Len(Insert(c, k, v).order) > 0
         /\ Insert(c, k, v).order[1] = k
         /\ Insert(c, k, v).val =
              [x \in DOMAIN c.val \cup {k} |-> IF x = k THEN v ELSE c.val[x]]
<1> DEFINE order == IF k \in DOMAIN c.val THEN MoveToFront(c.order, k)
                                          ELSE PushFront(c.order, k)
           val == [x \in DOMAIN c.val \cup {k} |-> IF x = k THEN v ELSE c.val[x]]
<1>1. /\ c.order \in Seq(Keys)
      /\ DOMAIN c.val \subseteq Keys
      /\ c.val \in [DOMAIN c.val -> Values]
      /\ Listed(c.order) = DOMAIN c.val
      /\ Distinct(c.order)
  BY CacheTypeParts DEF Agrees
<1>2. Insert(c, k, v) = [order |-> order, val |-> val]
  BY DEF Insert
<1>3. /\ order \in Seq(Keys)
      /\ Len(order) \in {Len(c.order), Len(c.order) + 1}
      /\ Listed(order) = Listed(c.order) \cup {k}
      /\ Distinct(order)
      /\ Len(order) > 0
      /\ order[1] = k
  <2>1. CASE k \in DOMAIN c.val
    <3>1. /\ order \in Seq(Keys)
          /\ Len(order) = Len(c.order)
          /\ Listed(order) = Listed(c.order)
          /\ Distinct(order)
      BY <1>1, <2>1, MoveToFrontPermutes
    <3>2. 1 \in DOMAIN c.order
      BY <1>1, <2>1, ListedElements
    <3>3. order[1] = k
      BY <2>1, <3>2 DEF MoveToFront
    <3> HIDE DEF order
    <3> QED BY <1>1, <2>1, <3>1, <3>2, <3>3
  <2>2. CASE k \notin DOMAIN c.val
    <3>1. /\ order \in Seq(Keys)
          /\ Len(order) = Len(c.order) + 1
          /\ Listed(order) = Listed(c.order) \cup {k}
          /\ Distinct(order)
      BY <1>1, <2>2, PushFrontAdds
    <3>2. order[1] = k
      BY <1>1, <2>2 DEF PushFront
    <3> HIDE DEF order
    <3> QED BY <1>1, <3>1, <3>2
  <2> QED BY <2>1, <2>2
<1> HIDE DEF order
<1>4. DOMAIN val = DOMAIN c.val \cup {k} /\ val \in [DOMAIN c.val \cup {k} -> Values]
  BY <1>1
<1> HIDE DEF val
<1>5. Insert(c, k, v) \in CacheType
  BY <1>1, <1>2, <1>3, <1>4, CacheTypeParts
<1> QED BY <1>1, <1>2, <1>3, <1>4, <1>5 DEF Agrees, val

LEMMA DropBackAgrees ==
  ASSUME NEW c, Agrees(c), Len(c.order) > 0
  PROVE  /\ Agrees(DropBack(c))
         /\ Len(DropBack(c).order) = Len(c.order) - 1
         /\ DropBack(c).val =
              [x \in DOMAIN c.val \ {Back(c.order)} |-> c.val[x]]
         /\ Len(c.order) > 1 =>
              /\ DropBack(c).order[1] = c.order[1]
              /\ Back(c.order) # c.order[1]
<1> DEFINE rest == SubSeq(c.order, 1, Len(c.order) - 1)
           val == [x \in DOMAIN c.val \ {Back(c.order)} |-> c.val[x]]
<1>1. /\ c.order \in Seq(Keys)
      /\ DOMAIN c.val \subseteq Keys
      /\ c.val \in [DOMAIN c.val -> Values]
      /\ Listed(c.order) = DOMAIN c.val
      /\ Distinct(c.order)
  BY CacheTypeParts DEF Agrees
<1>2. DropBack(c) = [order |-> rest, val |-> val]
  BY DEF DropBack
<1>3. /\ rest \in Seq(Keys)
      /\ Len(rest) = Len(c.order) - 1
      /\ Listed(rest) = Listed(c.order) \ {Back(c.order)}
      /\ Distinct(rest)
  BY <1>1, DropBackRemoves
<1>4. Len(c.order) > 1 => rest[1] = c.order[1] /\ Back(c.order) # c.order[1]
  <2> SUFFICES ASSUME Len(c.order) > 1
               PROVE  rest[1] = c.order[1] /\ Back(c.order) # c.order[1]
    OBVIOUS
  <2>1. rest[1] = c.order[1]
    BY <1>1
  <2>2. Len(c.order) \in 1 .. Len(c.order) /\ 1 \in 1 .. Len(c.order)
    BY <1>1
  <2> QED BY <1>1, <2>1, <2>2, DistinctElements DEF Back
<1> HIDE DEF rest
<1>5. DOMAIN val = DOMAIN c.val \ {Back(c.order)}
      /\ val \in [DOMAIN c.val \ {Back(c.order)} -> Values]
  BY <1>1
<1> HIDE DEF val
<1>6. DropBack(c) \in CacheType
  BY <1>1, <1>2, <1>3, <1>5, CacheTypeParts
<1> QED BY <1>1, <1>2, <1>3, <1>4, <1>5, <1>6 DEF Agrees, val
-----------------------------------------------------------------------------
(* PutIsPinned is not inductive: it needs the pinned key at the front, where *)
(* an eviction, which needs two entries, cannot reach it.                    *)
PinnedInFront ==
  \A c \in Clients : pc[c] = "evicting" =>
    Len(cache.order) > 0 /\ cache.order[1] = arg[c].key

IInv ==
  /\ TypeOK
  /\ MutexExclusive
  /\ ListMatchesMap
  /\ BoundedOutsidePut
  /\ PutIsPinned
  /\ PinnedInFront

LEMMA CacheAgrees == TypeOK /\ ListMatchesMap <=> TypeOK /\ Agrees(cache)
BY DEF TypeOK, ListMatchesMap, Agrees, CacheType, Distinct

LEMMA InitEstablishes == Init => IInv
<1> SUFFICES ASSUME Init  PROVE IInv
  OBVIOUS
<1> USE DEF Init
<1>1. cache = [order |-> <<>>, val |-> [k \in {} |-> Miss]]
  BY DEF EmptyCache
<1>2. cache.order \in Seq(Keys) /\ Len(cache.order) = 0
  BY <1>1
<1>3. DOMAIN cache.val = {} /\ cache.val \in [DOMAIN cache.val -> Values]
  BY <1>1
<1>4. cache \in CacheType
  BY <1>1, <1>2, <1>3, CacheTypeParts
<1>5. TypeOK
  BY <1>4 DEF TypeOK, CacheType, Phases, Holding
<1>6. Agrees(cache)
  <2>1. \A x : x \notin Listed(cache.order)
    BY <1>2, ListedElements
  <2>2. Listed(cache.order) = DOMAIN cache.val
    BY <1>3, <2>1
  <2> QED BY <1>2, <1>4, <2>2, DistinctElements DEF Agrees
<1>7. MutexExclusive
  BY ClientAssumption DEF MutexExclusive, Holding
<1>8. BoundedOutsidePut
  BY <1>2, CapAssumption DEF BoundedOutsidePut
<1>9. PutIsPinned /\ PinnedInFront
  BY DEF PutIsPinned, PinnedInFront
<1> QED BY <1>5, <1>6, <1>7, <1>8, <1>9, CacheAgrees DEF IInv

LEMMA StepPreserves == IInv /\ [Next]_vars => IInv'
<1> SUFFICES ASSUME IInv, [Next]_vars  PROVE IInv'
  OBVIOUS
<1> USE DEF IInv
<1>1. Agrees(cache) /\ TypeOK
  BY CacheAgrees
<1>2. ASSUME UNCHANGED cache, (TypeOK /\ MutexExclusive)',
             \A c \in Clients : pc'[c] = "evicting" => pc[c] = "evicting" /\ arg'[c] = arg[c],
             \/ Len(cache.order) <= Cap
             \/ \A c \in Clients : pc[c] = "evicting" => pc'[c] = "evicting"
      PROVE  IInv'
  BY <1>2, CapAssumption
     DEF ListMatchesMap, BoundedOutsidePut, PutIsPinned, PinnedInFront, TypeOK
<1>3. ASSUME NEW c \in Clients, CallGet(c) \/ CallPut(c)  PROVE IInv'
  <2>1. PICK method \in {"get", "put"}, k \in Keys, v \in Values \cup {Miss} :
          /\ Call(c, method, k, v)
          /\ method = "get" => v = Miss
          /\ method = "put" => v \in Values
    BY <1>3 DEF CallGet, CallPut
  <2>2. TypeOK'
    BY <2>1 DEF TypeOK, Call, Args, Phases, Holding
  <2>3. MutexExclusive'
    BY <2>1 DEF MutexExclusive, Call, Holding, TypeOK
  <2> QED BY <1>2, <2>1, <2>2, <2>3 DEF Call, TypeOK
<1>4. ASSUME NEW c \in Clients, Lock(c)  PROVE IInv'
  <2>1. TypeOK'
    BY <1>4 DEF TypeOK, Lock, Phases, Holding
  <2>2. MutexExclusive'
    BY <1>4, ClientAssumption DEF MutexExclusive, Lock, Holding, TypeOK
  <2> QED BY <1>2, <1>4, <2>1, <2>2 DEF Lock, TypeOK
<1>5. ASSUME NEW c \in Clients, Get(c)  PROVE IInv'
  <2>1. arg[c].key \in Keys
    BY <1>5 DEF Get, TypeOK
  <2>2. /\ Agrees(cache')
        /\ Len(cache'.order) = Len(cache.order)
        /\ cache'.val = cache.val
        /\ ret'[c] \in Values \cup {Miss}
    BY <1>1, <1>5, <2>1, LookupAgrees DEF Get, TypeOK
  <2>3. TypeOK'
    BY <1>5, <2>2 DEF TypeOK, Get, Unlock, Phases, Holding, Agrees, CacheType
  <2>4. MutexExclusive'
    BY <1>5, ClientAssumption DEF MutexExclusive, Get, Unlock, Holding, TypeOK
  <2>5. \A d \in Clients : pc[d] # "evicting" /\ pc'[d] # "evicting"
    BY <1>5 DEF MutexExclusive, Get, Unlock, Holding, TypeOK
  <2>6. ListMatchesMap'
    BY <2>2 DEF ListMatchesMap, Agrees, Distinct
  <2>7. BoundedOutsidePut'
    BY <2>2, <2>5 DEF BoundedOutsidePut
  <2> QED BY <2>3, <2>4, <2>5, <2>6, <2>7 DEF PutIsPinned, PinnedInFront
<1>6. ASSUME NEW c \in Clients, PutInsert(c)  PROVE IInv'
  <2>1. arg[c].key \in Keys /\ arg[c].val \in Values
    BY <1>6 DEF PutInsert, TypeOK
  <2> DEFINE k == arg[c].key
  <2>2. /\ Agrees(cache')
        /\ Len(cache'.order) \in {Len(cache.order), Len(cache.order) + 1}
        /\ Len(cache'.order) > 0
        /\ cache'.order[1] = k
        /\ cache'.val = [x \in DOMAIN cache.val \cup {k} |->
                           IF x = k THEN arg[c].val ELSE cache.val[x]]
    <3>1. cache' = Insert(cache, arg[c].key, arg[c].val)
      BY <1>6 DEF PutInsert
    <3> DEFINE v == arg[c].val
    <3>2. k \in Keys /\ v \in Values
      BY <2>1
    <3>3. cache' = Insert(cache, k, v)
      BY <3>1
    <3> HIDE DEF k, v
    <3>4. /\ Agrees(Insert(cache, k, v))
          /\ Len(Insert(cache, k, v).order) \in {Len(cache.order), Len(cache.order) + 1}
          /\ Len(Insert(cache, k, v).order) > 0
          /\ Insert(cache, k, v).order[1] = k
          /\ Insert(cache, k, v).val =
               [x \in DOMAIN cache.val \cup {k} |-> IF x = k THEN v ELSE cache.val[x]]
      BY <1>1, <3>2, InsertAgrees
    <3> QED BY <3>3, <3>4 DEF v
  <2>3. TypeOK'
    BY <1>6, <2>2 DEF TypeOK, PutInsert, Phases, Holding, Agrees, CacheType
  <2>4. MutexExclusive'
    BY <1>6 DEF MutexExclusive, PutInsert, Holding, TypeOK
  <2>5. \A d \in Clients : /\ pc[d] # "evicting"
                           /\ pc'[d] = "evicting" <=> d = c
    BY <1>6 DEF MutexExclusive, PutInsert, Holding, TypeOK
  <2>6. ListMatchesMap'
    BY <2>2 DEF ListMatchesMap, Agrees, Distinct
  <2>7. Len(cache.order) <= Cap /\ Len(cache.order) \in Nat
    BY <1>1, <2>5, CacheTypeParts DEF BoundedOutsidePut, Agrees
  <2>8. BoundedOutsidePut'
    BY <2>2, <2>5, <2>7, CapAssumption DEF BoundedOutsidePut
  <2>9. arg' = arg
    BY <1>6 DEF PutInsert
  <2>10. PutIsPinned' /\ PinnedInFront'
    BY <2>2, <2>5, <2>9 DEF PutIsPinned, PinnedInFront
  <2> QED BY <2>3, <2>4, <2>6, <2>8, <2>10
<1>7. ASSUME NEW c \in Clients, PutEvict(c)  PROVE IInv'
  <2>1. Len(cache.order) \in Nat /\ Len(cache.order) > 1 /\ Len(cache.order) = Cap + 1
    BY <1>1, <1>7, CapAssumption, CacheTypeParts
       DEF BoundedOutsidePut, PutEvict, Agrees
  <2>2. /\ Agrees(cache')
        /\ Len(cache'.order) = Len(cache.order) - 1
        /\ cache'.order[1] = cache.order[1]
        /\ Back(cache.order) # cache.order[1]
        /\ cache'.val = [x \in DOMAIN cache.val \ {Back(cache.order)} |-> cache.val[x]]
    <3>1. cache' = DropBack(cache)
      BY <1>7 DEF PutEvict
    <3>2. Len(cache.order) > 0
      BY <2>1
    <3> QED BY <1>1, <2>1, <3>1, <3>2, DropBackAgrees, Zenon
  <2>3. TypeOK'
    BY <1>7, <2>2 DEF TypeOK, PutEvict, Agrees, CacheType
  <2>4. MutexExclusive'
    BY <1>7 DEF MutexExclusive, PutEvict
  <2>5. ListMatchesMap'
    BY <2>2 DEF ListMatchesMap, Agrees, Distinct
  <2>6. BoundedOutsidePut'
    BY <2>1, <2>2, CapAssumption DEF BoundedOutsidePut
  <2>7. UNCHANGED <<pc, arg>>
    BY <1>7 DEF PutEvict
  <2>8. PinnedInFront'
    BY <2>1, <2>2, <2>7, CapAssumption DEF PinnedInFront
  <2>9. PutIsPinned'
    BY <2>2, <2>7 DEF PutIsPinned, PinnedInFront
  <2> QED BY <2>3, <2>4, <2>5, <2>6, <2>8, <2>9
<1>8. ASSUME NEW c \in Clients, PutReturn(c)  PROVE IInv'
  <2>1. TypeOK'
    BY <1>8 DEF TypeOK, PutReturn, Unlock, Phases, Holding
  <2>2. MutexExclusive'
    BY <1>8, ClientAssumption DEF MutexExclusive, PutReturn, Unlock, Holding, TypeOK
  <2> QED BY <1>2, <1>8, <2>1, <2>2 DEF PutReturn, Unlock, TypeOK
<1>9. ASSUME NEW c \in Clients, ReadLen(c)  PROVE IInv'
  <2>1. Len(cache.order) \in Nat
    BY <1>1, CacheTypeParts DEF Agrees
  <2>2. TypeOK'
    BY <1>9, <2>1 DEF TypeOK, ReadLen
  <2>3. MutexExclusive'
    BY <1>9 DEF MutexExclusive, ReadLen
  <2> QED BY <1>2, <1>9, <2>2, <2>3 DEF ReadLen
<1>10. CASE UNCHANGED vars
  BY <1>2, <1>10 DEF vars, TypeOK, MutexExclusive
<1> QED
  BY <1>3, <1>4, <1>5, <1>6, <1>7, <1>8, <1>9, <1>10 DEF Next, Step

LEMMA Invariance == Spec => []IInv
BY InitEstablishes, StepPreserves, PTL DEF Spec

(* Type correctness of the memo, for every instance. *)
THEOREM TypeCorrect == Spec => []TypeOK
BY Invariance, PTL DEF IInv

(* The recency list and the map hold the same keys, each once: no sequence   *)
(* of hits, overwrites and evictions leaks an entry or orphans a list node.  *)
THEOREM ListAndMapAgree == Spec => []ListMatchesMap
BY Invariance, PTL DEF IInv

(* The memo is bounded by its capacity except inside Put's eviction loop. *)
THEOREM MemoIsBounded == Spec => []BoundedOutsidePut
BY Invariance, PTL DEF IInv

(* An eviction never takes the decision the same Put has just pinned. *)
THEOREM PutPins == Spec => []PutIsPinned
BY Invariance, PTL DEF IInv

(* Len, read without the mutex, is off by at most one entry. *)
THEOREM LenIsOffByAtMostOne == Spec => []LenOffByAtMostOne
<1>1. Init => LenOffByAtMostOne
  BY CapAssumption DEF Init, LenOffByAtMostOne
<1>2. IInv /\ LenOffByAtMostOne /\ [Next]_vars => LenOffByAtMostOne'
  <2> SUFFICES ASSUME IInv, LenOffByAtMostOne, [Next]_vars
               PROVE  LenOffByAtMostOne'
    OBVIOUS
  <2> USE DEF LenOffByAtMostOne
  <2>1. ASSUME NEW c \in Clients, ReadLen(c)  PROVE LenOffByAtMostOne'
    <3>1. Len(cache.order) <= Cap + 1
      BY CapAssumption DEF IInv, BoundedOutsidePut, TypeOK
    <3>2. seen' = [seen EXCEPT ![c] = Len(cache.order)] /\ seen \in [Clients -> Nat]
      BY <2>1 DEF ReadLen, IInv, TypeOK
    <3> QED BY <3>1, <3>2
  <2>2. ASSUME NEW c \in Clients, CallGet(c) \/ CallPut(c) \/ Step(c)  PROVE UNCHANGED seen
    BY <2>2 DEF CallGet, CallPut, Call, Step, Lock, Get, PutInsert, PutEvict, PutReturn
  <2> QED BY <2>1, <2>2 DEF Next, vars
<1> QED BY <1>1, <1>2, Invariance, PTL DEF Spec
-----------------------------------------------------------------------------
(* What maps the memo to LRUCache: no key is both kept and evicted, nothing  *)
(* is evicted while there is room, and the last decision pinned for a key    *)
(* that is kept is the one kept.                                             *)
Remembers ==
  /\ evicted \in Seq(Keys)
  /\ Distinct(cache.order \o evicted)
  /\ evicted = <<>> \/ Len(cache.order) >= Cap
  /\ DOMAIN latest = Listed(cache.order \o evicted)
  /\ \A k \in DOMAIN cache.val : latest[k] = cache.val[k]

LEMMA PosOfIs ==
  ASSUME NEW S, NEW order \in Seq(S), Distinct(order), NEW i \in 1 .. Len(order)
  PROVE  PosOf(order, order[i]) = i
<1>1. PosOf(order, order[i]) \in DOMAIN order
      /\ order[PosOf(order, order[i])] = order[i]
  BY DEF PosOf
<1> QED BY <1>1 DEF Distinct

LEMMA ConcatParts ==
  ASSUME NEW S, NEW s \in Seq(S), NEW t \in Seq(S)
  PROVE  /\ s \o t \in Seq(S)
         /\ Len(s \o t) = Len(s) + Len(t)
         /\ \A i \in 1 .. Len(s) : (s \o t)[i] = s[i]
         /\ \A i \in 1 .. Len(t) : (s \o t)[Len(s) + i] = t[i]
         /\ \A i \in Len(s) + 1 .. Len(s) + Len(t) : (s \o t)[i] = t[i - Len(s)]
OBVIOUS

(* A concatenation lists what its two parts list, and is without repetition  *)
(* only if they are, and are apart.                                          *)
LEMMA ConcatLists ==
  ASSUME NEW S, NEW s \in Seq(S), NEW t \in Seq(S)
  PROVE  /\ Listed(s \o t) = Listed(s) \cup Listed(t)
         /\ Distinct(s \o t) =>
              Distinct(s) /\ Distinct(t) /\ Listed(s) \cap Listed(t) = {}
<1> DEFINE r == s \o t
<1>1. /\ r \in Seq(S)
      /\ Len(r) = Len(s) + Len(t)
      /\ \A i \in 1 .. Len(s) : r[i] = s[i]
      /\ \A i \in 1 .. Len(t) : r[Len(s) + i] = t[i]
      /\ \A i \in Len(s) + 1 .. Len(s) + Len(t) : r[i] = t[i - Len(s)]
  BY ConcatParts
<1> HIDE DEF r
<1>2. PICK m \in Nat, n \in Nat : m = Len(s) /\ n = Len(t)
  OBVIOUS
<1>3. /\ \A i \in 1 .. m : i \in 1 .. m + n /\ r[i] = s[i]
      /\ \A i \in 1 .. n : m + i \in 1 .. m + n /\ r[m + i] = t[i]
      /\ \A i \in 1 .. m + n : \/ i \in 1 .. m /\ r[i] = s[i]
                               \/ i - m \in 1 .. n /\ r[i] = t[i - m]
  BY <1>1, <1>2
<1>4. \A x : /\ x \in Listed(r) <=> \E i \in 1 .. m + n : r[i] = x
             /\ x \in Listed(s) <=> \E i \in 1 .. m : s[i] = x
             /\ x \in Listed(t) <=> \E i \in 1 .. n : t[i] = x
  BY SMTT(20), <1>1, <1>2, ListedElements
<1>5. Listed(r) = Listed(s) \cup Listed(t)
  <2>1. \A x : x \in Listed(r) <=> x \in Listed(s) \/ x \in Listed(t)
    BY <1>3, <1>4
  <2> QED BY <2>1
<1>6. ASSUME Distinct(r)
      PROVE  Distinct(s) /\ Distinct(t) /\ Listed(s) \cap Listed(t) = {}
  <2>1. \A i, j \in 1 .. m + n : r[i] = r[j] => i = j
    <3>1. Len(r) = m + n
      BY <1>1, <1>2
    <3>2. \A i, j \in 1 .. Len(r) : r[i] = r[j] => i = j
      BY <1>1, <1>6, DistinctElements
    <3> QED BY <3>1, <3>2
  <2>2. \A i, j \in 1 .. m : s[i] = s[j] => i = j
    BY <1>3, <2>1
  <2>3. \A i, j \in 1 .. n : t[i] = t[j] => i = j
    BY <1>3, <2>1
  <2>4. \A i \in 1 .. m, j \in 1 .. n : s[i] # t[j]
    BY <1>3, <2>1
  <2>5. Distinct(s) /\ Distinct(t)
    BY <1>2, <2>2, <2>3, DistinctElements
  <2> QED BY <1>4, <2>4, <2>5
<1> QED BY <1>5, <1>6 DEF r

(* A use of a kept key moves it to the front of the whole history. *)
LEMMA UseOfKept ==
  ASSUME NEW S, NEW s \in Seq(S), NEW t \in Seq(S), Distinct(s \o t),
         NEW k \in Listed(s)
  PROVE  MoveToFront(s, k) \o t = MoveToFront(s \o t, k)
<1> DEFINE r == s \o t
           a == MoveToFront(s, k)
           b == MoveToFront(r, k)
           c == a \o t
<1>1. /\ r \in Seq(S)
      /\ Len(r) = Len(s) + Len(t)
      /\ \A i \in 1 .. Len(s) : r[i] = s[i]
      /\ \A i \in Len(s) + 1 .. Len(s) + Len(t) : r[i] = t[i - Len(s)]
  BY ConcatParts
<1>2. Distinct(r) /\ Distinct(s) /\ k \in Listed(r)
  BY ConcatLists
<1>3. a \in Seq(S) /\ Len(a) = Len(s)
  BY <1>2, MoveToFrontPermutes
<1>4. b \in Seq(S) /\ Len(b) = Len(r)
  BY <1>1, <1>2, MoveToFrontPermutes
<1>5. PICK p \in 1 .. Len(s) : s[p] = k
  BY ListedElements
<1>6. PosOf(s, k) = p
  BY <1>2, <1>5, PosOfIs
<1>7. PosOf(r, k) = p
  <2>1. p \in 1 .. Len(r) /\ r[p] = k
    BY <1>1, <1>5
  <2> QED BY <1>1, <1>2, <2>1, PosOfIs
<1>8. \A i \in 1 .. Len(s) :
        a[i] = IF i = 1 THEN k ELSE IF i <= p THEN s[i - 1] ELSE s[i]
  BY <1>6 DEF MoveToFront
<1>9. \A i \in 1 .. Len(r) :
        b[i] = IF i = 1 THEN k ELSE IF i <= p THEN r[i - 1] ELSE r[i]
  BY <1>1, <1>7 DEF MoveToFront
<1> HIDE DEF r, a, b
<1>10. /\ c \in Seq(S)
       /\ Len(c) = Len(a) + Len(t)
       /\ \A i \in 1 .. Len(a) : c[i] = a[i]
       /\ \A i \in Len(a) + 1 .. Len(a) + Len(t) : c[i] = t[i - Len(a)]
  BY <1>3, ConcatParts
<1> HIDE DEF c
<1>11. PICK m \in Nat, n \in Nat : m = Len(s) /\ n = Len(t)
  OBVIOUS
<1>12. \A i \in 1 .. m + n : c[i] = b[i]
  <2> SUFFICES ASSUME NEW i \in 1 .. m + n  PROVE c[i] = b[i]
    OBVIOUS
  <2>1. CASE i <= m
    <3>1. /\ c[i] = IF i = 1 THEN k ELSE IF i <= p THEN s[i - 1] ELSE s[i]
          /\ b[i] = IF i = 1 THEN k ELSE IF i <= p THEN r[i - 1] ELSE r[i]
          /\ r[i] = s[i]
      BY <1>1, <1>3, <1>8, <1>9, <1>10, <1>11, <2>1
    <3>2. i # 1 => r[i - 1] = s[i - 1]
      BY <1>1, <1>11, <2>1
    <3> QED BY <3>1, <3>2
  <2>2. CASE i > m
    <3>1. p <= m /\ i # 1 /\ ~(i <= p) /\ i \in m + 1 .. m + n
      BY <1>5, <1>11, <2>2
    <3>2. c[i] = t[i - m]
      BY <1>3, <1>10, <1>11, <3>1
    <3>3. b[i] = r[i] /\ r[i] = t[i - m]
      BY <1>1, <1>9, <1>11, <3>1
    <3> QED BY <3>2, <3>3
  <2> QED BY <2>1, <2>2
<1>13. c = b
  BY <1>1, <1>3, <1>4, <1>10, <1>11, <1>12, SeqEqual
<1> QED BY <1>13 DEF a, b, c, r

LEMMA WithoutRemoves ==
  ASSUME NEW S, NEW t \in Seq(S), Distinct(t), NEW q \in 1 .. Len(t)
  PROVE  /\ Without(t, t[q]) \in Seq(S)
         /\ Len(Without(t, t[q])) = Len(t) - 1
         /\ \A i \in 1 .. Len(t) - 1 :
              Without(t, t[q])[i] = IF i < q THEN t[i] ELSE t[i + 1]
<1>1. PosOf(t, t[q]) = q /\ t[q] \in Listed(t)
  BY PosOfIs, ListedElements
<1>2. PICK n \in Nat : n = Len(t) - 1
  OBVIOUS
<1>3. Without(t, t[q]) = [i \in 1 .. n |-> IF i < q THEN t[i] ELSE t[i + 1]]
  BY <1>1, <1>2 DEF Without
<1>4. \A i \in 1 .. n : t[i] \in S /\ t[i + 1] \in S
  BY <1>2
<1> QED BY <1>2, <1>3, <1>4

(* A Put of an evicted key takes it from among the evicted to the front. *)
LEMMA UseOfEvicted ==
  ASSUME NEW S, NEW s \in Seq(S), NEW t \in Seq(S), Distinct(s \o t),
         NEW k \in Listed(t)
  PROVE  /\ Without(t, k) \in Seq(S)
         /\ PushFront(s, k) \o Without(t, k) = MoveToFront(s \o t, k)
<1> DEFINE r == s \o t
           a == PushFront(s, k)
           w == Without(t, k)
           b == MoveToFront(r, k)
           c == a \o w
<1>1. /\ r \in Seq(S)
      /\ Len(r) = Len(s) + Len(t)
      /\ \A i \in 1 .. Len(s) : r[i] = s[i]
      /\ \A i \in Len(s) + 1 .. Len(s) + Len(t) : r[i] = t[i - Len(s)]
  BY ConcatParts
<1>2. Distinct(r) /\ Distinct(t) /\ k \in Listed(r)
  BY ConcatLists
<1>3. PICK q \in 1 .. Len(t) : t[q] = k
  BY ListedElements
<1>4. /\ a \in Seq(S)
      /\ Len(a) = Len(s) + 1
      /\ a[1] = k
      /\ \A i \in 2 .. Len(s) + 1 : a[i] = s[i - 1]
  BY <1>3 DEF PushFront
<1>5. /\ w \in Seq(S)
      /\ Len(w) = Len(t) - 1
      /\ \A i \in 1 .. Len(t) - 1 : w[i] = IF i < q THEN t[i] ELSE t[i + 1]
  BY <1>2, <1>3, WithoutRemoves
<1>6. b \in Seq(S) /\ Len(b) = Len(r)
  BY <1>1, <1>2, MoveToFrontPermutes
<1>7. PosOf(r, k) = Len(s) + q
  <2>1. Len(s) + q \in 1 .. Len(r) /\ r[Len(s) + q] = k
    BY <1>1, <1>3
  <2> QED BY <1>1, <1>2, <2>1, PosOfIs
<1>8. \A i \in 1 .. Len(r) :
        b[i] = IF i = 1 THEN k ELSE IF i <= Len(s) + q THEN r[i - 1] ELSE r[i]
  BY <1>1, <1>7 DEF MoveToFront
<1> HIDE DEF r, a, b, w
<1>9. /\ c \in Seq(S)
      /\ Len(c) = Len(a) + Len(w)
      /\ \A i \in 1 .. Len(a) : c[i] = a[i]
      /\ \A i \in Len(a) + 1 .. Len(a) + Len(w) : c[i] = w[i - Len(a)]
  BY <1>4, <1>5, ConcatParts
<1> HIDE DEF c
<1>10. PICK m \in Nat, n \in Nat : m = Len(s) /\ n = Len(t)
  OBVIOUS
<1>11. \A i \in 1 .. m + n : c[i] = b[i]
  <2> SUFFICES ASSUME NEW i \in 1 .. m + n  PROVE c[i] = b[i]
    OBVIOUS
  <2>1. CASE i = 1
    BY <1>1, <1>4, <1>8, <1>9, <1>10, <2>1
  <2>2. CASE i > 1 /\ i <= m + 1
    <3>1. c[i] = s[i - 1]
      BY <1>4, <1>9, <1>10, <2>2
    <3>2. b[i] = r[i - 1]
      BY <1>1, <1>8, <1>10, <2>2
    <3> QED BY <1>1, <1>10, <2>2, <3>1, <3>2
  <2>3. CASE i > m + 1 /\ i <= m + q
    <3>1. c[i] = w[i - (m + 1)] /\ i - (m + 1) \in 1 .. n - 1 /\ i - (m + 1) < q
      BY <1>4, <1>5, <1>9, <1>10, <2>3
    <3>2. c[i] = t[i - (m + 1)]
      BY <1>5, <1>10, <3>1
    <3>3. b[i] = r[i - 1] /\ i - 1 \in m + 1 .. m + n
      BY <1>1, <1>8, <1>10, <2>3
    <3>4. r[i - 1] = t[(i - 1) - m] /\ (i - 1) - m = i - (m + 1)
      BY <1>1, <1>10, <3>3
    <3> QED BY <3>2, <3>3, <3>4
  <2>4. CASE i > m + q
    <3>1. c[i] = w[i - (m + 1)] /\ i - (m + 1) \in 1 .. n - 1 /\ ~ (i - (m + 1) < q)
      BY <1>4, <1>5, <1>9, <1>10, <2>4
    <3>2. c[i] = t[i - m]
      <4>1. PICK j \in 1 .. n - 1 : j = i - (m + 1)
        BY <3>1
      <4>2. w[j] = IF j < q THEN t[j] ELSE t[j + 1]
        BY <1>5, <1>10
      <4>3. ~ (j < q) /\ j + 1 = i - m
        BY <3>1, <4>1
      <4> QED BY <3>1, <4>1, <4>2, <4>3
    <3>3. b[i] = r[i] /\ i \in m + 1 .. m + n
      BY <1>1, <1>8, <1>10, <2>4
    <3> QED BY <1>1, <1>10, <3>2, <3>3
  <2> QED BY <1>10, <2>1, <2>2, <2>3, <2>4
<1>12. c = b
  BY <1>1, <1>4, <1>5, <1>6, <1>9, <1>10, <1>11, SeqEqual
<1> QED BY <1>5, <1>12 DEF a, b, c, r, w

(* What a use of a key does to the history: LRUCache's Touched. *)
Used(order, k) == IF k \in Listed(order) THEN MoveToFront(order, k)
                                         ELSE PushFront(order, k)

LEMMA UsedAdds ==
  ASSUME NEW S, NEW order \in Seq(S), Distinct(order), NEW k \in S
  PROVE  /\ Used(order, k) \in Seq(S)
         /\ Listed(Used(order, k)) = Listed(order) \cup {k}
         /\ Distinct(Used(order, k))
<1>1. CASE k \in Listed(order)
  BY <1>1, MoveToFrontPermutes DEF Used
<1>2. CASE k \notin Listed(order)
  BY <1>2, PushFrontAdds DEF Used
<1> QED BY <1>1, <1>2

LEMMA PutUses ==
  ASSUME NEW S, NEW s \in Seq(S), NEW t \in Seq(S), Distinct(s \o t), NEW k \in S
  PROVE  /\ Without(t, k) \in Seq(S)
         /\ Used(s, k) \o Without(t, k) = Used(s \o t, k)
<1>1. Listed(s \o t) = Listed(s) \cup Listed(t) /\ Listed(s) \cap Listed(t) = {}
  BY ConcatLists
<1>2. CASE k \in Listed(s)
  <2>1. Without(t, k) = t
    BY <1>1, <1>2 DEF Without
  <2> QED BY <1>1, <1>2, <2>1, UseOfKept DEF Used
<1>3. CASE k \in Listed(t)
  <2>1. Used(s, k) = PushFront(s, k) /\ Used(s \o t, k) = MoveToFront(s \o t, k)
    BY <1>1, <1>3 DEF Used
  <2> QED BY <1>3, <2>1, UseOfEvicted
<1>4. CASE k \notin Listed(s) \cup Listed(t)
  <2>1. Without(t, k) = t
    BY <1>4 DEF Without
  <2>2. Used(s, k) = <<k>> \o s /\ Used(s \o t, k) = <<k>> \o (s \o t)
    BY <1>1, <1>4 DEF Used, PushFront
  <2>3. (<<k>> \o s) \o t = <<k>> \o (s \o t)
    OBVIOUS
  <2> QED BY <2>1, <2>2, <2>3
<1> QED BY <1>2, <1>3, <1>4

(* An eviction moves the border between kept and evicted, and nothing else. *)
LEMMA EvictionMovesBorder ==
  ASSUME NEW S, NEW s \in Seq(S), NEW t \in Seq(S), Len(s) > 0
  PROVE  /\ PushFront(t, Back(s)) \in Seq(S)
         /\ SubSeq(s, 1, Len(s) - 1) \o PushFront(t, Back(s)) = s \o t
<1> DEFINE a == SubSeq(s, 1, Len(s) - 1)
           b == PushFront(t, Back(s))
           c == a \o b
           r == s \o t
<1>1. PICK m \in Nat, n \in Nat : m = Len(s) - 1 /\ n = Len(t)
  <2>1. Len(s) - 1 \in Nat /\ Len(t) \in Nat
    OBVIOUS
  <2> QED BY <2>1
<1>2. /\ r \in Seq(S)
      /\ Len(r) = Len(s) + Len(t)
      /\ \A i \in 1 .. Len(s) : r[i] = s[i]
      /\ \A i \in Len(s) + 1 .. Len(s) + Len(t) : r[i] = t[i - Len(s)]
  BY ConcatParts
<1>3. /\ a \in Seq(S)
      /\ Len(a) = m
      /\ \A i \in 1 .. m : a[i] = s[i]
  <2>1. a = SubSeq(s, 1, m)
    BY <1>1
  <2>2. 1 \in Int /\ m \in Int /\ \A i \in 1 .. m : s[i] \in S
    BY <1>1
  <2> HIDE DEF a
  <2>3. /\ SubSeq(s, 1, m) \in Seq(S)
        /\ Len(SubSeq(s, 1, m)) = IF 1 <= m THEN m - 1 + 1 ELSE 0
        /\ \A i \in 1 .. m - 1 + 1 : SubSeq(s, 1, m)[i] = s[1 + i - 1]
    BY ONLY <2>2, SubSeqProperties
  <2>4. \A i \in 1 .. m : i \in 1 .. m - 1 + 1 /\ 1 + i - 1 = i
    BY <1>1
  <2>5. Len(a) = m
    BY <1>1, <2>1, <2>3
  <2>6. ASSUME NEW i \in 1 .. m  PROVE a[i] = s[i]
    BY <2>1, <2>3, <2>4
  <2> QED BY <2>1, <2>3, <2>5, <2>6
<1>4. /\ b \in Seq(S)
      /\ Len(b) = n + 1
      /\ b[1] = s[m + 1]
      /\ \A i \in 2 .. n + 1 : b[i] = t[i - 1]
  BY <1>1 DEF PushFront, Back
<1> HIDE DEF a, b, r
<1>5. /\ c \in Seq(S)
      /\ Len(c) = Len(a) + Len(b)
      /\ \A i \in 1 .. Len(a) : c[i] = a[i]
      /\ \A i \in Len(a) + 1 .. Len(a) + Len(b) : c[i] = b[i - Len(a)]
  BY ZenonT(20), <1>3, <1>4, ConcatParts
<1> HIDE DEF c
<1>6. \A i \in 1 .. m + n + 1 : c[i] = r[i]
  <2> SUFFICES ASSUME NEW i \in 1 .. m + n + 1  PROVE c[i] = r[i]
    OBVIOUS
  <2>1. CASE i <= m
    BY <1>1, <1>2, <1>3, <1>5, <2>1
  <2>2. CASE i = m + 1
    BY <1>1, <1>2, <1>3, <1>4, <1>5, <2>2
  <2>3. CASE i > m + 1
    <3>1. c[i] = b[i - m] /\ i - m \in 2 .. n + 1
      BY <1>1, <1>3, <1>4, <1>5, <2>3
    <3>2. c[i] = t[(i - m) - 1]
      BY <1>4, <3>1
    <3>3. r[i] = t[i - (m + 1)] /\ i - (m + 1) = (i - m) - 1
      BY <1>1, <1>2, <2>3
    <3> QED BY <3>2, <3>3
  <2> QED BY <1>1, <2>1, <2>2, <2>3
<1>7. c = r
  <2>1. Len(c) = m + n + 1 /\ Len(r) = m + n + 1
    BY <1>1, <1>2, <1>3, <1>4, <1>5
  <2> QED BY <1>1, <1>2, <1>5, <1>6, <2>1, SeqEqual
<1> QED BY <1>4, <1>7 DEF a, b, c, r
-----------------------------------------------------------------------------
LEMMA HistoryOnlyWatches == HistSpec => Spec
<1>1. HistInit => Init
  BY DEF HistInit
<1>2. [HistNext]_histVars => [Next]_vars
  BY DEF HistNext, HistPutInsert, HistPutEvict, HistRest, histVars, Next, Step
<1> QED BY <1>1, <1>2, PTL DEF HistSpec, Spec

LEMMA RemembersAtFirst == HistInit => Remembers
<1> SUFFICES ASSUME HistInit  PROVE Remembers
  OBVIOUS
<1>1. /\ cache.order = <<>> /\ evicted = <<>>
      /\ DOMAIN cache.val = {} /\ DOMAIN latest = {}
  BY DEF HistInit, Init, EmptyCache
<1>2. cache.order \o evicted = <<>>
  BY <1>1
<1> QED BY <1>1, <1>2 DEF Remembers, Distinct, Listed

LEMMA HistoryFacts ==
  ASSUME IInv, Remembers
  PROVE  /\ cache.order \in Seq(Keys)
         /\ evicted \in Seq(Keys)
         /\ cache.order \o evicted \in Seq(Keys)
         /\ Distinct(cache.order \o evicted)
         /\ Listed(cache.order) = DOMAIN cache.val
         /\ Listed(cache.order \o evicted) = Listed(cache.order) \cup Listed(evicted)
         /\ DOMAIN latest = Listed(cache.order \o evicted)
         /\ Agrees(cache)
<1>1. Agrees(cache)
  BY CacheAgrees DEF IInv
<1>2. cache.order \in Seq(Keys) /\ evicted \in Seq(Keys)
  BY <1>1, CacheTypeParts DEF Agrees, Remembers
<1>3. /\ cache.order \o evicted \in Seq(Keys)
      /\ Listed(cache.order \o evicted) = Listed(cache.order) \cup Listed(evicted)
  BY <1>2, ConcatLists, ConcatParts
<1> QED BY <1>1, <1>2, <1>3 DEF Agrees, Remembers

LEMMA TouchedIsUsed ==
  ASSUME NEW k
  PROVE  LRU!Touched(k) = Used(cache.order \o evicted, k)
BY DEF LRU!Touched, LRU!Listed, LRU!MoveToFront, LRU!PushFront, LRU!PosOf,
       Used, Listed, MoveToFront, PushFront, PosOf

(* While nobody is evicting, what LRUCache serves is what the memo keeps. *)
LEMMA ServedIsKept ==
  ASSUME IInv, Remembers, Len(cache.order) <= Cap
  PROVE  LRU!Served = DOMAIN cache.val
<1> DEFINE r == cache.order \o evicted
<1>1. cache.order \in Seq(Keys) /\ evicted \in Seq(Keys)
      /\ Listed(cache.order) = DOMAIN cache.val
  BY HistoryFacts
<1>2. PICK m \in Nat, n \in Nat : m = Len(cache.order) /\ n = Len(evicted)
  <2>1. Len(cache.order) \in Nat /\ Len(evicted) \in Nat
    BY <1>1
  <2> QED BY <2>1
<1>3. r \in Seq(Keys) /\ Len(r) = m + n /\ \A i \in 1 .. m : r[i] = cache.order[i]
  BY <1>1, <1>2, ConcatParts
<1>4. n = 0 \/ m = Cap
  <2>1. evicted = <<>> \/ m >= Cap
    BY <1>2 DEF Remembers
  <2>2. evicted = <<>> => n = 0
    BY <1>2
  <2> QED BY <1>2, <2>1, <2>2, CapAssumption
<1>5. LRU!Served = {r[i] : i \in {j \in DOMAIN r : j <= Cap}}
  BY DEF LRU!Served
<1> HIDE DEF r
<1>6. {j \in DOMAIN r : j <= Cap} = 1 .. m
  BY <1>2, <1>3, <1>4, CapAssumption
<1>7. LRU!Served = {cache.order[i] : i \in 1 .. m}
  BY <1>3, <1>5, <1>6
<1>8. DOMAIN cache.order = 1 .. m
  BY <1>1, <1>2
<1> QED BY <1>1, <1>7, <1>8 DEF Listed

LEMMA NobodyEvicting ==
  ASSUME IInv, NEW c \in Clients, pc[c] \in {"getting", "inserting"}
  PROVE  Len(cache.order) <= Cap
<1>1. \A d \in Clients : pc[d] # "evicting"
  BY DEF IInv, MutexExclusive, Holding, TypeOK
<1> QED BY <1>1 DEF IInv, BoundedOutsidePut
-----------------------------------------------------------------------------
LRUStep == [LRU!Next]_<<cache.order \o evicted, latest, ret>>

LEMMA InsertIsPin ==
  ASSUME IInv, IInv', Remembers, NEW c \in Clients, HistPutInsert(c)
  PROVE  Remembers' /\ LRUStep
<1> DEFINE k == arg[c].key
           v == arg[c].val
           r == cache.order \o evicted
<1>1. k \in Keys /\ v \in Values
  BY DEF HistPutInsert, PutInsert, IInv, TypeOK
<1>2. /\ cache' = Insert(cache, k, v)
      /\ evicted' = Without(evicted, k)
      /\ latest' = [x \in DOMAIN latest \cup {k} |-> IF x = k THEN v ELSE latest[x]]
      /\ ret' = ret
  BY DEF HistPutInsert, PutInsert
<1> HIDE DEF k, v
<1>3. /\ cache.order \in Seq(Keys)
      /\ evicted \in Seq(Keys)
      /\ r \in Seq(Keys)
      /\ Distinct(r)
      /\ Listed(cache.order) = DOMAIN cache.val
      /\ Listed(r) = Listed(cache.order) \cup Listed(evicted)
      /\ DOMAIN latest = Listed(r)
      /\ Agrees(cache)
  BY HistoryFacts
<1>4. cache'.order = Used(cache.order, k)
  BY <1>2, <1>3 DEF Insert, Used
<1>5. evicted' \in Seq(Keys) /\ (cache.order \o evicted)' = Used(r, k)
  <2>1. /\ Without(evicted, k) \in Seq(Keys)
        /\ Used(cache.order, k) \o Without(evicted, k) = Used(r, k)
    BY <1>1, <1>3, PutUses
  <2> QED BY <1>2, <1>4, <2>1
<1>6. /\ Used(r, k) \in Seq(Keys)
      /\ Listed(Used(r, k)) = Listed(r) \cup {k}
      /\ Distinct(Used(r, k))
  BY <1>1, <1>3, UsedAdds
<1>7. evicted' = <<>> \/ Len(cache'.order) >= Cap
  <2>1. Len(cache'.order) >= Len(cache.order)
    <3>1. Len(Insert(cache, k, v).order) \in {Len(cache.order), Len(cache.order) + 1}
      BY <1>1, <1>3, InsertAgrees
    <3>2. Len(cache.order) \in Nat
      BY <1>3
    <3> QED BY <1>2, <3>1, <3>2
  <2>2. CASE evicted = <<>>
    <3>1. k \notin Listed(evicted)
      BY <2>2 DEF Listed
    <3> QED BY <1>2, <2>2, <3>1 DEF Without
  <2>3. CASE Len(cache.order) >= Cap
    <3>1. Len(cache.order) \in Nat
      BY <1>3
    <3>2. cache'.order \in Seq(Keys)
      BY <1>1, <1>2, <1>3, InsertAgrees, CacheTypeParts DEF Agrees
    <3>3. Len(cache'.order) \in Nat
      BY <3>2
    <3> QED BY <2>1, <2>3, <3>1, <3>3, CapAssumption
  <2> QED BY <2>2, <2>3 DEF Remembers
<1>8. \A x \in DOMAIN cache'.val : latest'[x] = cache'.val[x]
  <2>1. cache'.val = [x \in DOMAIN cache.val \cup {k} |-> IF x = k THEN v ELSE cache.val[x]]
    BY <1>2 DEF Insert
  <2>2. \A x \in DOMAIN cache.val : x \in DOMAIN latest /\ latest[x] = cache.val[x]
    BY <1>3 DEF Remembers
  <2> QED BY <1>2, <2>1, <2>2
<1>9. Remembers'
  <2>1. DOMAIN latest' = Listed(r) \cup {k}
    BY <1>2, <1>3
  <2> QED BY <1>5, <1>6, <1>7, <1>8, <2>1 DEF Remembers
<1>10. LRU!Pin(k, v)
  <2>1. (cache.order \o evicted)' = LRU!Touched(k)
    BY <1>5, TouchedIsUsed
  <2> QED BY <1>2, <2>1 DEF LRU!Pin
<1> QED BY <1>1, <1>9, <1>10 DEF LRUStep, LRU!Next

LEMMA EvictionIsNoStep ==
  ASSUME IInv, IInv', Remembers, NEW c \in Clients, HistPutEvict(c)
  PROVE  Remembers' /\ LRUStep
<1>1. /\ cache' = DropBack(cache)
      /\ Len(cache.order) > Cap
      /\ evicted' = PushFront(evicted, Back(cache.order))
      /\ latest' = latest
      /\ ret' = ret
  BY DEF HistPutEvict, PutEvict
<1>2. /\ cache.order \in Seq(Keys)
      /\ evicted \in Seq(Keys)
      /\ Agrees(cache)
  BY HistoryFacts
<1>3. Len(cache.order) \in Nat /\ Len(cache.order) > 0
  BY <1>1, <1>2, CapAssumption
<1>4. cache'.order = SubSeq(cache.order, 1, Len(cache.order) - 1)
  BY <1>1 DEF DropBack
<1>5. evicted' \in Seq(Keys) /\ (cache.order \o evicted)' = cache.order \o evicted
  BY <1>1, <1>2, <1>3, <1>4, EvictionMovesBorder
<1>6. Len(cache'.order) >= Cap
  <2>1. Len(cache'.order) = Len(cache.order) - 1
    BY <1>1, <1>2, <1>3, DropBackAgrees
  <2> QED BY <1>1, <1>3, <2>1, CapAssumption
<1>7. \A x \in DOMAIN cache'.val : latest'[x] = cache'.val[x]
  <2>1. cache'.val = [x \in DOMAIN cache.val \ {Back(cache.order)} |-> cache.val[x]]
    BY <1>1 DEF DropBack
  <2> QED BY <1>1, <2>1 DEF Remembers
<1>8. Remembers'
  BY <1>1, <1>5, <1>6, <1>7 DEF Remembers
<1> QED BY <1>1, <1>5, <1>8 DEF LRUStep

LEMMA GetIsServed ==
  ASSUME IInv, IInv', Remembers, NEW c \in Clients, Get(c),
         UNCHANGED <<evicted, latest>>
  PROVE  Remembers' /\ LRUStep
<1> DEFINE k == arg[c].key
           r == cache.order \o evicted
<1>1. k \in Keys
  BY DEF Get, IInv, TypeOK
<1>2. /\ cache' = Lookup(cache, k)
      /\ ret' = [ret EXCEPT ![c] = Answer(cache, k)]
      /\ evicted' = evicted
      /\ latest' = latest
  BY DEF Get
<1>3. LRU!Served = DOMAIN cache.val
  <2>1. pc[c] \in {"getting", "inserting"}
    BY DEF Get
  <2> QED BY <2>1, NobodyEvicting, ServedIsKept
<1> HIDE DEF k
<1>4. /\ cache.order \in Seq(Keys)
      /\ evicted \in Seq(Keys)
      /\ r \in Seq(Keys)
      /\ Distinct(r)
      /\ Listed(cache.order) = DOMAIN cache.val
      /\ Listed(r) = Listed(cache.order) \cup Listed(evicted)
      /\ DOMAIN latest = Listed(r)
      /\ Agrees(cache)
  BY HistoryFacts
<1>5. CASE k \in DOMAIN cache.val
  <2>1. cache' = [order |-> MoveToFront(cache.order, k), val |-> cache.val]
    BY <1>2, <1>4, <1>5, CacheTypeParts DEF Lookup, Agrees
  <2>2. (cache.order \o evicted)' = MoveToFront(r, k)
    <3>1. MoveToFront(cache.order, k) \o evicted = MoveToFront(r, k)
      BY <1>4, <1>5, UseOfKept
    <3> QED BY <1>2, <2>1, <3>1
  <2>3. /\ MoveToFront(r, k) \in Seq(Keys)
        /\ Listed(MoveToFront(r, k)) = Listed(r)
        /\ Distinct(MoveToFront(r, k))
    BY <1>4, <1>5, MoveToFrontPermutes
  <2>4. Len(cache'.order) = Len(cache.order) /\ cache'.val = cache.val
    BY <1>2, <1>1, <1>4, LookupAgrees
  <2>5. Remembers'
    BY <1>2, <1>4, <2>2, <2>3, <2>4 DEF Remembers
  <2>6. MoveToFront(r, k) = LRU!Touched(k)
    BY <1>4, <1>5, TouchedIsUsed DEF Used
  <2>7. Answer(cache, k) = latest[k]
    BY <1>5 DEF Answer, Remembers
  <2>8. LRU!Hit(c, k)
    BY <1>2, <1>3, <1>5, <2>2, <2>6, <2>7 DEF LRU!Hit
  <2> QED BY <1>1, <2>5, <2>8 DEF LRUStep, LRU!Next
<1>6. CASE k \notin DOMAIN cache.val
  <2>1. cache' = cache
    BY <1>2, <1>6 DEF Lookup
  <2>2. Remembers'
    BY <1>2, <2>1 DEF Remembers
  <2>3. Answer(cache, k) = LRU!Miss
    BY <1>6 DEF Answer, Miss, LRU!Miss
  <2>4. LRU!NoHit(c, k)
    BY <1>2, <1>3, <1>6, <2>1, <2>3 DEF LRU!NoHit
  <2> QED BY <1>1, <2>2, <2>4 DEF LRUStep, LRU!Next
<1> QED BY <1>5, <1>6

LEMMA HistStepMaps ==
  IInv /\ IInv' /\ Remembers /\ [HistNext]_histVars => Remembers' /\ LRUStep
<1> SUFFICES ASSUME IInv, IInv', Remembers, [HistNext]_histVars
             PROVE  Remembers' /\ LRUStep
  OBVIOUS
<1>1. ASSUME UNCHANGED <<cache, ret, evicted, latest>>
      PROVE  Remembers' /\ LRUStep
  BY <1>1 DEF Remembers, LRUStep
<1>2. ASSUME NEW c \in Clients, HistRest(c)  PROVE Remembers' /\ LRUStep
  <2>1. CASE Get(c)
    BY <1>2, <2>1, GetIsServed DEF HistRest
  <2>2. CASE CallGet(c) \/ CallPut(c) \/ ReadLen(c) \/ Lock(c) \/ PutReturn(c)
    <3>1. UNCHANGED <<cache, ret>>
      BY <2>2 DEF CallGet, CallPut, Call, ReadLen, Lock, PutReturn
    <3> QED BY <1>1, <1>2, <3>1 DEF HistRest
  <2> QED BY <1>2, <2>1, <2>2 DEF HistRest
<1>3. CASE UNCHANGED histVars
  BY <1>1, <1>3 DEF histVars, vars
<1> QED BY <1>2, <1>3, InsertIsPin, EvictionIsNoStep DEF HistNext

(* The memo implements an LRU cache for every set of keys, values and        *)
(* clients and every capacity: under any interleaving of locked calls a Get  *)
(* is served if and only if its key is among the Cap most recently used, and *)
(* with the last decision pinned for it (memo.go:50-95).                     *)
THEOREM MemoImplementsLRU == HistSpec => ImplementsLRU
<1>1. HistInit => LRU!Init
  <2> SUFFICES ASSUME HistInit  PROVE LRU!Init
    OBVIOUS
  <2>1. cache.order = <<>> /\ evicted = <<>>
    BY DEF HistInit, Init, EmptyCache
  <2>2. cache.order \o evicted = <<>>
    BY <2>1
  <2> QED BY <2>2 DEF HistInit, Init, LRU!Init, Miss, LRU!Miss
<1>2. HistSpec => []IInv
  BY HistoryOnlyWatches, Invariance, PTL
<1>3. IInv /\ IInv' /\ Remembers /\ [HistNext]_histVars
        => Remembers' /\ [LRU!Next]_<<cache.order \o evicted, latest, ret>>
  BY HistStepMaps DEF LRUStep
<1> QED BY <1>1, <1>2, <1>3, RemembersAtFirst, PTL
        DEF HistSpec, ImplementsLRU, LRU!Spec
=============================================================================
