------------------------------ MODULE MemoOps ------------------------------
(* The memo's data structure, internal/store/memo.go: the recency list       *)
(* (container/list, front = most recent) and the map from key to pinned      *)
(* value.  A cache is a record [order, val]; keys are content hashes, so they *)
(* are opaque here.  The operators are what one critical section does to it. *)
EXTENDS Naturals, Sequences

Miss == "miss"                          \* Get's (nil, false)

EmptyCache == [order |-> <<>>, val |-> [k \in {} |-> Miss]]

Listed(order) == {order[i] : i \in DOMAIN order}

PosOf(order, k) == CHOOSE i \in DOMAIN order : order[i] = k

(* order.MoveToFront(el): the other elements keep their relative order. *)
MoveToFront(order, k) ==
  [i \in DOMAIN order |->
     IF i = 1 THEN k
     ELSE IF i <= PosOf(order, k) THEN order[i - 1] ELSE order[i]]

PushFront(order, k) == <<k>> \o order

LookupWithoutRefresh(cache, k) == cache             \* mutant: no MoveToFront

(* Get: a hit moves the key to the front, a miss touches nothing. *)
Lookup(cache, k) ==
  IF k \in DOMAIN cache.val
    THEN [cache EXCEPT !.order = MoveToFront(@, k)]
    ELSE cache

Answer(cache, k) == IF k \in DOMAIN cache.val THEN cache.val[k] ELSE Miss

InsertKeepsOldValue(cache, k, v) ==                 \* mutant: first Put wins
  [order |-> IF k \in DOMAIN cache.val THEN MoveToFront(cache.order, k)
                                       ELSE PushFront(cache.order, k),
   val   |-> [x \in DOMAIN cache.val \cup {k} |->
                IF x \in DOMAIN cache.val THEN cache.val[x] ELSE v]]

(* Put up to the eviction loop: overwrite and refresh, or push a new entry. *)
Insert(cache, k, v) ==
  [order |-> IF k \in DOMAIN cache.val THEN MoveToFront(cache.order, k)
                                       ELSE PushFront(cache.order, k),
   val   |-> [x \in DOMAIN cache.val \cup {k} |->
                IF x = k THEN v ELSE cache.val[x]]]

Back(order) == order[Len(order)]

DropBackLeavesKey(cache) ==                         \* mutant: no delete(m, k)
  [cache EXCEPT !.order = SubSeq(@, 1, Len(@) - 1)]

(* One turn of Put's eviction loop: the back of the list leaves both list    *)
(* and map.                                                                  *)
DropBack(cache) ==
  [order |-> SubSeq(cache.order, 1, Len(cache.order) - 1),
   val   |-> [x \in DOMAIN cache.val \ {Back(cache.order)} |-> cache.val[x]]]

(* A whole Put under its lock.  A cache that respects the bound overflows by *)
(* at most the one entry just pushed, so the loop body runs at most once.    *)
PutWhole(cache, k, v, cap) ==
  LET grown == Insert(cache, k, v)
  IN  IF Len(grown.order) > cap THEN DropBack(grown) ELSE grown
=============================================================================
