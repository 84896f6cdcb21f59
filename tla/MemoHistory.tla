----------------------------- MODULE MemoHistory -----------------------------
(* The memo with two history variables: the keys it has evicted, most        *)
(* recently evicted first, and the last decision pinned for every key.  They *)
(* are what maps the bounded, locked memo to LRUCache.                       *)
EXTENDS Memo

VARIABLES evicted, latest

histVars == <<vars, evicted, latest>>

Without(order, k) ==
  IF k \in Listed(order)
    THEN [i \in 1 .. Len(order) - 1 |->
            IF i < PosOf(order, k) THEN order[i] ELSE order[i + 1]]
    ELSE order

HistInit == Init /\ evicted = <<>> /\ latest = [k \in {} |-> Miss]

HistPutInsert(c) ==
  /\ PutInsert(c)
  /\ evicted' = Without(evicted, arg[c].key)
  /\ latest' = [k \in DOMAIN latest \cup {arg[c].key} |->
                  IF k = arg[c].key THEN arg[c].val ELSE latest[k]]

HistPutEvict(c) ==
  /\ PutEvict(c)
  /\ evicted' = PushFront(evicted, Back(cache.order))
  /\ UNCHANGED latest

HistRest(c) ==
  /\ CallGet(c) \/ CallPut(c) \/ ReadLen(c) \/ Lock(c) \/ Get(c) \/ PutReturn(c)
  /\ UNCHANGED <<evicted, latest>>

HistNext ==
  \E c \in Clients : HistPutInsert(c) \/ HistPutEvict(c) \/ HistRest(c)

HistSpec == HistInit /\ [][HistNext]_histVars

(* The memo implements an LRU cache exactly: a Get is served if and only if  *)
(* its key is among the Cap most recently used, with the last decision       *)
(* pinned for it, under every interleaving of locked calls (memo.go:50-95).  *)
LRU == INSTANCE LRUCache WITH recency <- cache.order \o evicted, answer <- ret
ImplementsLRU == LRU!Spec
=============================================================================
