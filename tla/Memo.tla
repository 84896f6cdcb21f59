-------------------------------- MODULE Memo --------------------------------
(* The decision memo, internal/store/memo.go: a bounded LRU map guarded by   *)
(* one mutex and shared by every request goroutine.  Get and Put take the    *)
(* lock; Put inserts first and evicts afterwards, so the list is one entry   *)
(* too long for a moment; Len takes no lock and may be read in that moment.  *)
EXTENDS MemoOps

CONSTANTS
  Keys,       \* content hashes of (family, text)
  Values,     \* decisions that may be pinned
  Clients,    \* request goroutines
  Nobody,     \* the mutex is free
  Cap         \* capacity given to NewMemo (> 0: 0 disables the memo)

ASSUME CapAssumption == Cap \in Nat \ {0}
ASSUME ClientAssumption == Nobody \notin Clients
ASSUME ValueAssumption == Miss \notin Values

VARIABLES
  cache,      \* order and m
  mu,         \* holder of the mutex
  pc,         \* where each client is in its call
  arg,        \* the key and value of the call
  ret,        \* what its last Get returned
  seen        \* what its last Len returned

vars == <<cache, mu, pc, arg, ret, seen>>

Args == [key : Keys, val : Values \cup {Miss}]
NoArg == <<>>                           \* the client is in no call

Init ==
  /\ cache = EmptyCache
  /\ mu = Nobody
  /\ pc = [c \in Clients |-> "idle"]
  /\ arg = [c \in Clients |-> NoArg]
  /\ ret = [c \in Clients |-> Miss]
  /\ seen = [c \in Clients |-> 0]

(* A goroutine calls Get or Put and hashes its key before it asks for mu. *)
Call(c, method, k, v) ==
  /\ pc[c] = "idle"
  /\ pc' = [pc EXCEPT ![c] = method]
  /\ arg' = [arg EXCEPT ![c] = [key |-> k, val |-> v]]
  /\ UNCHANGED <<cache, mu, ret, seen>>

CallGet(c) == \E k \in Keys : Call(c, "get", k, Miss)
CallPut(c) == \E k \in Keys, v \in Values : Call(c, "put", k, v)

Lock(c) ==
  /\ mu = Nobody
  /\ \/ pc[c] = "get" /\ pc' = [pc EXCEPT ![c] = "getting"]
     \/ pc[c] = "put" /\ pc' = [pc EXCEPT ![c] = "inserting"]
  /\ mu' = c
  /\ UNCHANGED <<cache, arg, ret, seen>>

Unlock(c) ==
  /\ mu' = Nobody
  /\ pc' = [pc EXCEPT ![c] = "idle"]
  /\ arg' = [arg EXCEPT ![c] = NoArg]

Get(c) ==
  /\ pc[c] = "getting"
  /\ ret' = [ret EXCEPT ![c] = Answer(cache, arg[c].key)]
  /\ cache' = Lookup(cache, arg[c].key)
  /\ Unlock(c)
  /\ UNCHANGED seen

PutInsert(c) ==
  /\ pc[c] = "inserting"
  /\ cache' = Insert(cache, arg[c].key, arg[c].val)
  /\ pc' = [pc EXCEPT ![c] = "evicting"]
  /\ UNCHANGED <<mu, arg, ret, seen>>

PutEvict(c) ==
  /\ pc[c] = "evicting"
  /\ Len(cache.order) > Cap
  /\ cache' = DropBack(cache)
  /\ UNCHANGED <<mu, pc, arg, ret, seen>>

PutReturnOverfull(c) ==                             \* mutant: Len() > cap + 1
  /\ pc[c] = "evicting"
  /\ Len(cache.order) <= Cap + 1
  /\ Unlock(c)
  /\ UNCHANGED <<cache, ret, seen>>

PutReturn(c) ==
  /\ pc[c] = "evicting"
  /\ Len(cache.order) <= Cap
  /\ Unlock(c)
  /\ UNCHANGED <<cache, ret, seen>>

(* Len reads order.Len() without the mutex, between any two steps of a Put. *)
ReadLen(c) ==
  /\ pc[c] = "idle"
  /\ seen' = [seen EXCEPT ![c] = Len(cache.order)]
  /\ UNCHANGED <<cache, mu, pc, arg, ret>>

Step(c) == Lock(c) \/ Get(c) \/ PutInsert(c) \/ PutEvict(c) \/ PutReturn(c)

Next ==
  \E c \in Clients : CallGet(c) \/ CallPut(c) \/ ReadLen(c) \/ Step(c)

Spec == Init /\ [][Next]_vars
-----------------------------------------------------------------------------
Holding == {"getting", "inserting", "evicting"}
Phases == {"idle", "get", "put"} \cup Holding

(* Every variable has its type; the map's keys are content hashes and its    *)
(* values decisions (memo.go:24-35).                                         *)
TypeOK ==
  /\ cache \in [order : Seq(Keys), val : UNION {[S -> Values] : S \in SUBSET Keys}]
  /\ mu \in Clients \cup {Nobody}
  /\ pc \in [Clients -> Phases]
  /\ arg \in [Clients -> Args \cup {NoArg}]
  /\ \A c \in Clients :
       arg[c] \in IF pc[c] = "idle" THEN {NoArg}
                 ELSE IF pc[c] \in {"get", "getting"} THEN [key : Keys, val : {Miss}]
                 ELSE [key : Keys, val : Values]
  /\ ret \in [Clients -> Values \cup {Miss}]
  /\ seen \in [Clients -> Nat]

(* The client that holds the mutex is the only one inside a critical section *)
(* (memo.go:57,77).                                                          *)
MutexExclusive == \A c \in Clients : pc[c] \in Holding <=> mu = c

(* List and map stay two views of one set: each key is listed exactly once,  *)
(* and a key is listed if and only if it is mapped, whatever the order of    *)
(* hits, overwrites and evictions (memo.go:58-94).                           *)
ListMatchesMap ==
  /\ Listed(cache.order) = DOMAIN cache.val
  /\ \A i, j \in DOMAIN cache.order : cache.order[i] = cache.order[j] => i = j

(* The bound is exceeded only by the client inside Put's eviction loop, and  *)
(* only by the entry it has just pushed (memo.go:87-94).                     *)
BoundedOutsidePut ==
  \/ Len(cache.order) <= Cap
  \/ /\ Len(cache.order) = Cap + 1
     /\ \E c \in Clients : pc[c] = "evicting"

(* An eviction never removes the decision that the running Put has pinned:   *)
(* when Put returns, its key is served with its value (memo.go:72-95).       *)
PutIsPinned ==
  \A c \in Clients : pc[c] = "evicting" =>
    /\ arg[c].key \in DOMAIN cache.val
    /\ cache.val[arg[c].key] = arg[c].val

(* Len reads the list without the mutex, between a push and its eviction:    *)
(* "bounded" and "safe for concurrent use" (memo.go:21-22) hold for it only  *)
(* up to the one entry that is still to be evicted.                          *)
LenOffByAtMostOne == \A c \in Clients : seen[c] <= Cap + 1
=============================================================================
