------------------------------ MODULE LRUCache ------------------------------
(* What the memo promises: it behaves as if it remembered every decision     *)
(* ever pinned, but serves only the Cap keys used most recently.  A use is a *)
(* Put or a Get that was served.  No lock, no list surgery, no eviction.     *)
EXTENDS MemoOps

CONSTANTS Keys, Values, Clients, Cap

VARIABLES
  recency,    \* every key ever pinned, the most recently used first
  latest,     \* the last decision pinned for it
  answer      \* what each client's last Get returned

Served == {recency[i] : i \in {j \in DOMAIN recency : j <= Cap}}

Touched(k) == IF k \in Listed(recency) THEN MoveToFront(recency, k)
                                       ELSE PushFront(recency, k)

Init ==
  /\ recency = <<>>
  /\ latest = [k \in {} |-> Miss]
  /\ answer = [c \in Clients |-> Miss]

Pin(k, v) ==
  /\ recency' = Touched(k)
  /\ latest' = [x \in DOMAIN latest \cup {k} |-> IF x = k THEN v ELSE latest[x]]
  /\ UNCHANGED answer

Hit(c, k) ==
  /\ k \in Served
  /\ recency' = Touched(k)
  /\ answer' = [answer EXCEPT ![c] = latest[k]]
  /\ UNCHANGED latest

NoHit(c, k) ==
  /\ k \notin Served
  /\ answer' = [answer EXCEPT ![c] = Miss]
  /\ UNCHANGED <<recency, latest>>

Next ==
  \/ \E k \in Keys, v \in Values : Pin(k, v)
  \/ \E c \in Clients, k \in Keys : Hit(c, k) \/ NoHit(c, k)

Spec == Init /\ [][Next]_<<recency, latest, answer>>
=============================================================================
