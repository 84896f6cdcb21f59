------------------------------- MODULE MCMemo -------------------------------
(* Instances of the memo for TLC: three keys over a capacity of two, so that *)
(* every key can be evicted and pinned again.                                *)
EXTENDS MemoHistory, TLC

Sym == Permutations(Keys) \cup Permutations(Values) \cup Permutations(Clients)
=============================================================================
