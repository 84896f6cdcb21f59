SPECIFICATION HistSpec
CONSTANTS
  Keys = {k1, k2, k3, k4}
  Values = {v1, v2}
  Clients = {c1, c2}
  Nobody = nobody
  Cap = 2
SYMMETRY Sym
INVARIANTS ListMatchesMap BoundedOutsidePut PutIsPinned LenOffByAtMostOne
PROPERTY ImplementsLRU
