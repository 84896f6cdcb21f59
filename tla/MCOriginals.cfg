SPECIFICATION Spec
CONSTANTS
  Refs = {r1, r2, r3, r4}
  Procs = {p1, p2}
  Big = {r4}
  TooLong = toolong
  Junk = junk
  Empty = empty
  MaxFaults = 1
INVARIANTS LossIsBounded
SYMMETRY Sym
