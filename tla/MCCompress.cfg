SPECIFICATION SqueezeSpec
CONSTANTS
  HeadLines = 1
  TailLines = 1
  MaxKept = 4
  ContextAfter = 2
  MinBytes = 30
  MarkerBytes = 8
  MaxLines = 11
  LineSizes = {3, 10}
INVARIANTS NoLossBelowCap KeptInOrder SilentLossBounded
