SPECIFICATION UserSpec
CONSTANTS
  Inputs <- MCInputs
  Human <- MCHuman
  Tags <- MCTags
  Fences <- MCFences
  MinText = 4
  MinInner = 2
INVARIANTS OnlyContentChanges
PROPERTIES ScanEnds
