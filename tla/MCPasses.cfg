SPECIFICATION Spec
CONSTANTS
  Shown <- MCShown
  Blank = blank
  Traits <- MCTraits
  Probe = 2
  HeaderLines = 2
  WindowLines = 1
  Texts <- MCTexts
  SegBytes = 60
  FoldBytes = 40
INVARIANTS FoldingIsExact SkipCostsOnlyFolds RefLeadsToStored CodeChangedOnlyAsDiff
