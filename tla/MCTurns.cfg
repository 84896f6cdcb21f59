SPECIFICATION Spec
INVARIANTS TypeOK ReferencesLead DedupLosesNothing
PROPERTIES PrefixKept PathsAdvance
CONSTANTS
  Texts <- MCTexts
  Families <- MCFamilies
  Nothing = Nothing
  Distilled <- MCDistilled
  Pieces <- MCPieces
  Size <- MCSize
  Signals = {}
  Hash <- Injective
  DedupMinBytes = 3
  MinBlock = 1
  MaxBlock = 0
  IsResponses = FALSE
  Family = "claude"
  Deltas <- MCDeltas
  MaxMessages = 9
  MinBytes = 3
  MaxBody = 16
  BaseBytes = 1
  HasSystem = FALSE
  DeclaresTools = FALSE
