SPECIFICATION Spec
PROPERTY NeverRewritten
CONSTANTS
  Texts <- MCTexts
  Families <- MCFamilies
  Nothing = Nothing
  Distilled <- MCDistilled
  Pieces <- MCPieces
  Size <- MCSize
  Signals = {}
  Hash <- Injective
  DedupMinBytes = 3
  MinBlock = 1
  MaxBlock = 0
  IsResponses = FALSE
  Family = "claude"
  Deltas <- MCDeltas
  MaxMessages = 6
  MinBytes = 1
  MaxBody = 0
  BaseBytes = 1
  HasSystem = FALSE
  DeclaresTools = TRUE
