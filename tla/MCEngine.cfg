SPECIFICATION FairSpec
INVARIANTS TypeOK PinnedIsStored AnswerIsReversible ReferentRecoverable
PROPERTIES AnswersArePure AllReply
CONSTANTS
  Texts <- MCTexts
  Families <- MCFamilies
  Nothing = Nothing
  Distilled <- MCDistilled
  Pieces <- MCPieces
  Size <- MCSize
  Signals = {}
  DedupMinBytes = 2
  MinBytes = 1
  MinBlock = 1
  MaxBlock = 0
  MaxBody = 0
  BaseBytes = 1
  HasSystem = FALSE
  DeclaresTools = TRUE
  IsResponses = FALSE
  None = None
  Requests = {r1, r2}
  Conversations <- MCConversations
  Cap = 1
