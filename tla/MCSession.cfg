SPECIFICATION Spec
CONSTANTS
  Agent = "opencode"
  anthropic = anthropic
  custom = custom
  Ids = {anthropic, custom}
  Rank <- MCRank
  u1 = u1
  u2 = u2
  Urls = {u1, u2}
  Catalog <- MCCatalog
  DefaultId = anthropic
  Fallback = u2
  PortBases = {1, 2}
  None = None
  NoFile = NoFile
  Broken = Broken
  Placeholder = Placeholder
  Sessions = {s1, s2}
  Jobs <- MCJobs
  UserConfigs <- MCUserConfigs
  MaxUpsets = 1
INVARIANTS TypeOK BackupIsUsers FirstWiringReaches
PROPERTIES RestoredIsDirect
SYMMETRY Sym
