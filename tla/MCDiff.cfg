SPECIFICATION DiffSpec
CONSTANTS
  Kinds = {"git.app", "git.lock", "plus.lock", "bare", "ctx", "mod"}
  MinLines = 3
  DiffLines = 7
  LockLines = 2
  MinSection = 5
  MaxContext = 3
  KeepContext = 1
INVARIANTS EveryLineAccounted ModificationsVerbatim
