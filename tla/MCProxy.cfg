SPECIFICATION FairSpec
CONSTANTS
  Requests = {r1, r2}
  Bodies = {log, empty}
  Empty = empty
  Shrinking = {log}
  Statics = {None, home}
  Other = other
  Statuses = {429}
  None = None
  BufferEvents = 2
INVARIANTS LogIsTrue InterruptUnwinds
PROPERTIES ForwardsPromise ExitsAnyway
