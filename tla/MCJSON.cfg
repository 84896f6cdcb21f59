SPECIFICATION JSONSpec
CONSTANTS
  Keys <- MCKeys
  Depth = 6
  Docs <- MCDocs
  Meta = {"etag"}
  Suspicious = {"no null"}
  Float <- MCFloat
  Printed <- MCPrinted
  Long = {"long"}
  MinRows = 3
  MaxColumns = 2
  Budget = 1
INVARIANTS GateIsNeutral TableReadsBack LiftLosesOnlyLateColumns PruneKeepsData
