\* The client answers getAccessibleEntries and getPackageJsonScopeIfApplicable
\* with no bytes, null or a value.
CONSTANTS
  Main = main
  Workers = {}
  NoThread = none
  Ops = {"getAccessibleEntries", "getPackageJsonScopeIfApplicable"}
  ConfigPayloads <- MCConfigAdapters
  Replies = {"empty", "null", "value"}
  StrayKinds = {}
  HandlerOutcomes = {"Response"}
  MaxRequests = 2
  MaxOps = 1
  MaxStrays = 1
  OutputMayFail = FALSE
SPECIFICATION Spec
INVARIANT BridgeAnswer
