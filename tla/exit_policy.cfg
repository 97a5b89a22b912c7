\* A call failing on Run's goroutine or on a goroutine the handler forked.
CONSTANTS
  Main = main
  Workers = {w1}
  NoThread = none
  Ops = {"fileExists"}
  ConfigPayloads <- MCConfigs
  Replies = {"value", "callError"}
  StrayKinds = {}
  HandlerOutcomes = {"Response"}
  MaxRequests = 2
  MaxOps = 1
  MaxStrays = 1
  OutputMayFail = FALSE
SPECIFICATION Spec
INVARIANT EndsAsSpecified
