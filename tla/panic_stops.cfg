\* A handler panic, then a further request.
CONSTANTS
  Main = main
  Workers = {}
  NoThread = none
  Ops = {"fileExists"}
  ConfigPayloads <- MCConfigs
  Replies = {"value"}
  StrayKinds = {}
  HandlerOutcomes = {"Response", "panic"}
  MaxRequests = 3
  MaxOps = 1
  MaxStrays = 1
  OutputMayFail = FALSE
SPECIFICATION Spec
PROPERTY ServedEventually
