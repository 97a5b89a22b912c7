\* Every request is answered when no call fails and the handler does not panic.
CONSTANTS
  Main = main
  Workers = {w1, w2}
  NoThread = none
  Ops = {"fileExists", "readFile"}
  ConfigPayloads <- MCConfigs
  Replies = {"empty", "null", "value"}
  StrayKinds = {}
  HandlerOutcomes = {"Response", "Error"}
  MaxRequests = 3
  MaxOps = 1
  MaxStrays = 1
  OutputMayFail = FALSE
SPECIFICATION Spec
PROPERTY ServedEventually
