\* Callbacks, concurrent callers, faulty replies and stray envelopes.
CONSTANTS
  Main = main
  Workers = {w1, w2}
  NoThread = none
  Ops = {"fileExists", "readFile", "resolveModuleName"}
  ConfigPayloads <- MCConfigs
  Replies = {"empty", "null", "value", "malformed", "callError"}
  StrayKinds = {"CallResponse", "Invalid"}
  HandlerOutcomes = {"Response", "Error", "panic"}
  MaxRequests = 3
  MaxOps = 1
  MaxStrays = 1
  OutputMayFail = FALSE
SPECIFICATION Spec
INVARIANT TypeOK
INVARIANT ReplyToOwnCall
INVARIANT BridgeAnswer
INVARIANT RemoteFailureAborts
INVARIANT OneAnswerPerRequest
INVARIANT CorrelationIdIsPosition
 
