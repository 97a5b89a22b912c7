\* Three goroutines calling back, malformed, erroneous and stray replies,
\* handler panics, and a client that may stop reading at any point, so that
\* answers, Calls and the Error of a recovered panic may fail to be written.
CONSTANTS
  Main = main
  Workers = {w1, w2}
  NoThread = none
  Ops = {"fileExists", "readFile", "writeFile", "stat"}
  ConfigPayloads <- MCConfigs
  Replies = {"value", "malformed", "callError"}
  StrayKinds = {"CallResponse"}
  HandlerOutcomes = {"Response", "panic"}
  MaxRequests = 3
  MaxOps = 1
  MaxStrays = 1
  OutputMayFail = TRUE
SPECIFICATION Spec
INVARIANT AnswerBeforeNextRead
PROPERTY CallLockRefined
