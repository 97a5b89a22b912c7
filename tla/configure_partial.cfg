\* A configure request naming an unknown callback after a known one.
CONSTANTS
  Main = main
  Workers = {}
  NoThread = none
  Ops = {"readFile"}
  ConfigPayloads <- MCConfigUnknown
  Replies = {"value"}
  StrayKinds = {}
  HandlerOutcomes = {"Response"}
  MaxRequests = 2
  MaxOps = 1
  MaxStrays = 1
  OutputMayFail = FALSE
SPECIFICATION Spec
INVARIANT ConfigureAllOrNothing
