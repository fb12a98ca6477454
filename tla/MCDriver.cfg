SPECIFICATION Spec
CONSTANTS
  CommandLines <- MCCommandLines
  Targets = {"linux", "darwin"}
  Split <- MCSplit
  OneLetter <- MCOneLetter
  Stale <- MCStale
INVARIANTS OnlyResultsLeft SuccessIsComplete FailureIsClean ToolsAgree
PROPERTIES Ends KeepsPromise
