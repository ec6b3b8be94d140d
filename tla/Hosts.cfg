SPECIFICATION HostsSpec
CONSTANTS
  MaxFlows = 4
  MaxLines = 2
  MaxRuns = 2
  MaxEdits = 1
  MaxTabs = 2
  Root = "root"
  Home = "root"
  Dirs = {"root", "sub"}
  Names = {"one", "two"}
  Replay = 1
  Attempts = 2
  MaxEvents = 4
INVARIANTS RunsAreExclusive SuccessIsWhole BatchStopsAtFailure TabsAreSound CleanTextIsSaved
PROPERTIES RunsEnd
CHECK_DEADLOCK FALSE
