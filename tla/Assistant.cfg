CONSTANTS
  Logs = {"log"}
  Sizes = {1}
  MaxSessions = 2
  MaxMessages = 3
  MaxAttachments = 1
  MaxBytes = 2
  Readings = {1, 2}
  MaxQuestions = 2
  Models = {1, 2}
  MaxProviders = 2
  MaxProviderClicks = 5
SPECIFICATION PageSpec
INVARIANTS QuestionsSurviveReload WaitIsSound ProvidersStayHome ProvidersAreKept
PROPERTIES GivenUpIsSilent WaitEnds
CHECK_DEADLOCK FALSE
