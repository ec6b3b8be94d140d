CONSTANTS
  c1 = c1
  Calls <- MCOneCall
  MaxBody = 3
  MaxPieces = 3
SPECIFICATION Spec
INVARIANTS BridgeIsSound AnswerIsWhole AbortIsHeard
PROPERTY EndsAreTold
CHECK_DEADLOCK FALSE
