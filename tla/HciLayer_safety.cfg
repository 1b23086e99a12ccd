CONSTANTS
  Requests <- MCTwoRequests
  NONE = "NONE"
  RESET = "RESET"
  CONTROLLER_DEBUG_INFO = "CONTROLLER_DEBUG_INFO"
  Ogf <- MCOgf
  MaxCommands = 3
  MaxCredits = 1
  MaxStarts = 2
SPECIFICATION FairSpec
CHECK_DEADLOCK FALSE
INVARIANTS
  TypeOK
  NoUnexpectedResponse
  AnsweredInOrder
  WithinAllowance
  TimerGuardsOutstanding
PROPERTY CommandsResolve
