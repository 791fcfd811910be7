CONSTANTS
  Requests <- MCRequests
  Protocols <- MCProtocols
  UserText <- MCUserText
  Answers <- MCAnswers
  ToolResults <- MCToolResults
  Normal <- MCNormal
  Rendering <- MCRendering
  KeyOf <- MCKeyOf
  Size <- MCSize
  Calls <- MCCalls
  CallCap = 1
  Price = 2
  BreakCost = 1
  MaxMessages = 5
  MaxForgets = 1
  MaxFaults = 1
SPECIFICATION Spec
CHECK_DEADLOCK FALSE
INVARIANTS
  RoundTripExact
