SPECIFICATION AgentSpec
CONSTANTS
  Case <- MCCase
  Identifiers <- MCIdentifiers
  MaxIdList = 2
  MaxToolCalls = 2
  Mistyped = Mistyped
  None = None
  MaxRetries = 1
  MaxOutputRetries = 1
  Recommendations <- MCRecommendations
  OutcomeLists <- MCOutcomeLists
  RequestCap = 5
  Replies <- MCReplies
  Malformed = Malformed
CHECK_DEADLOCK FALSE
INVARIANTS
  AgentTypeOK
  ResultAgreesWithProgress
  ExpiredRunTimesOut
  MalformedCallsGatherNothing
PROPERTIES
  NoRequestOnceInterrupted
  RunEnds
