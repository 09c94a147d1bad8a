SPECIFICATION RequestSpec
CONSTANTS
  Case <- MCCase
  Identifiers <- MCIdentifiers
  MaxIdList = 2
  MaxToolCalls = 2
  Mistyped = Mistyped
  None = None
  MaxRetries = 1
  MaxOutputRetries = 1
  Recommendations <- MCRecommendations
  OutcomeLists <- MCOutcomeLists
  RequestCap = 5
  Replies <- MCReplies
  Malformed = Malformed
  Requests = {r1}
  Asks <- MCAsks
  UnsafeId = UnsafeId
  Environments <- MCEnvironments
  MaxRequestCalls = 10
CHECK_DEADLOCK FALSE
INVARIANT
  AnswerReportsTheRun
PROPERTY
  ImplementsHttpBoundary
