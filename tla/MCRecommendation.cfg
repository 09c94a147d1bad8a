SPECIFICATION RecommendSpec
CONSTANTS
  Case <- MCCase
  Identifiers <- MCIdentifiers
  MaxIdList = 2
  MaxToolCalls = 3
  Mistyped = Mistyped
  None = None
  MaxRetries = 2
  MaxOutputRetries = 2
  Recommendations <- MCRecommendations
  OutcomeLists <- MCOutcomeLists
  RequestCap = 10
CHECK_DEADLOCK FALSE
INVARIANTS
  RecommendTypeOK
  RequestBudget
  ReturnedIsBacked
  ReportedRetriesHappened
  NoPrematureFailure
PROPERTY
  RecommendTerminates
