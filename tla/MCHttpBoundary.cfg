SPECIFICATION BoundarySpec
CONSTANTS
  Case <- MCCase
  Identifiers = {}
  MaxIdList = 1
  MaxToolCalls = 1
  Mistyped = Mistyped
  None = None
  Requests = {r1, r2}
  Asks <- MCAsks
  UnsafeId = UnsafeId
  Environments <- MCEnvironments
  MaxRequestCalls = 3
CHECK_DEADLOCK FALSE
INVARIANTS
  BoundaryTypeOK
  ClientsLiveWithRequest
  AnswersNameTheirCause
  ReadinessPredictsService
PROPERTY
  EveryRequestEnds
