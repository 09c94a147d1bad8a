SPECIFICATION Spec
CONSTANTS
  Case <- MCCase
  Identifiers <- MCIdentifiers
  MaxIdList = 2
  MaxToolCalls = 3
  Calls <- MCCalls
  Batches <- MCBatches
  Mistyped = Mistyped
  None = None
CHECK_DEADLOCK FALSE
INVARIANTS
  TypeOK
  EachRequestAnsweredOnce
  ExactSummary
  ResultsStayInCase
PROPERTY
  ImplementsToolBatch
