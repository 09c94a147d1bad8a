SPECIFICATION RulesSpec
CONSTANTS
  CustomerId = CustomerId
  Transactions <- MCTransactions
  EvaluationMonths <- MCEvaluationMonths
  MaxTransactions = 4
  MaxRecorded = 4
  CountThreshold = 2
  VolumeThreshold = 5
  MaxTotal = 9
  HoursPerMonth = 2
  MonthsPerYear = 2
INVARIANTS
  RulesTypeOK
  ExactVerdict
  AlertsPersist
  MonthsAreDisjoint
