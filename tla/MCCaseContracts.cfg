SPECIFICATION CaseSpec
CONSTANTS
  CustomerId = "cust_1"
  Transactions <- MCTransactions
  EvaluationMonths <- MCEvaluationMonths
  MaxTransactions = 2
  MaxRecorded = 3
  CountThreshold = 2
  VolumeThreshold = 5
  MaxTotal = 7
  HoursPerMonth = 2
  MonthsPerYear = 2
  Customers <- MCCustomers
  ReviewAlerts <- MCReviewAlerts
  Today = 3
  None = None
INVARIANTS
  CaseTypeOK
  RaisedAlertOpensCase
  ToolsAgreeWithAlert
  EveryCaseIsInvestigable
