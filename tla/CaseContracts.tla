---------------------------- MODULE CaseContracts ----------------------------
(***************************************************************************)
(* What becomes of an alert: the client (external) keeps one that the rules *)
(* raised, lets activity go on, and posts a case about it, or a case about  *)
(* an onboarding or screening alert it holds.  The contracts of             *)
(* domain/models.py accept or refuse the case.                              *)
(*                                                                          *)
(* Dates are integers; that a date is past is checked against a clock which *)
(* does not go back, so that what was accepted once stays so: Today.        *)
(***************************************************************************)
EXTENDS TransactionRules

CONSTANTS
  Customers,     \* CustomerProfile values a client puts into a case
  ReviewAlerts,  \* the onboarding and screening alerts a client holds
  Today,         \* the date
  None           \* Python's None

ASSUME ReviewAssumption ==
  \A alert \in ReviewAlerts : alert.alert_type \in {"onboarding_risk", "screening_match"}

VARIABLES
  kept,     \* an alert of the rules that the client keeps, or None
  posted,   \* the case last posted, while its answer is the last one, or NoCase
  verdict   \* "valid" or "validation_error", or "none"

caseVars == <<rulesVars, kept, posted, verdict>>

MaxNationalities == 5

(* the discriminated union: the alert model of each case type *)
InvestigationCase ==
  [transaction_monitoring |-> "transaction_monitoring", kyc_review |-> "onboarding_risk",
   sanctions_screening |-> "screening_match", adverse_media |-> "screening_match"]

CaseTypes == DOMAIN InvestigationCase

NoCase == [case_type |-> "none"]

CustomerProfileIsValid(customer) ==
  /\ customer.date_of_birth <= Today
  /\ customer.account_opened_at <= Today
  /\ customer.account_opened_at > customer.date_of_birth
  /\ Len(customer.nationality_codes) \in 1..MaxNationalities
  /\ IsInjective(customer.nationality_codes)

BaseCaseIsValid(case) ==
  /\ CustomerProfileIsValid(case.customer)
  /\ Len(case.transactions) <= MaxTransactions
  /\ IsInjective(Ids(case.transactions))

OnlyMonitoringMatchesCustomer(case) ==
  case.case_type = "transaction_monitoring" => case.alert.customer_id = case.customer.customer_id

AlertMatchesCustomer(case) == case.alert.customer_id = case.customer.customer_id

AllTransactionsAlerted(case) ==
  case.transactions # <<>> /\ Range(case.alert.related_transaction_ids) = Range(Ids(case.transactions))

AlertMatchesCaseData(case) ==
  /\ case.transactions # <<>>
  /\ Len(case.alert.related_transaction_ids) \in 1..MaxTransactions
  /\ Range(case.alert.related_transaction_ids) \subseteq Range(Ids(case.transactions))

AlertIncludes(case, category) == category \in case.alert.match_categories

CaseIsValid(case) ==
  /\ InvestigationCase[case.case_type] = case.alert.alert_type
  /\ BaseCaseIsValid(case)
  /\ AlertMatchesCustomer(case)
  /\ CASE case.case_type = "transaction_monitoring" -> AlertMatchesCaseData(case)
       [] case.case_type = "sanctions_screening"    -> AlertIncludes(case, "sanctions")
       [] case.case_type = "adverse_media"          -> AlertIncludes(case, "adverse_media")
       [] case.case_type = "kyc_review"             -> TRUE

-----------------------------------------------------------------------------
CaseInit ==
  /\ RulesInit
  /\ kept = None
  /\ posted = NoCase
  /\ verdict = "none"

RulesStep ==
  /\ RulesNext
  /\ posted' = NoCase
  /\ verdict' = "none"
  /\ UNCHANGED kept

(* external *)
KeepAlert ==
  /\ answer.status = "evaluated"
  /\ \E alert \in Range(answer.alerts) : kept' = alert
  /\ answer' = NoReply
  /\ UNCHANGED <<activity, raised, posted, verdict>>

(* validate_case, and every other endpoint that takes a case *)
PostCase(case) ==
  /\ posted' = case
  /\ verdict' = IF CaseIsValid(case) THEN "valid" ELSE "validation_error"
  /\ UNCHANGED <<rulesVars, kept>>

(* what the client sends of the activity: all of it or some, in any order,  *)
(* or with a transaction sent twice *)
CaseLists == RequestLists \cup {Tail(s) : s \in SetToSeqs(activity) \ {<<>>}}

(* bound of the model: not while an answer to it is still at hand *)
PostSomeCase ==
  /\ answer = NoReply /\ posted = NoCase
  /\ \E alert \in ReviewAlerts \cup ({kept} \ {None}), case_type \in CaseTypes,
        customer \in Customers, transactions \in CaseLists :
       PostCase([case_type |-> case_type, alert |-> alert, customer |-> customer,
                 transactions |-> transactions])

CaseNext == RulesStep \/ KeepAlert \/ PostSomeCase

CaseSpec == CaseInit /\ [][CaseNext]_caseVars

-----------------------------------------------------------------------------
IsMonitoring(case) == case.alert.alert_type = "transaction_monitoring"

(* The state's shape: an alert the client keeps is about activity that was  *)
(* recorded, and a case is judged when it is posted.                        *)
CaseTypeOK ==
  /\ RulesTypeOK
  /\ kept # None =>
       /\ Range(kept.related_transaction_ids) \subseteq {t.transaction_id : t \in activity}
       /\ kept.metrics.outbound_aed_total \in 0..MaxTotal
  /\ (posted = NoCase) <=> (verdict = "none")
  /\ posted # NoCase => posted.case_type \in CaseTypes /\ answer = NoReply

IsFollowUp(case) ==
  /\ IsMonitoring(case)
  /\ case.case_type = "transaction_monitoring"
  /\ case.customer.customer_id = CustomerId
  /\ CustomerProfileIsValid(case.customer)
  /\ case.transactions \in SetToSeqs(activity)
  /\ Len(case.transactions) <= MaxTransactions

(* Every alert of the rules can be followed up: while the activity fits a   *)
(* case at all, a case with the alert, the activity of that time or of any  *)
(* later one in any order, and the customer's profile is accepted.          *)
RaisedAlertOpensCase == posted # NoCase /\ IsFollowUp(posted) => verdict = "valid"
=============================================================================
