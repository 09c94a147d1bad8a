--------------------------- MODULE TransactionRules ---------------------------
(***************************************************************************)
(* POST /alerts/evaluate/transactions: the synthetic transaction rules,     *)
(* asked again and again as one customer's activity grows.  The service     *)
(* keeps nothing between requests; the client (external) keeps the activity *)
(* and sends it in any order, and may send a transaction twice.             *)
(*                                                                          *)
(* A point in time is [local, offset]: the hours its calendar date shows,   *)
(* counted from the first hour of year 1, and the hours its zone is ahead   *)
(* of UTC.  A month is [year, month], both counted from 0.                  *)
(***************************************************************************)
EXTENDS TransactionLists, FiniteSetsExt

CONSTANTS
  CustomerId,        \* the customer of every request
  Transactions,      \* the transactions that can occur, all of them validated
  EvaluationMonths,  \* the months a client asks about
  MaxTransactions,   \* longest list of transactions, or of their ids, accepted (500)
  CountThreshold,    \* NON_FAMILY_TRANSFER_COUNT_THRESHOLD
  VolumeThreshold,   \* MONTHLY_AED_VOLUME_THRESHOLD
  MaxRecorded,       \* bound of the model: transactions the client ever records
  MaxTotal,          \* largest amount of 18 digits, of which 2 are decimals
  HoursPerMonth,     \* the calendar, scaled down
  MonthsPerYear

ASSUME CalendarAssumption == HoursPerMonth \in Nat \ {0} /\ MonthsPerYear \in Nat \ {0}

ASSUME ThresholdAssumption ==
  /\ CountThreshold \in Nat \ {0}
  /\ MaxTotal \in Nat /\ VolumeThreshold \in 1..MaxTotal
  /\ MaxTransactions \in Nat \ {0}

ASSUME MonthAssumption == EvaluationMonths \subseteq [year : Nat, month : 0..(MonthsPerYear - 1)]

ASSUME TransactionAssumption ==
  /\ \A t \in Transactions : /\ t.amount \in 1..MaxTotal
                              /\ t.occurred_at.local \in Int /\ t.occurred_at.offset \in Int
  /\ \A s, t \in Transactions : s.transaction_id = t.transaction_id => s = t

VARIABLES
  activity,  \* the transactions the client has recorded
  answer,    \* the reply to the last request, while activity is what it was
  raised     \* history: [month, alert_id, related] of every alert received

rulesVars == <<activity, answer, raised>>

NON_FAMILY_FREQUENCY_RULE_ID == "synthetic-non-family-frequency"
MONTHLY_AED_VOLUME_RULE_ID == "synthetic-monthly-aed-volume"

-----------------------------------------------------------------------------
(* _is_in_evaluation_month *)

LocalHour(time) == time.local

(* astimezone(UTC); negative for an instant before year 1 *)
UtcHour(time) == time.local - time.offset

YearOf(hour) == hour \div (HoursPerMonth * MonthsPerYear)

MonthOf(hour) == (hour \div HoursPerMonth) % MonthsPerYear

SameMonthOfAnyYear(t, month) == MonthOf(UtcHour(t.occurred_at)) = month.month

IsInEvaluationMonth(t, month) ==
  /\ YearOf(UtcHour(t.occurred_at)) = month.year
  /\ MonthOf(UtcHour(t.occurred_at)) = month.month

(* the three lists of evaluate_transaction_rules, in the request's order *)

Outbound(transactions) == Selected(transactions, {t \in Transactions : t.direction = "outbound"})

MonthlyOutbound(transactions, month) ==
  Selected(Outbound(transactions), {t \in Transactions : IsInEvaluationMonth(t, month)})

MonthlyAedOutbound(transactions, month) ==
  Selected(MonthlyOutbound(transactions, month), {t \in Transactions : t.currency = "AED"})

IsNonFamily(t) ==
  /\ t.recipient_relationship \notin {"self", "immediate_family"}
  /\ t.transfer_purpose # "family_support"

NonFamilyOutbound(transactions, month) ==
  Selected(MonthlyOutbound(transactions, month), {t \in Transactions : IsNonFamily(t)})

(* datetime has no instant before year 1: astimezone raises OverflowError,  *)
(* for outbound transactions only, where the conjunction gets that far      *)
ConvertsToUtc(transactions) ==
  \A t \in Range(Outbound(transactions)) : UtcHour(t.occurred_at) >= 0

AnyMetrics(metrics) == TRUE

(* TransactionAlertMetrics: max_digits *)
MetricsAreValid(metrics) == metrics.outbound_aed_total <= MaxTotal

Metrics(transactions, month) ==
  [evaluation_month          |-> month,
   outbound_aed_total        |-> Total(MonthlyAedOutbound(transactions, month)),
   non_family_outbound_count |-> Len(NonFamilyOutbound(transactions, month))]

(* uuid5 of customer, month and rule, taken as injective *)
AlertId(month, rule) == <<CustomerId, month, rule>>

Alert(month, rule, related, metrics) ==
  [alert_type |-> "transaction_monitoring", alert_id |-> AlertId(month, rule),
   customer_id |-> CustomerId, rule_id |-> rule,
   related_transaction_ids |-> Ids(related), metrics |-> metrics]

MetExactly(value, threshold) == value = threshold

Reaches(value, threshold) == value >= threshold

FrequencyAlerts(transactions, month, metrics) ==
  IF Reaches(metrics.non_family_outbound_count, CountThreshold)
  THEN <<Alert(month, NON_FAMILY_FREQUENCY_RULE_ID,
               NonFamilyOutbound(transactions, month), metrics)>>
  ELSE <<>>

VolumeOverAllCurrencies(transactions, month, metrics) ==
  IF Reaches(metrics.outbound_aed_total, VolumeThreshold)
  THEN <<Alert(month, MONTHLY_AED_VOLUME_RULE_ID, MonthlyOutbound(transactions, month), metrics)>>
  ELSE <<>>

VolumeAlerts(transactions, month, metrics) ==
  IF Reaches(metrics.outbound_aed_total, VolumeThreshold)
  THEN <<Alert(month, MONTHLY_AED_VOLUME_RULE_ID,
               MonthlyAedOutbound(transactions, month), metrics)>>
  ELSE <<>>

EvaluateTransactionRules(transactions, month) ==
  LET metrics == Metrics(transactions, month) IN
  FrequencyAlerts(transactions, month, metrics) \o VolumeAlerts(transactions, month, metrics)

-----------------------------------------------------------------------------
(* TransactionRuleEvaluationRequest *)
IsValidRequest(transactions) ==
  /\ Len(transactions) \in 1..MaxTransactions
  /\ IsInjective(Ids(transactions))

Reply(status, month, alerts) == [status |-> status, month |-> month, alerts |-> alerts]

NoReply == [status |-> "none"]

RulesInit ==
  /\ activity = {}
  /\ answer = NoReply
  /\ raised = {}

(* external: something happened on the account *)
RecordTransaction(t) ==
  /\ t \notin activity
  /\ Cardinality(activity) < MaxRecorded
  /\ activity' = activity \cup {t}
  /\ answer' = NoReply
  /\ UNCHANGED raised

(* 422, nothing is evaluated *)
RefuseRequest(transactions, month) ==
  /\ ~IsValidRequest(transactions)
  /\ answer' = Reply("invalid_request", month, <<>>)
  /\ UNCHANGED <<activity, raised>>

(* 500: OverflowError, or a ValidationError of the service's own metrics *)
FailEvaluation(transactions, month) ==
  /\ IsValidRequest(transactions)
  /\ ~ConvertsToUtc(transactions) \/ ~MetricsAreValid(Metrics(transactions, month))
  /\ answer' = Reply("internal_error", month, <<>>)
  /\ UNCHANGED <<activity, raised>>

AnswerEvaluation(transactions, month) ==
  LET alerts == EvaluateTransactionRules(transactions, month) IN
  /\ IsValidRequest(transactions)
  /\ ConvertsToUtc(transactions)
  /\ MetricsAreValid(Metrics(transactions, month))
  /\ answer' = Reply("evaluated", month, alerts)
  /\ raised' = raised \cup {[month |-> month, alert_id |-> a.alert_id,
                             related |-> Range(a.related_transaction_ids)] : a \in Range(alerts)}
  /\ UNCHANGED activity

(* the activity in any order, or with its first transaction sent twice *)
RequestLists ==
  LET orders == SetToSeqs(activity)
  IN  orders \cup {Append(s, Head(s)) : s \in orders \ {<<>>}}

EvaluateActivity ==
  \E transactions \in RequestLists, month \in EvaluationMonths :
    \/ RefuseRequest(transactions, month)
    \/ FailEvaluation(transactions, month)
    \/ AnswerEvaluation(transactions, month)

RulesNext == EvaluateActivity \/ \E t \in Transactions : RecordTransaction(t)

RulesSpec == RulesInit /\ [][RulesNext]_rulesVars

-----------------------------------------------------------------------------
(* The state's shape; every metric handed out fits the response contract.   *)
RulesTypeOK ==
  /\ activity \subseteq Transactions
  /\ answer.status \in {"none", "invalid_request", "internal_error", "evaluated"}
  /\ answer.status = "evaluated" =>
       \A i \in DOMAIN answer.alerts :
         answer.alerts[i].metrics.outbound_aed_total \in 0..MaxTotal

(* The hours of a month, as an interval of UTC *)
MonthStart(month) == (month.year * MonthsPerYear + month.month) * HoursPerMonth

InMonth(month) ==
  {t \in activity :
     /\ t.direction = "outbound"
     /\ t.occurred_at.local - t.occurred_at.offset
          \in MonthStart(month)..(MonthStart(month) + HoursPerMonth - 1)}

(* What was answered depends only on which transactions really fell into    *)
(* the month, an interval of UTC: not on the order they were sent in, nor   *)
(* on the zones they were written in, and none counts twice.  Each alert    *)
(* names exactly the transactions that its rule is about, and is there      *)
(* exactly when their number or their sum reaches the threshold.            *)
ExactVerdict ==
  answer.status = "evaluated" =>
    LET aed       == {t \in InMonth(answer.month) : t.currency = "AED"}
        nonFamily == {t \in InMonth(answer.month) :
                        ~(\/ t.recipient_relationship \in {"self", "immediate_family"}
                          \/ t.transfer_purpose = "family_support")}
        volume    == MapThenSumSet(LAMBDA t : t.amount, aed)
        expected  ==
          [rule \in (IF Cardinality(nonFamily) >= CountThreshold
                     THEN {NON_FAMILY_FREQUENCY_RULE_ID} ELSE {})
                    \cup (IF volume >= VolumeThreshold THEN {MONTHLY_AED_VOLUME_RULE_ID} ELSE {})
             |-> {t.transaction_id :
                    t \in IF rule = MONTHLY_AED_VOLUME_RULE_ID THEN aed ELSE nonFamily}]
    IN  /\ {a.rule_id : a \in Range(answer.alerts)} = DOMAIN expected
        /\ Len(answer.alerts) = Cardinality(DOMAIN expected)
        /\ \A a \in Range(answer.alerts) :
             /\ Range(a.related_transaction_ids) = expected[a.rule_id]
             /\ IsInjective(a.related_transaction_ids)
             /\ a.metrics.outbound_aed_total = volume
             /\ a.metrics.non_family_outbound_count = Cardinality(nonFamily)

(* A hold that was once recommended does not silently go away: as activity  *)
(* grows, every later evaluation of the month raises the alert again, under *)
(* the same alert_id and over at least the same transactions, or fails.     *)
AlertsPersist ==
  answer.status = "evaluated" =>
    \A r \in raised : r.month = answer.month =>
      \E a \in Range(answer.alerts) :
        /\ a.alert_id = r.alert_id
        /\ r.related \subseteq Range(a.related_transaction_ids)

(* No transaction backs alerts of two months.                               *)
MonthsAreDisjoint ==
  \A r, s \in raised : r.month # s.month => r.related \cap s.related = {}
=============================================================================
