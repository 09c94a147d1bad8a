--------------------------- MODULE MCCaseContracts ---------------------------
(* One transaction more than fits a case; two transfers reach the count,    *)
(* five units the volume, and nine are too large a sum.  The customer's     *)
(* profile is once as it should be and once has the account opened on the   *)
(* day of birth; a second customer; an onboarding alert and two screening   *)
(* alerts, one of them about the other customer.                            *)
EXTENDS CaseTools

Transfer(id, amount, currency, relationship) ==
  [transaction_id |-> id, direction |-> "outbound", amount |-> amount, currency |-> currency,
   occurred_at |-> [local |-> 1, offset |-> 0],
   recipient_relationship |-> relationship, transfer_purpose |-> "other"]

MCTransactions ==
  { Transfer("tx_1", 2, "AED", "friend"), Transfer("tx_2", 5, "AED", "self"),
    Transfer("tx_3", 1, "EUR", "friend"),
    Transfer("tx_5", 4, "AED", "self"),
    [Transfer("tx_4", 5, "AED", "friend") EXCEPT !.direction = "inbound"] }

MCEvaluationMonths == {[year |-> 0, month |-> 0]}

Profile(id, born, opened) ==
  [customer_id |-> id, date_of_birth |-> born, account_opened_at |-> opened,
   nationality_codes |-> <<"AE">>]

MCCustomers == {Profile("cust_1", 1, 2), Profile("cust_1", 1, 1), Profile("cust_2", 1, 3)}

MCReviewAlerts ==
  { [alert_type |-> "onboarding_risk", customer_id |-> "cust_1"],
    [alert_type |-> "screening_match", customer_id |-> "cust_1",
     match_categories |-> {"sanctions"}],
    [alert_type |-> "screening_match", customer_id |-> "cust_2",
     match_categories |-> {"adverse_media", "sanctions"}] }
=============================================================================
