-------------------------- MODULE MCRecommendation --------------------------
(* Two retries inside, one outside, and replies that are grounded, that     *)
(* cite a rejected call, another case, an unknown id, a policy or a source  *)
(* the case cannot contain.                                                 *)
EXTENDS Recommendation

MCCase ==
  [case_id |-> "case_1", alert_id |-> "alert_1", customer_id |-> "cust_1",
   transactions |-> << [transaction_id |-> "tx_1", currency |-> "EUR",
                        direction |-> "outbound", amount |-> 5] >>]

MCIdentifiers == {"cust_1", "tx_1"}

Completed(id) == CompletedOutcome([call_id |-> id, name |-> LOOKUP_CUSTOMER_RISK],
                                  CustomerRiskSnapshot)
Rejected(id) == RejectedOutcome([call_id |-> id, name |-> "close_account"], "unknown_tool")

MCOutcomeLists == {<<>>, <<Completed("c1")>>, <<Rejected("c1")>>,
                   <<Completed("c1"), Rejected("c2")>>}

Recommends(case_id, evidence, cites_policy) ==
  [case_id |-> case_id, cites_policy |-> cites_policy,
   evidence |-> {[source |-> e[1], source_id |-> e[2]] : e \in evidence}]

MCRecommendations ==
  { Recommends("case_1", {<<"case_input", "tx_1">>}, FALSE),
    Recommends("case_1", {<<"case_input", "alert_1">>, <<"tool_result", "c1">>}, FALSE),
    Recommends("case_1", {<<"tool_result", "c2">>}, FALSE),
    Recommends("case_1", {<<"case_input", "tx_9">>}, FALSE),
    Recommends("case_2", {<<"case_input", "tx_1">>}, FALSE),
    Recommends("case_1", {<<"case_input", "tx_1">>}, TRUE),
    Recommends("case_1", {<<"policy", "c1">>}, FALSE) }

=============================================================================
