------------------------------ MODULE CaseTools ------------------------------
(***************************************************************************)
(* The compliance tools, on whatever case the contracts let through: what a *)
(* run would be told about the case that was posted.                        *)
(***************************************************************************)
EXTENDS CaseContracts

Texts == {t.transaction_id : t \in Transactions}
           \cup {c.customer_id : c \in Customers} \cup {CustomerId}

Json(text) == [text |-> text, padded |-> FALSE]

(* Python's None is no JSON string and no list of them *)
ASSUME JsonAssumption ==
  LET strings == {Json(text) : text \in Texts}
  IN  None \notin strings /\ None \notin BoundedSeq(strings, MaxTransactions)

(* The tools, on the case that was posted *)
Tools ==
  INSTANCE ComplianceTools WITH
    Case          <- [customer_id |-> posted.customer.customer_id,
                      transactions |-> posted.transactions],
    Identifiers   <- Texts,
    MaxIdList     <- MaxTransactions,
    MaxToolCalls  <- 1,
    Mistyped      <- None

Lookup(customer_id) ==
  Tools!FirstOutcome([call_id |-> "c1", name |-> "lookup_customer_risk",
                      arguments |-> [customer_id |-> Json(customer_id)]])

Summary(ids) ==
  Tools!FirstOutcome([call_id |-> "c1", name |-> "summarize_transactions",
                      arguments |-> [transaction_ids |-> [i \in DOMAIN ids |-> Json(ids[i])]]])

-----------------------------------------------------------------------------
(* The tools reach the figures the rules raised the alert for: a summary of *)
(* the transactions it names is all outbound, and counts or sums up to the  *)
(* metric of its rule, however much activity the case adds.                 *)
ToolsAgreeWithAlert ==
  verdict = "valid" /\ IsMonitoring(posted) =>
    LET alert   == posted.alert
        outcome == Summary(alert.related_transaction_ids)
    IN  /\ outcome.status = "completed"
        /\ outcome.output.inbound_count = 0
        /\ IF alert.rule_id = MONTHLY_AED_VOLUME_RULE_ID
           THEN outcome.output.totals_by_currency = [AED |-> alert.metrics.outbound_aed_total]
           ELSE outcome.output.outbound_count = alert.metrics.non_family_outbound_count

(* The tools can work on every case that was accepted, whatever its type:   *)
(* they know the customer that its alert is about, and summarise all of its *)
(* transactions although it may have none.                                  *)
EveryCaseIsInvestigable ==
  verdict = "valid" =>
    /\ Lookup(posted.alert.customer_id).status = "completed"
    /\ LET outcome == Summary(<<>>) IN
       /\ outcome.status = "completed"
       /\ outcome.output.transaction_count = Len(posted.transactions)
=============================================================================
