-------------------------- MODULE MCTransactionRules --------------------------
(* Years of two months of two hours; two transfers reach the count, five    *)
(* units reach the volume, and nine are the largest sum.  The transactions  *)
(* sit on both sides of the month borders, some only by their zone.         *)
EXTENDS TransactionRules

Transfer(id, local, offset, amount, currency, relationship, purpose) ==
  [transaction_id |-> id, direction |-> "outbound", amount |-> amount, currency |-> currency,
   occurred_at |-> [local |-> local, offset |-> offset],
   recipient_relationship |-> relationship, transfer_purpose |-> purpose]

MCTransactions ==
  { Transfer("tx_1", 1, 0, 2, "AED", "friend", "other"),
    Transfer("tx_2", 2, 1, 3, "AED", "business", "other"),
    Transfer("tx_3", 0, 0, 5, "AED", "friend", "family_support"),
    Transfer("tx_4", 4, 0, 5, "AED", "unknown", "other"),
    Transfer("tx_5", 1, -1, 1, "EUR", "other", "other"),
    Transfer("tx_6", 0, 1, 1, "AED", "friend", "other"),
    [Transfer("tx_7", 0, 1, 9, "AED", "friend", "other") EXCEPT !.direction = "inbound"],
    Transfer("tx_8", 5, 0, 1, "EUR", "friend", "other") }

MCEvaluationMonths == {[year |-> 0, month |-> 0], [year |-> 0, month |-> 1],
                       [year |-> 1, month |-> 0]}
=============================================================================
