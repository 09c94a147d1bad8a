--------------------------- MODULE MCToolExecution ---------------------------
(* One case of three transactions in two currencies; eleven calls that      *)
(* reach every outcome; every batch of up to three of them, the limit, and  *)
(* batches of four that the limit refuses.                                  *)
EXTENDS ToolExecution

Tx(id, currency, direction, amount) ==
  [transaction_id |-> id, currency |-> currency, direction |-> direction, amount |-> amount]

MCCase ==
  [case_id |-> "case_1", alert_id |-> "alert_1", customer_id |-> "cust_1",
   transactions |-> << Tx("tx_1", "EUR", "outbound", 5), Tx("tx_2", "EUR", "inbound", 7),
                       Tx("tx_3", "PKR", "outbound", 11) >>]

MCIdentifiers == {"cust_1", "cust_2", "tx_1", "tx_2", "tx_3", "tx_9"}

Str(text) == [text |-> text, padded |-> FALSE]
PaddedStr(text) == [text |-> text, padded |-> TRUE]
NoArguments == [key \in {} |-> None]

Lookup(id, customer) ==
  [call_id |-> id, name |-> LOOKUP_CUSTOMER_RISK, arguments |-> [customer_id |-> customer]]
Summarize(id, arguments) ==
  [call_id |-> id, name |-> SUMMARIZE_TRANSACTIONS, arguments |-> arguments]

MCCalls ==
  { Lookup("c1", Str("cust_1")), Lookup("c2", PaddedStr("cust_1")), Lookup("c3", Str("cust_2")),
    Lookup("c4", Mistyped),
    Summarize("c5", NoArguments),
    Summarize("c5", [transaction_ids |-> <<>>]),
    Summarize("c6", [transaction_ids |-> <<Str("tx_1"), Str("tx_2")>>]),
    Summarize("c7", [transaction_ids |-> <<Str("tx_1"), PaddedStr("tx_1")>>]),
    Summarize("c8", [transaction_ids |-> <<Str("tx_9")>>]),
    Summarize("c9", [malformed_arguments |-> TRUE]),
    [call_id |-> "c1", name |-> "close_account", arguments |-> NoArguments] }

MCBatches ==
  BoundedSeq(MCCalls, MaxToolCalls) \cup {[i \in 1..(MaxToolCalls + 1) |-> c] : c \in MCCalls}
=============================================================================
