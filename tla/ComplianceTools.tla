--------------------------- MODULE ComplianceTools ---------------------------
(***************************************************************************)
(* The two read-only compliance tools and the treatment of one requested    *)
(* call: services/tools.py without its loop.  A tool call is a record       *)
(*   [call_id, name, arguments]                                             *)
(* whose arguments are a JSON object: a function from keys to values.  A    *)
(* JSON string is [text, padded], padded when white space surrounds it, so  *)
(* that what validation strips and the fingerprint keeps stays visible.     *)
(***************************************************************************)
EXTENDS TransactionLists

CONSTANTS
  Case,          \* the validated case: its ids and its sequence of transactions
  Identifiers,   \* the texts the Identifier pattern accepts
  MaxIdList,     \* longest transaction_ids list the schema accepts (500)
  MaxToolCalls,  \* agent_max_tool_calls
  Mistyped,      \* a JSON value of another type than the schema asks for
  None           \* Python's None

ASSUME LimitAssumption == MaxToolCalls \in Nat \ {0} /\ MaxIdList \in Nat

(* no error code is Python's None *)
ASSUME NoneAssumption ==
  None \notin {"unknown_tool", "duplicate_tool_call", "invalid_tool_arguments",
              "customer_not_in_case", "transaction_not_in_case"}

(* a validated case lists each transaction once; an amount is a number of   *)
(* its currency's smallest units                                            *)
ASSUME CaseAssumption ==
  /\ Case.transactions \in Seq(Range(Case.transactions))
  /\ IsInjective(Ids(Case.transactions))
  /\ \A t \in Range(Case.transactions) : t.amount \in Nat

LOOKUP_CUSTOMER_RISK == "lookup_customer_risk"
SUMMARIZE_TRANSACTIONS == "summarize_transactions"

-----------------------------------------------------------------------------
(* Input models: extra keys are forbidden, strings are stripped.            *)

Strip(value) == value.text

IsIdentifier(value) == value # Mistyped /\ Strip(value) \in Identifiers

LookupCustomerRiskInput(arguments) ==
  /\ DOMAIN arguments = {"customer_id"}
  /\ IsIdentifier(arguments["customer_id"])

(* transaction_ids defaults to the empty list *)
RequestedIds(arguments) ==
  IF "transaction_ids" \in DOMAIN arguments
  THEN [i \in DOMAIN arguments["transaction_ids"] |->
          Strip(arguments["transaction_ids"][i])]
  ELSE <<>>

DuplicateIdsAccepted(arguments) ==
  /\ DOMAIN arguments \subseteq {"transaction_ids"}
  /\ "transaction_ids" \in DOMAIN arguments =>
       LET ids == arguments["transaction_ids"] IN
       /\ ids # Mistyped
       /\ Len(ids) <= MaxIdList
       /\ \A i \in DOMAIN ids : IsIdentifier(ids[i])

SummarizeTransactionsInput(arguments) ==
  /\ DOMAIN arguments \subseteq {"transaction_ids"}
  /\ "transaction_ids" \in DOMAIN arguments =>
       LET ids == arguments["transaction_ids"] IN
       /\ ids # Mistyped
       /\ Len(ids) <= MaxIdList
       /\ \A i \in DOMAIN ids : IsIdentifier(ids[i])
       /\ IsInjective(RequestedIds(arguments))

-----------------------------------------------------------------------------
(* Handlers *)

TransactionIds == Ids(Case.transactions)

SelectedIds(requested) == IF requested = <<>> THEN TransactionIds ELSE requested

UnknownIds(ids) == Range(ids) \ Range(TransactionIds)

(* the running totals, one currency at a time *)
CurrencyTotal(selected, currency) ==
  Total(Selected(selected, {t \in Range(selected) : t.currency = currency}))

TransactionSummary(ids) ==
  LET selected == Named(Case.transactions, ids)
      outbound == Len(Selected(selected, {t \in Range(selected) : t.direction = "outbound"}))
  IN  [transaction_count  |-> Len(selected),
       outbound_count     |-> outbound,
       inbound_count      |-> Len(selected) - outbound,
       totals_by_currency |-> [c \in {t.currency : t \in Range(selected)} |->
                                 CurrencyTotal(selected, c)],
       transaction_ids    |-> ids]

CustomerRiskSnapshot == [customer_id |-> Case.customer_id]

-----------------------------------------------------------------------------
(* Outcomes *)

CompletedOutcome(call, output) ==
  [call_id |-> call.call_id, name |-> call.name, status |-> "completed",
   error_code |-> None, output |-> output]

RejectedOutcome(call, code) ==
  [call_id |-> call.call_id, name |-> call.name, status |-> "rejected",
   error_code |-> code, output |-> None]

AnyCustomer(call) ==
  IF LookupCustomerRiskInput(call.arguments)
  THEN CompletedOutcome(call, [customer_id |-> Strip(call.arguments["customer_id"])])
  ELSE RejectedOutcome(call, "invalid_tool_arguments")

LookupCustomerRisk(call) ==
  CASE ~LookupCustomerRiskInput(call.arguments) ->
         RejectedOutcome(call, "invalid_tool_arguments")
    [] LookupCustomerRiskInput(call.arguments)
       /\ Strip(call.arguments["customer_id"]) # Case.customer_id ->
         RejectedOutcome(call, "customer_not_in_case")
    [] OTHER -> CompletedOutcome(call, CustomerRiskSnapshot)

SummarizeTransactions(call) ==
  LET ids == SelectedIds(RequestedIds(call.arguments)) IN
  CASE ~SummarizeTransactionsInput(call.arguments) ->
         RejectedOutcome(call, "invalid_tool_arguments")
    [] SummarizeTransactionsInput(call.arguments) /\ UnknownIds(ids) # {} ->
         RejectedOutcome(call, "transaction_not_in_case")
    [] OTHER -> CompletedOutcome(call, TransactionSummary(ids))

TOOL_REGISTRY == {LOOKUP_CUSTOMER_RISK, SUMMARIZE_TRANSACTIONS}

(* validate the arguments of an allowlisted call and run its handler *)
RunTool(call) ==
  IF call.name = LOOKUP_CUSTOMER_RISK
  THEN LookupCustomerRisk(call)
  ELSE SummarizeTransactions(call)

FirstOutcome(call) ==
  IF call.name \in TOOL_REGISTRY
  THEN RunTool(call)
  ELSE RejectedOutcome(call, "unknown_tool")

-----------------------------------------------------------------------------
(* Canonical JSON of name and raw arguments: equal exactly when both are.   *)
Fingerprint(call) == <<call.name, call.arguments>>

IsRepeat(calls, i) ==
  \E j \in 1..(i - 1) : Fingerprint(calls[j]) = Fingerprint(calls[i])

(* What execute_tool_calls returns, without its loop.                       *)
ExecuteToolCalls(calls) ==
  [i \in 1..Len(calls) |->
     IF IsRepeat(calls, i)
     THEN RejectedOutcome(calls[i], "duplicate_tool_call")
     ELSE FirstOutcome(calls[i])]
=============================================================================
