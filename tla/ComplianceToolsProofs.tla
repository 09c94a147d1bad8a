------------------------ MODULE ComplianceToolsProofs ------------------------
(***************************************************************************)
(* What the answer to one tool call, and to a list of them, always looks    *)
(* like, whatever is asked: the lemmas the loop and the agent rest on.      *)
(***************************************************************************)
EXTENDS ComplianceTools, TLAPS

(* An outcome is rejected exactly when it has an error code, and carries    *)
(* the id of its call.                                                      *)
IsOutcomeOf(outcome, call) ==
  /\ outcome.status \in {"completed", "rejected"}
  /\ outcome.status = "rejected" <=> outcome.error_code # None
  /\ outcome.call_id = call.call_id
  /\ outcome.name = call.name

(* The answer to a call that is no repetition is an outcome of that call    *)
(* and never duplicate_tool_call.                                           *)
LEMMA FirstOutcomeShape ==
  ASSUME NEW call
  PROVE  /\ IsOutcomeOf(FirstOutcome(call), call)
         /\ FirstOutcome(call).error_code # "duplicate_tool_call"
<1>1. ASSUME NEW code \in {"unknown_tool", "invalid_tool_arguments", "customer_not_in_case",
                           "transaction_not_in_case"}
      PROVE  /\ IsOutcomeOf(RejectedOutcome(call, code), call)
             /\ RejectedOutcome(call, code).error_code # "duplicate_tool_call"
  BY NoneAssumption DEF RejectedOutcome, IsOutcomeOf
<1>2. ASSUME NEW output
      PROVE  /\ IsOutcomeOf(CompletedOutcome(call, output), call)
             /\ CompletedOutcome(call, output).error_code # "duplicate_tool_call"
  BY NoneAssumption DEF CompletedOutcome, IsOutcomeOf
<1>3. CASE call.name \notin TOOL_REGISTRY
  BY <1>1, <1>3 DEF FirstOutcome
<1>4. CASE call.name \in TOOL_REGISTRY /\ call.name = LOOKUP_CUSTOMER_RISK
  BY <1>1, <1>2, <1>4 DEF FirstOutcome, RunTool, LookupCustomerRisk
<1>5. CASE call.name \in TOOL_REGISTRY /\ call.name # LOOKUP_CUSTOMER_RISK
  BY <1>1, <1>2, <1>5 DEF FirstOutcome, RunTool, SummarizeTransactions
<1>6. QED BY <1>3, <1>4, <1>5

(* A list of calls is answered call by call.                                *)
LEMMA AnswersShape ==
  ASSUME NEW calls, Len(calls) \in Nat
  PROVE  /\ DOMAIN ExecuteToolCalls(calls) = 1..Len(calls)
         /\ Len(ExecuteToolCalls(calls)) = Len(calls)
         /\ \A i \in 1..Len(calls) : IsOutcomeOf(ExecuteToolCalls(calls)[i], calls[i])
<1>1. DOMAIN ExecuteToolCalls(calls) = 1..Len(calls)
  BY DEF ExecuteToolCalls
<1>2. Len(ExecuteToolCalls(calls)) = Len(calls)
  BY DEF ExecuteToolCalls
<1>3. ASSUME NEW i \in 1..Len(calls)
      PROVE  IsOutcomeOf(ExecuteToolCalls(calls)[i], calls[i])
  <2>1. CASE IsRepeat(calls, i)
    BY <1>3, <2>1, NoneAssumption DEF ExecuteToolCalls, RejectedOutcome, IsOutcomeOf
  <2>2. CASE ~IsRepeat(calls, i)
    BY <1>3, <2>2, FirstOutcomeShape DEF ExecuteToolCalls
  <2>3. QED BY <2>1, <2>2
<1>4. QED BY <1>1, <1>2, <1>3

(* Arguments that are no JSON object, as the planner marks them, suit       *)
(* neither tool.                                                            *)
LEMMA MarkedArgumentsAreRejected ==
  ASSUME NEW calls, Len(calls) \in Nat, NEW i \in 1..Len(calls),
         calls[i].arguments = [malformed_arguments |-> TRUE]
  PROVE  ExecuteToolCalls(calls)[i].status = "rejected"
<1> DEFINE call == calls[i]
<1>1. DOMAIN call.arguments = {"malformed_arguments"}
  OBVIOUS
<1>2. ~LookupCustomerRiskInput(call.arguments) /\ ~SummarizeTransactionsInput(call.arguments)
  BY <1>1 DEF LookupCustomerRiskInput, SummarizeTransactionsInput
<1>3. FirstOutcome(call).status = "rejected"
  BY <1>2 DEF FirstOutcome, RunTool, LookupCustomerRisk, SummarizeTransactions, RejectedOutcome
<1>4. QED BY <1>3 DEF ExecuteToolCalls, RejectedOutcome
=============================================================================
