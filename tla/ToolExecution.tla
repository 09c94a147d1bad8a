---------------------------- MODULE ToolExecution ----------------------------
(***************************************************************************)
(* The loop of execute_tool_calls: the batch limit, the set of fingerprints *)
(* already seen, and the outcome appended for every call.                   *)
(***************************************************************************)
EXTENDS ComplianceTools

CONSTANTS
  Calls,    \* the tool calls a planner or a client can request
  Batches   \* the call lists handed to execute_tool_calls

ASSUME BatchAssumption == Batches \subseteq Seq(Calls)

(* where the schema asks for an array, what is no array is Mistyped *)
ASSUME ArrayAssumption ==
  \A call \in Calls : "transaction_ids" \in DOMAIN call.arguments =>
    LET ids == call.arguments["transaction_ids"] IN ids = Mistyped \/ ids \in Seq(Range(ids))

VARIABLES
  calls,      \* the argument: the batch
  seen,       \* seen_fingerprints
  outcomes,   \* outcomes, one per call processed so far
  status      \* "entered", "looping", "returned" or "limit_exceeded"

vars == <<calls, seen, outcomes, status>>

Init ==
  /\ calls \in Batches
  /\ seen = {}
  /\ outcomes = <<>>
  /\ status = "entered"

Current == calls[Len(outcomes) + 1]

HasCurrent == status = "looping" /\ Len(outcomes) < Len(calls)

LimitOffByOne ==
  /\ status = "entered"
  /\ status' = IF Len(calls) > MaxToolCalls + 1 THEN "limit_exceeded" ELSE "looping"
  /\ UNCHANGED <<calls, seen, outcomes>>

CheckLimit ==
  /\ status = "entered"
  /\ status' = IF Len(calls) > MaxToolCalls THEN "limit_exceeded" ELSE "looping"
  /\ UNCHANGED <<calls, seen, outcomes>>

FallThrough ==
  /\ HasCurrent
  /\ Fingerprint(Current) \in seen
  /\ outcomes' = outcomes \o <<RejectedOutcome(Current, "duplicate_tool_call"), RunTool(Current)>>
  /\ UNCHANGED <<calls, seen, status>>

RejectDuplicate ==
  /\ HasCurrent
  /\ Fingerprint(Current) \in seen
  /\ outcomes' = Append(outcomes, RejectedOutcome(Current, "duplicate_tool_call"))
  /\ UNCHANGED <<calls, seen, status>>

RejectUnknown ==
  /\ HasCurrent
  /\ Fingerprint(Current) \notin seen
  /\ Current.name \notin TOOL_REGISTRY
  /\ seen' = seen \cup {Fingerprint(Current)}
  /\ outcomes' = Append(outcomes, RejectedOutcome(Current, "unknown_tool"))
  /\ UNCHANGED <<calls, status>>

RememberCompleted ==
  /\ HasCurrent
  /\ Fingerprint(Current) \notin seen
  /\ Current.name \in TOOL_REGISTRY
  /\ outcomes' = Append(outcomes, RunTool(Current))
  /\ seen' = IF RunTool(Current).status = "completed"
             THEN seen \cup {Fingerprint(Current)} ELSE seen
  /\ UNCHANGED <<calls, status>>

RunCurrent ==
  /\ HasCurrent
  /\ Fingerprint(Current) \notin seen
  /\ Current.name \in TOOL_REGISTRY
  /\ seen' = seen \cup {Fingerprint(Current)}
  /\ outcomes' = Append(outcomes, RunTool(Current))
  /\ UNCHANGED <<calls, status>>

Return ==
  /\ status = "looping"
  /\ Len(outcomes) = Len(calls)
  /\ status' = "returned"
  /\ UNCHANGED <<calls, seen, outcomes>>

Next == CheckLimit \/ RejectDuplicate \/ RejectUnknown \/ RunCurrent \/ Return

Spec == Init /\ [][Next]_vars

-----------------------------------------------------------------------------
(* The state's shape; processed calls and outcomes advance together.        *)
TypeOK ==
  /\ calls \in Batches
  /\ seen \subseteq {Fingerprint(c) : c \in Range(calls)}
  /\ Len(outcomes) <= Len(calls)
  /\ \A i \in DOMAIN outcomes : outcomes[i].status \in {"completed", "rejected"}
  /\ status \in {"entered", "looping", "returned", "limit_exceeded"}

SameRequest(a, b) == a.name = b.name /\ a.arguments = b.arguments

IsDuplicateReply(outcome) == outcome.error_code = "duplicate_tool_call"

(* Of the calls that ask for the same tool with the same arguments the      *)
(* first, whether it completed, failed or named no tool, is the only one    *)
(* answered by anything but duplicate_tool_call: seen_fingerprints keeps    *)
(* failures too, and never drops a fingerprint.                             *)
EachRequestAnsweredOnce ==
  \A j \in DOMAIN outcomes :
    IsDuplicateReply(outcomes[j]) <=> \E i \in 1..(j - 1) : SameRequest(calls[i], calls[j])

IsSummary(outcome) ==
  outcome.status = "completed" /\ outcome.name = SUMMARIZE_TRANSACTIONS

AddsUpExactly(summary) ==
  LET covered == {t \in Range(Case.transactions) :
                    t.transaction_id \in Range(summary.transaction_ids)}
      In(c)   == {t \in covered : t.currency = c}
  IN  /\ summary.transaction_count = Cardinality(covered)
      /\ summary.outbound_count = Cardinality({t \in covered : t.direction = "outbound"})
      /\ summary.inbound_count = Cardinality({t \in covered : t.direction # "outbound"})
      /\ DOMAIN summary.totals_by_currency = {t.currency : t \in covered}
      /\ \A c \in DOMAIN summary.totals_by_currency :
           summary.totals_by_currency[c] = MapThenSumSet(LAMBDA t : t.amount, In(c))

(* A completed summary adds every transaction it covers exactly once: the   *)
(* counts and running totals of _summarize_transactions agree with those of *)
(* the set of covered transactions, whatever list of ids the model sent.    *)
ExactSummary ==
  \A i \in DOMAIN outcomes : IsSummary(outcomes[i]) => AddsUpExactly(outcomes[i].output)

(* No tool result speaks of a customer or a transaction of another case,    *)
(* for any sequence of calls, whatever the model asked for.                 *)
ResultsStayInCase ==
  \A i \in DOMAIN outcomes : outcomes[i].status = "completed" =>
    IF outcomes[i].name = LOOKUP_CUSTOMER_RISK
    THEN /\ outcomes[i].output.customer_id = Case.customer_id
         /\ calls[i].arguments["customer_id"].text = Case.customer_id
    ELSE Range(outcomes[i].output.transaction_ids)
           \subseteq {t.transaction_id : t \in Range(Case.transactions)}

Batch == INSTANCE ToolBatch WITH
  Answer  <- ExecuteToolCalls,
  batch   <- calls,
  verdict <- IF status \in {"entered", "looping"} THEN "pending" ELSE status,
  answers <- IF status = "returned" THEN outcomes ELSE <<>>

(* The loop implements ToolBatch: it refuses a batch exactly when it is too *)
(* long, before any call runs, and otherwise answers all of it in order.    *)
ImplementsToolBatch == Batch!BatchSpec

(* The input model's value: stripped strings, the default filled in.        *)
ValidatedArguments(call) ==
  IF call.name = LOOKUP_CUSTOMER_RISK
  THEN <<call.arguments["customer_id"].text>>
  ELSE RequestedIds(call.arguments)

(* "prevents duplicate execution" (README): no two completed calls ran one  *)
(* tool on one validated input.  _call_fingerprint hashes the arguments     *)
(* before validation, so padded or defaulted arguments slip through.        *)
NoDuplicateExecution ==
  \A i, j \in DOMAIN outcomes :
    /\ i < j
    /\ outcomes[i].status = "completed" /\ outcomes[j].status = "completed"
    /\ calls[i].name = calls[j].name
    => ValidatedArguments(calls[i]) # ValidatedArguments(calls[j])
=============================================================================
