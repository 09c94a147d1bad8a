------------------------- MODULE ToolExecutionProofs -------------------------
(***************************************************************************)
(* The loop of execute_tool_calls for every case, every set of batches and  *)
(* every limit: what it has answered is a prefix of what ToolBatch promises *)
(* and seen_fingerprints holds exactly the fingerprints of those calls.     *)
(***************************************************************************)
EXTENDS ToolExecution, ComplianceToolsProofs, TransactionListsProofs

(* every outcome some call can be answered with *)
PossibleOutcomes ==
  {FirstOutcome(c) : c \in Calls} \cup {RejectedOutcome(c, "duplicate_tool_call") : c \in Calls}

Progress ==
  /\ calls \in Batches
  /\ outcomes \in Seq(PossibleOutcomes)
  /\ Len(outcomes) <= Len(calls)
  /\ status \in {"entered", "looping", "returned", "limit_exceeded"}

AnswersArePrefix ==
  \A i \in 1..Len(outcomes) : outcomes[i] = ExecuteToolCalls(calls)[i]

SeenAreAnswered == seen = {Fingerprint(calls[j]) : j \in 1..Len(outcomes)}

StatusAgrees ==
  /\ status \in {"entered", "limit_exceeded"} => outcomes = <<>>
  /\ status \in {"looping", "returned"} => Len(calls) <= MaxToolCalls
  /\ status = "limit_exceeded" => Len(calls) > MaxToolCalls
  /\ status = "returned" => Len(outcomes) = Len(calls)

LoopInv == Progress /\ AnswersArePrefix /\ SeenAreAnswered /\ StatusAgrees

-----------------------------------------------------------------------------
(* Fingerprints separate requests: equal for equal name and arguments only. *)
LEMMA FingerprintIdentifies ==
  ASSUME NEW a, NEW b
  PROVE  Fingerprint(a) = Fingerprint(b) <=> SameRequest(a, b)
BY DEF Fingerprint, SameRequest

(* What the loop appends for the current call is its place in the answer.   *)
LEMMA CurrentAnswer ==
  ASSUME LoopInv, HasCurrent
  PROVE  LET n == Len(outcomes) + 1 IN
         /\ n \in 1..Len(calls)
         /\ Current \in Calls
         /\ Fingerprint(Current) \in seen <=> IsRepeat(calls, n)
         /\ ExecuteToolCalls(calls)[n] = IF IsRepeat(calls, n)
                                         THEN RejectedOutcome(Current, "duplicate_tool_call")
                                         ELSE FirstOutcome(Current)
<1> DEFINE n == Len(outcomes) + 1
<1>1. calls \in Seq(Calls) /\ Len(calls) \in Nat /\ Len(outcomes) \in Nat
  BY BatchAssumption DEF LoopInv, Progress
<1>2. n \in 1..Len(calls) /\ calls[n] \in Calls
  BY <1>1 DEF HasCurrent
<1>3. Fingerprint(Current) \in seen <=> IsRepeat(calls, n)
  <2>1. n - 1 = Len(outcomes)
    BY <1>1
  <2>2. QED BY <2>1 DEF LoopInv, SeenAreAnswered, IsRepeat, Current
<1>4. QED BY <1>2, <1>3 DEF ExecuteToolCalls, Current

(* Appending the right answer and remembering the fingerprint keeps LoopInv. *)
LEMMA AppendKeepsInv ==
  ASSUME LoopInv, HasCurrent,
         outcomes' = Append(outcomes, ExecuteToolCalls(calls)[Len(outcomes) + 1]),
         seen' = seen \cup {Fingerprint(Current)},
         UNCHANGED <<calls, status>>
  PROVE  LoopInv'
<1> DEFINE n == Len(outcomes) + 1
<1>1. /\ calls \in Seq(Calls) /\ Len(calls) \in Nat /\ Len(outcomes) \in Nat
      /\ outcomes \in Seq(PossibleOutcomes)
  BY BatchAssumption DEF LoopInv, Progress
<1>2. n \in 1..Len(calls) /\ Current \in Calls
  BY CurrentAnswer
<1>3. ExecuteToolCalls(calls)[n] \in PossibleOutcomes
  BY <1>2, CurrentAnswer DEF PossibleOutcomes
<1>4. outcomes' \in Seq(PossibleOutcomes) /\ Len(outcomes') = n
  BY <1>1, <1>3
<1>5. Progress'
  BY <1>1, <1>2, <1>4 DEF LoopInv, Progress
<1>6. AnswersArePrefix'
  <2> SUFFICES ASSUME NEW i \in 1..n PROVE outcomes'[i] = ExecuteToolCalls(calls)[i]
    BY <1>4 DEF AnswersArePrefix
  <2>1. CASE i = n
    BY <2>1, <1>1, <1>3
  <2>2. CASE i # n
    <3>1. i \in 1..Len(outcomes)
      BY <2>2, <1>1
    <3>2. outcomes'[i] = outcomes[i]
      BY <3>1, <1>1, <1>3
    <3>3. QED BY <3>1, <3>2 DEF LoopInv, AnswersArePrefix
  <2>3. QED BY <2>1, <2>2
<1>7. SeenAreAnswered'
  <2>1. 1..n = (1..Len(outcomes)) \cup {n}
    BY <1>1
  <2>2. QED BY <2>1, <1>4 DEF LoopInv, SeenAreAnswered, Current
<1>8. StatusAgrees'
  BY <1>4 DEF LoopInv, StatusAgrees, HasCurrent
<1>9. QED BY <1>5, <1>6, <1>7, <1>8 DEF LoopInv

LEMMA InitEstablishesInv == Init => LoopInv
<1> SUFFICES ASSUME Init PROVE LoopInv
  OBVIOUS
<1>1. calls \in Seq(Calls) /\ Len(calls) \in Nat
  BY BatchAssumption DEF Init
<1>2. QED
  BY <1>1 DEF Init, LoopInv, Progress, AnswersArePrefix, SeenAreAnswered, StatusAgrees

LEMMA NextKeepsInv == LoopInv /\ [Next]_vars => LoopInv'
<1> SUFFICES ASSUME LoopInv, [Next]_vars PROVE LoopInv'
  OBVIOUS
<1>0. /\ Len(calls) \in Nat /\ MaxToolCalls \in Nat
  BY BatchAssumption, LimitAssumption DEF LoopInv, Progress
<1>1. CASE CheckLimit
  BY <1>0, <1>1 DEF LoopInv, CheckLimit, Progress, AnswersArePrefix, SeenAreAnswered, StatusAgrees
<1>2. CASE RejectDuplicate
  <2>1. outcomes' = Append(outcomes, ExecuteToolCalls(calls)[Len(outcomes) + 1])
    BY <1>2, CurrentAnswer DEF RejectDuplicate
  <2>2. seen' = seen \cup {Fingerprint(Current)}
    BY <1>2 DEF RejectDuplicate
  <2>3. QED BY <1>2, <2>1, <2>2, AppendKeepsInv DEF RejectDuplicate
<1>3. CASE RejectUnknown
  <2>1. outcomes' = Append(outcomes, ExecuteToolCalls(calls)[Len(outcomes) + 1])
    BY <1>3, CurrentAnswer DEF RejectUnknown, FirstOutcome
  <2>2. QED BY <1>3, <2>1, AppendKeepsInv DEF RejectUnknown
<1>4. CASE RunCurrent
  <2>1. outcomes' = Append(outcomes, ExecuteToolCalls(calls)[Len(outcomes) + 1])
    BY <1>4, CurrentAnswer DEF RunCurrent, FirstOutcome
  <2>2. QED BY <1>4, <2>1, AppendKeepsInv DEF RunCurrent
<1>5. CASE Return
  BY <1>5 DEF LoopInv, Return, Progress, AnswersArePrefix, SeenAreAnswered, StatusAgrees
<1>6. CASE UNCHANGED vars
  BY <1>6 DEF LoopInv, vars, Progress, AnswersArePrefix, SeenAreAnswered, StatusAgrees
<1>7. QED BY <1>1, <1>2, <1>3, <1>4, <1>5, <1>6 DEF Next

(* The loop invariant holds throughout every execution of the loop.         *)
THEOREM LoopInvariant == Spec => []LoopInv
BY InitEstablishesInv, NextKeepsInv, PTL DEF Spec

-----------------------------------------------------------------------------
(* The shape of the state, for every batch.                                 *)
THEOREM TypeCorrect == Spec => []TypeOK
<1>1. LoopInv => TypeOK
  <2> SUFFICES ASSUME LoopInv PROVE TypeOK
    OBVIOUS
  <2>1. calls \in Seq(Calls) /\ Len(calls) \in Nat /\ Len(outcomes) \in Nat
    BY BatchAssumption DEF LoopInv, Progress
  <2>2. seen \subseteq {Fingerprint(c) : c \in Range(calls)}
    BY <2>1 DEF LoopInv, Progress, SeenAreAnswered, Range
  <2>3. ASSUME NEW i \in DOMAIN outcomes
        PROVE  outcomes[i].status \in {"completed", "rejected"}
    <3>1. outcomes[i] \in PossibleOutcomes
      BY <2>3 DEF LoopInv, Progress
    <3>2. QED BY <3>1, FirstOutcomeShape DEF PossibleOutcomes, RejectedOutcome, IsOutcomeOf
  <2>4. QED BY <2>2, <2>3 DEF LoopInv, Progress, TypeOK
<1>2. QED BY <1>1, LoopInvariant, PTL

(* Every request is answered once, and every repetition of it is rejected,  *)
(* for every batch of every length within the limit.                        *)
THEOREM AnsweredOnce == Spec => []EachRequestAnsweredOnce
<1>1. LoopInv => EachRequestAnsweredOnce
  <2> SUFFICES ASSUME LoopInv, NEW j \in DOMAIN outcomes
               PROVE  IsDuplicateReply(outcomes[j])
                        <=> \E i \in 1..(j - 1) : SameRequest(calls[i], calls[j])
    BY DEF EachRequestAnsweredOnce
  <2>1. /\ calls \in Seq(Calls) /\ Len(calls) \in Nat /\ Len(outcomes) \in Nat
        /\ DOMAIN outcomes = 1..Len(outcomes)
    BY BatchAssumption DEF LoopInv, Progress
  <2>2. j \in 1..Len(outcomes) /\ j \in 1..Len(calls)
    BY <2>1 DEF LoopInv, Progress
  <2>3. outcomes[j] = IF IsRepeat(calls, j)
                      THEN RejectedOutcome(calls[j], "duplicate_tool_call")
                      ELSE FirstOutcome(calls[j])
    BY <2>2 DEF LoopInv, AnswersArePrefix, ExecuteToolCalls
  <2>4. IsRepeat(calls, j) <=> \E i \in 1..(j - 1) : SameRequest(calls[i], calls[j])
    BY FingerprintIdentifies DEF IsRepeat
  <2>5. IsDuplicateReply(outcomes[j]) <=> IsRepeat(calls, j)
    BY <2>3, FirstOutcomeShape DEF IsDuplicateReply, RejectedOutcome
  <2>6. QED BY <2>4, <2>5
<1>2. QED BY <1>1, LoopInvariant, PTL

-----------------------------------------------------------------------------
(* A completed first answer is about the case's customer or transactions.   *)
LEMMA CompletedIsOfCase ==
  ASSUME NEW call, FirstOutcome(call).status = "completed"
  PROVE  /\ FirstOutcome(call).name = call.name
         /\ call.name = LOOKUP_CUSTOMER_RISK =>
              /\ FirstOutcome(call).output.customer_id = Case.customer_id
              /\ call.arguments["customer_id"].text = Case.customer_id
         /\ call.name # LOOKUP_CUSTOMER_RISK =>
              Range(FirstOutcome(call).output.transaction_ids)
                \subseteq {t.transaction_id : t \in Range(Case.transactions)}
<1>1. call.name \in TOOL_REGISTRY /\ FirstOutcome(call) = RunTool(call)
  BY DEF FirstOutcome, RejectedOutcome
<1>2. CASE call.name = LOOKUP_CUSTOMER_RISK
  <2>1. RunTool(call) = LookupCustomerRisk(call)
    BY <1>2 DEF RunTool
  <2>2. /\ LookupCustomerRiskInput(call.arguments)
        /\ Strip(call.arguments["customer_id"]) = Case.customer_id
    BY <1>1, <2>1 DEF LookupCustomerRisk, RejectedOutcome
  <2>3. LookupCustomerRisk(call) = CompletedOutcome(call, CustomerRiskSnapshot)
    BY <2>2 DEF LookupCustomerRisk
  <2>4. QED
    BY <1>1, <1>2, <2>1, <2>2, <2>3 DEF CompletedOutcome, CustomerRiskSnapshot, Strip
<1>3. CASE call.name # LOOKUP_CUSTOMER_RISK
  <2> DEFINE ids == SelectedIds(RequestedIds(call.arguments))
  <2>1. RunTool(call) = SummarizeTransactions(call)
    BY <1>3 DEF RunTool
  <2>2. SummarizeTransactionsInput(call.arguments) /\ UnknownIds(ids) = {}
    BY <1>1, <2>1 DEF SummarizeTransactions, RejectedOutcome
  <2>3. SummarizeTransactions(call) = CompletedOutcome(call, TransactionSummary(ids))
    BY <2>2 DEF SummarizeTransactions
  <2>4. TransactionSummary(ids).transaction_ids = ids
    BY DEF TransactionSummary
  <2>5. Range(ids) \subseteq Range(TransactionIds)
    BY <2>2 DEF UnknownIds
  <2>6. Range(TransactionIds) = {t.transaction_id : t \in Range(Case.transactions)}
    BY DEF TransactionIds, Ids, Range
  <2>7. QED
    BY <1>1, <1>3, <2>1, <2>3, <2>4, <2>5, <2>6 DEF CompletedOutcome
<1>4. QED BY <1>2, <1>3

(* No tool result speaks of another case, whatever the case, the registry   *)
(* calls and the order they come in.                                        *)
THEOREM ResultsOfCaseOnly == Spec => []ResultsStayInCase
<1>1. LoopInv => ResultsStayInCase
  <2> SUFFICES ASSUME LoopInv, NEW i \in DOMAIN outcomes, outcomes[i].status = "completed"
               PROVE  IF outcomes[i].name = LOOKUP_CUSTOMER_RISK
                      THEN /\ outcomes[i].output.customer_id = Case.customer_id
                           /\ calls[i].arguments["customer_id"].text = Case.customer_id
                      ELSE Range(outcomes[i].output.transaction_ids)
                             \subseteq {t.transaction_id : t \in Range(Case.transactions)}
    BY DEF ResultsStayInCase
  <2>1. i \in 1..Len(outcomes) /\ i \in 1..Len(calls)
    BY BatchAssumption DEF LoopInv, Progress
  <2>2. outcomes[i] = IF IsRepeat(calls, i)
                      THEN RejectedOutcome(calls[i], "duplicate_tool_call")
                      ELSE FirstOutcome(calls[i])
    BY <2>1 DEF LoopInv, AnswersArePrefix, ExecuteToolCalls
  <2>3. outcomes[i] = FirstOutcome(calls[i])
    BY <2>2 DEF RejectedOutcome
  <2>4. QED BY <2>3, CompletedIsOfCase
<1>2. QED BY <1>1, LoopInvariant, PTL

-----------------------------------------------------------------------------
(* The ids a summary is computed for, the default filled in, are ids of the *)
(* case, each once: validation refuses a list with a repetition, and the    *)
(* case has none.                                                           *)
LEMMA SummarizedIds ==
  ASSUME NEW call \in Calls, SummarizeTransactionsInput(call.arguments),
         UnknownIds(SelectedIds(RequestedIds(call.arguments))) = {}
  PROVE  LET ids == SelectedIds(RequestedIds(call.arguments)) IN
         /\ ids \in Seq(Range(ids)) /\ IsInjective(ids)
         /\ Range(ids) \subseteq Range(Ids(Case.transactions))
<1> DEFINE arguments == call.arguments
           given == arguments["transaction_ids"]
           requested == RequestedIds(arguments)
           ids == SelectedIds(requested)
<1>1. Range(ids) \subseteq Range(Ids(Case.transactions))
  BY DEF UnknownIds, TransactionIds
<1>2. CASE requested = <<>>
  <2>1. ids = Ids(Case.transactions)
    BY <1>2 DEF SelectedIds, TransactionIds
  <2>2. Case.transactions \in Seq(Range(Case.transactions)) /\ IsInjective(ids)
    BY <2>1, CaseAssumption
  <2>3. DOMAIN ids = 1..Len(Case.transactions) /\ Len(Case.transactions) \in Nat
    BY <2>1, <2>2, IdsOfAList
  <2>4. ids = [i \in 1..Len(Case.transactions) |-> ids[i]]
    BY <2>1, <2>3 DEF Ids
  <2>5. ids \in Seq(Range(ids))
    BY <2>3, <2>4 DEF Range
  <2>6. QED BY <1>1, <2>2, <2>5
<1>3. CASE requested # <<>>
  <2>1. ids = requested
    BY <1>3 DEF SelectedIds
  <2>2. "transaction_ids" \in DOMAIN arguments
    BY <1>3 DEF RequestedIds
  <2>3. given # Mistyped /\ IsInjective(requested)
    BY <2>2 DEF SummarizeTransactionsInput
  <2>4. given \in Seq(Range(given))
    BY <2>2, <2>3, ArrayAssumption
  <2>5. requested = [i \in 1..Len(given) |-> Strip(given[i])] /\ Len(given) \in Nat
    BY <2>2, <2>4 DEF RequestedIds
  <2> HIDE DEF requested, ids, given
  <2>6. requested \in Seq(Range(requested))
    BY <2>5 DEF Range
  <2>7. QED BY <1>1, <2>1, <2>3, <2>6 DEF ids, requested
<1>4. QED BY <1>2, <1>3

(* A summary for such ids counts and adds what it covers as a set.          *)
LEMMA SummaryCountsOnce ==
  ASSUME NEW ids, ids \in Seq(Range(ids)), IsInjective(ids),
         Range(ids) \subseteq Range(Ids(Case.transactions))
  PROVE  /\ AddsUpExactly(TransactionSummary(ids))
         /\ TransactionSummary(ids).transaction_ids = ids
<1> DEFINE T == Range(Case.transactions)
           covered == {t \in T : t.transaction_id \in Range(ids)}
           selected == Named(Case.transactions, ids)
           outgoing == {t \in covered : t.direction = "outbound"}
           incoming == {t \in covered : t.direction # "outbound"}
           In(c) == {t \in covered : t.currency = c}
           summary == TransactionSummary(ids)
<1>1. /\ Case.transactions \in Seq(T) /\ IsInjective(Ids(Case.transactions))
      /\ \A t \in T : t.amount \in Nat
  BY CaseAssumption
<1>2. /\ selected \in Seq(T) /\ IsInjective(selected) /\ Range(selected) = covered
  BY <1>1, NamedShape
<1>3. /\ summary.transaction_ids = ids /\ summary.transaction_count = Len(selected)
      /\ summary.outbound_count =
           Len(Selected(selected, {t \in Range(selected) : t.direction = "outbound"}))
      /\ summary.inbound_count = summary.transaction_count - summary.outbound_count
      /\ DOMAIN summary.totals_by_currency = {t.currency : t \in Range(selected)}
      /\ \A c \in DOMAIN summary.totals_by_currency :
           summary.totals_by_currency[c] =
             Total(Selected(selected, {t \in Range(selected) : t.currency = c}))
  BY DEF TransactionSummary, CurrencyTotal
<1>4. outgoing \subseteq covered /\ incoming = covered \ outgoing
      /\ covered \subseteq T /\ \A c : In(c) \subseteq covered
  OBVIOUS
<1>5. /\ {t \in Range(selected) : t.direction = "outbound"} = outgoing
      /\ {t.currency : t \in Range(selected)} = {t.currency : t \in covered}
      /\ \A c : {t \in Range(selected) : t.currency = c} = In(c)
  BY <1>2
<1> HIDE DEF T, covered, selected, outgoing, incoming, In, summary
<1>6. IsFiniteSet(covered) /\ Cardinality(covered) = Len(selected)
  BY <1>2, LengthIsCardinality
<1>7. Len(Selected(selected, outgoing)) = Cardinality(outgoing)
  <2>1. covered \cap outgoing = outgoing
    BY <1>4
  <2>2. QED BY <1>1, <1>2, <2>1, SelectionIsCounted
<1>8. Cardinality(incoming) = Cardinality(covered) - Cardinality(outgoing)
  <2>1. covered \cap outgoing = outgoing
    BY <1>4
  <2>2. Cardinality(covered \ outgoing) = Cardinality(covered) - Cardinality(covered \cap outgoing)
    BY <1>6, FS_Difference
  <2>3. QED BY <1>4, <2>1, <2>2
<1>9. ASSUME NEW c
      PROVE  Total(Selected(selected, In(c))) = MapThenSumSet(LAMBDA t : t.amount, In(c))
  <2>1. covered \cap In(c) = In(c)
    BY <1>4
  <2>2. Total(Selected(selected, In(c))) = Volume(In(c)) /\ IsFiniteSet(In(c))
    BY <1>1, <1>2, <2>1, SelectionIsCounted
  <2>3. \A t \in In(c) : t.amount \in Nat
    BY <1>1, <1>4
  <2>4. QED BY <2>2, <2>3, SumIsVolume
<1>10. summary.outbound_count = Cardinality(outgoing)
  BY <1>3, <1>5, <1>7
<1>11. summary.inbound_count = Cardinality(incoming)
  BY <1>3, <1>6, <1>8, <1>10
<1>12. \A c \in DOMAIN summary.totals_by_currency :
         summary.totals_by_currency[c] = MapThenSumSet(LAMBDA t : t.amount, In(c))
  BY <1>3, <1>5, <1>9, Zenon
<1>13. /\ summary.transaction_count = Cardinality(covered)
       /\ DOMAIN summary.totals_by_currency = {t.currency : t \in covered}
       /\ summary.transaction_ids = ids
  BY <1>3, <1>5, <1>6
<1>14. QED BY <1>10, <1>11, <1>12, <1>13, Zenon
           DEF AddsUpExactly, summary, covered, T, outgoing, incoming, In

(* Every completed summary is exact, for every case, every list of ids the  *)
(* model can send and every batch of calls.                                 *)
THEOREM SummariesAreExact == Spec => []ExactSummary
<1>1. LoopInv => ExactSummary
  <2> SUFFICES ASSUME LoopInv, NEW i \in DOMAIN outcomes, IsSummary(outcomes[i])
               PROVE  AddsUpExactly(outcomes[i].output)
    BY DEF ExactSummary
  <2> DEFINE call == calls[i]
             ids == SelectedIds(RequestedIds(call.arguments))
  <2>1. i \in 1..Len(outcomes) /\ i \in 1..Len(calls) /\ call \in Calls
    BY BatchAssumption DEF LoopInv, Progress
  <2>2. outcomes[i] = IF IsRepeat(calls, i) THEN RejectedOutcome(call, "duplicate_tool_call")
                      ELSE FirstOutcome(call)
    BY <2>1 DEF LoopInv, AnswersArePrefix, ExecuteToolCalls
  <2>3. outcomes[i] = FirstOutcome(call) /\ outcomes[i].status = "completed"
        /\ outcomes[i].name = SUMMARIZE_TRANSACTIONS
    BY <2>2 DEF RejectedOutcome, IsSummary
  <2>4. call.name = SUMMARIZE_TRANSACTIONS
    BY <2>3, FirstOutcomeShape DEF IsOutcomeOf
  <2>5. outcomes[i] = SummarizeTransactions(call)
    BY <2>3, <2>4 DEF FirstOutcome, RunTool, TOOL_REGISTRY, LOOKUP_CUSTOMER_RISK,
                      SUMMARIZE_TRANSACTIONS
  <2>6. SummarizeTransactionsInput(call.arguments) /\ UnknownIds(ids) = {}
    BY <2>3, <2>5 DEF SummarizeTransactions, RejectedOutcome
  <2>7. outcomes[i].output = TransactionSummary(ids)
    BY <2>5, <2>6 DEF SummarizeTransactions, CompletedOutcome
  <2>8. /\ ids \in Seq(Range(ids)) /\ IsInjective(ids)
        /\ Range(ids) \subseteq Range(Ids(Case.transactions))
    BY <2>1, <2>6, SummarizedIds
  <2>9. QED BY <2>7, <2>8, SummaryCountsOnce
<1>2. QED BY <1>1, LoopInvariant, PTL

-----------------------------------------------------------------------------
(* The loop implements ToolBatch: each of its steps is a stutter of the     *)
(* abstract batch, the refusal, or the answer as a whole.                   *)
THEOREM LoopImplementsToolBatch == Spec => ImplementsToolBatch
<1>1. Init => Batch!BatchInit
  BY DEF Init, Batch!BatchInit
<1>2. LoopInv /\ [Next]_vars => [Batch!BatchNext]_(Batch!batchVars)
  <2> SUFFICES ASSUME LoopInv, [Next]_vars
               PROVE  [Batch!BatchNext]_(Batch!batchVars)
    OBVIOUS
  <2>1. CASE CheckLimit
    <3>1. CASE Len(calls) > MaxToolCalls
      BY <2>1, <3>1 DEF CheckLimit, Batch!BatchNext, Batch!RefuseBatch
    <3>2. CASE ~(Len(calls) > MaxToolCalls)
      BY <2>1, <3>2 DEF CheckLimit, Batch!batchVars
    <3>3. QED BY <3>1, <3>2
  <2>2. CASE RejectDuplicate \/ RejectUnknown \/ RunCurrent
    BY <2>2 DEF RejectDuplicate, RejectUnknown, RunCurrent, HasCurrent, Batch!batchVars
  <2>3. CASE Return
    <3>1. outcomes = ExecuteToolCalls(calls)
      <4>1. /\ calls \in Seq(Calls) /\ Len(calls) \in Nat
            /\ outcomes \in Seq(PossibleOutcomes) /\ Len(outcomes) = Len(calls)
        BY <2>3, BatchAssumption DEF LoopInv, Progress, Return
      <4>2. outcomes = [i \in 1..Len(calls) |-> outcomes[i]]
        BY <4>1
      <4>3. ASSUME NEW i \in 1..Len(calls)
            PROVE  outcomes[i] = ExecuteToolCalls(calls)[i]
        BY <4>1, <4>3 DEF LoopInv, AnswersArePrefix
      <4>4. QED BY <4>2, <4>3 DEF ExecuteToolCalls
    <3>2. Len(calls) <= MaxToolCalls
      BY <2>3 DEF LoopInv, StatusAgrees, Return
    <3>3. QED BY <2>3, <3>1, <3>2 DEF Return, Batch!BatchNext, Batch!AnswerBatch
  <2>4. CASE UNCHANGED vars
    BY <2>4 DEF vars, Batch!batchVars
  <2>5. QED BY <2>1, <2>2, <2>3, <2>4 DEF Next
<1>3. QED BY <1>1, <1>2, LoopInvariant, PTL DEF Spec, ImplementsToolBatch, Batch!BatchSpec
=============================================================================
