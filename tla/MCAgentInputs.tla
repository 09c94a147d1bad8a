---------------------------- MODULE MCAgentInputs ----------------------------
(* What the agent, the stream and the JSON request are checked with.        *)
(* Planning replies that request nothing (once with token counts the        *)
(* response refuses), a call that completes, a repeated call, a call the    *)
(* registry does not know next to one that completes, under ids of their    *)
(* own and both without an id, malformed arguments, a name that is no       *)
(* identifier, no message at all, and one call more than the limit;         *)
(* recommendations that rest on the case, on a call that may have           *)
(* completed, and on one that never did.                                    *)
EXTENDS ToolPlanner

MCCase ==
  [case_id |-> "case_1", alert_id |-> "alert_1", customer_id |-> "cust_1",
   transactions |-> << [transaction_id |-> "tx_1", currency |-> "EUR",
                        direction |-> "outbound", amount |-> 5] >>]

MCIdentifiers ==
  {"cust_1", "tx_1", "c1", "c2", "None", "close_account"} \cup TOOL_REGISTRY

Plain(text) == [text |-> text, padded |-> FALSE]

Call(id, name) ==
  [id |-> IF id = None THEN None ELSE Plain(id), name |-> Plain(name),
   arguments |-> IF name = LOOKUP_CUSTOMER_RISK
                 THEN [customer_id |-> Plain("cust_1")] ELSE [key \in {} |-> None]]

Garbled(id, name) == [Call(id, name) EXCEPT !.arguments = Malformed]

Reply(calls) == [has_message |-> TRUE, tool_calls |-> calls, usage_valid |-> TRUE]

MCReplies ==
  { Reply(<<>>),
    [Reply(<<>>) EXCEPT !.usage_valid = FALSE],
    [Reply(<<>>) EXCEPT !.has_message = FALSE],
    Reply(<<Call("c1", "close account")>>),
    Reply(<<Call("c1", LOOKUP_CUSTOMER_RISK)>>),
    Reply(<<Call("c1", LOOKUP_CUSTOMER_RISK), Call("c2", LOOKUP_CUSTOMER_RISK)>>),
    Reply(<<Call("c2", "close_account"), Call("c1", SUMMARIZE_TRANSACTIONS)>>),
    Reply(<<Call(None, "close_account"), Call(None, SUMMARIZE_TRANSACTIONS)>>),
    Reply(<<Garbled("c1", SUMMARIZE_TRANSACTIONS), Garbled("c2", LOOKUP_CUSTOMER_RISK)>>),
    Reply([i \in 1..(MaxToolCalls + 1) |-> Call("c1", LOOKUP_CUSTOMER_RISK)]) }

MCOutcomeLists ==
  {ExecuteToolCalls(ToolPlan(reply).calls) : reply \in {r \in MCReplies : IsUsable(r)}}

Recommends(case_id, evidence) ==
  [case_id |-> case_id, cites_policy |-> FALSE,
   evidence |-> {[source |-> e[1], source_id |-> e[2]] : e \in evidence}]

MCRecommendations ==
  { Recommends("case_1", {<<"case_input", "tx_1">>}),
    Recommends("case_1", {<<"tool_result", "c1">>}),
    Recommends("case_1", {<<"tool_result", "None">>}),
    Recommends("case_1", {<<"tool_result", "c1">>, <<"tool_result", "c2">>}) }
=============================================================================
