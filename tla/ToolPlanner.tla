------------------------------ MODULE ToolPlanner ------------------------------
(***************************************************************************)
(* CompatibleToolPlanner: what a chat completion of the planning model is   *)
(* made into.  A reply is [has_message, tool_calls, usage_valid]; a tool    *)
(* call of it is [id, name, arguments], the first two strings or None, the  *)
(* last a JSON object or Malformed.  The SDK repeats failed requests by     *)
(* itself, so the adapter sees one reply or one exception.                  *)
(***************************************************************************)
EXTENDS ComplianceTools

CONSTANT Malformed  \* arguments that are not JSON, or JSON but not an object

(* str(None) is "None", which the Identifier pattern accepts *)
Str(value) == IF value = None THEN [text |-> "None", padded |-> FALSE] ELSE value

MalformedIsEmpty(arguments) ==
  IF arguments = Malformed THEN [key \in {} |-> None] ELSE arguments

ParsedArguments(arguments) ==
  IF arguments = Malformed THEN [malformed_arguments |-> TRUE] ELSE arguments

(* ToolCallRequest, which strips its strings and refuses other ids *)
IsToolCallRequest(t) == IsIdentifier(Str(t.id)) /\ IsIdentifier(Str(t.name))

ParseToolCall(t) ==
  [call_id |-> Strip(Str(t.id)), name |-> Strip(Str(t.name)),
   arguments |-> ParsedArguments(t.arguments)]

(* no choice, no message, or a call that ToolCallRequest refuses: an        *)
(* exception that no except clause of plan names                            *)
IsUsable(reply) ==
  reply.has_message /\ \A i \in DOMAIN reply.tool_calls : IsToolCallRequest(reply.tool_calls[i])

(* the ToolPlanningResult; malformed is a ghost: which calls had no object  *)
ToolPlan(reply) ==
  [calls       |-> [i \in DOMAIN reply.tool_calls |-> ParseToolCall(reply.tool_calls[i])],
   usage_valid |-> reply.usage_valid,
   malformed   |-> {i \in DOMAIN reply.tool_calls : reply.tool_calls[i].arguments = Malformed}]

(* what plan raises when the SDK gives up *)
PlannerError ==
  [authentication |-> "Authentication", insufficient_quota |-> "Quota",
   rate_limit     |-> "RateLimit",      timeout            |-> "Timeout",
   connection     |-> "Unavailable",    status             |-> "Unavailable"]
=============================================================================
