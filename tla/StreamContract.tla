---------------------------- MODULE StreamContract ----------------------------
(***************************************************************************)
(* What a client of POST /investigations/stream may rely on, whatever       *)
(* happens behind it: the events it receives carry consecutive ids and      *)
(* follow the grammar                                                       *)
(*   started, planning_started,                                             *)
(*     ( planning_completed(n), n tool_calls, recommendation_started )      *)
(*     and at most one completed or failed, after which nothing comes,      *)
(* where a terminal failed may also follow planning_started, or a           *)
(* planning_completed that announced more calls than the limit allows.      *)
(***************************************************************************)
EXTENDS Integers, SequencesExt

CONSTANT MaxToolCalls

VARIABLES
  sent,  \* the events the client has received, in order
  open   \* the response body has not ended

contractVars == <<sent, open>>

ContractInit == sent = <<>> /\ open = TRUE

Kind(n) == sent[n].data.kind

LastKind == IF sent = <<>> THEN "nothing" ELSE Kind(Len(sent))

Announced ==
  LET announcement == CHOOSE n \in DOMAIN sent : Kind(n) = "planning_completed"
  IN  sent[announcement].data.requested

ToolCalls == {n \in DOMAIN sent : Kind(n) = "tool_call"}

AllToolCallsSent ==
  /\ LastKind \in {"planning_completed", "tool_call"}
  /\ Cardinality(ToolCalls) = Announced

MayFollow(data) ==
  CASE data.kind = "started"                -> LastKind = "nothing"
    [] data.kind = "planning_started"       -> LastKind = "started"
    [] data.kind = "planning_completed"     -> LastKind = "planning_started"
    [] data.kind = "tool_call"              ->
         /\ LastKind \in {"planning_completed", "tool_call"}
         /\ Announced <= MaxToolCalls
         /\ Cardinality(ToolCalls) < Announced
    [] data.kind = "recommendation_started" -> AllToolCallsSent /\ Announced <= MaxToolCalls
    [] data.kind = "completed"              ->
         /\ LastKind = "recommendation_started"
         /\ data.status = "partial" <=> \E n \in ToolCalls : sent[n].data.status = "rejected"
    [] data.kind = "failed"                 ->
         \/ LastKind \in {"planning_started", "recommendation_started"}
         \/ LastKind = "planning_completed" /\ Announced > MaxToolCalls

(* one more event; its id is its place in the stream *)
Send ==
  /\ open = TRUE
  /\ Len(sent') = Len(sent) + 1
  /\ Front(sent') = sent
  /\ Last(sent').id = Len(sent')
  /\ MayFollow(Last(sent').data)
  /\ UNCHANGED open

Close == open = TRUE /\ open' = FALSE /\ UNCHANGED sent

ContractSpec == ContractInit /\ [][Send \/ Close]_contractVars
=============================================================================
