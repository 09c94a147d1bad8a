------------------------- MODULE InvestigationResponse -------------------------
(***************************************************************************)
(* The final contract of an investigation, shared by its JSON and its       *)
(* streaming endpoint: build_investigation_response and the public name of  *)
(* a run that has none.                                                     *)
(***************************************************************************)
EXTENDS InvestigationAgent, PublicErrors

(* UsageResponse refuses negative token counts, and the planner's counts    *)
(* are the provider's own *)
BuildsResponse == planning.usage_valid

RaisedOnly == IF stage = "raised" THEN failure ELSE None

(* what the run raised in the endpoint, or None; a contract that cannot be  *)
(* built raises a ValidationError, which nothing names                      *)
RunFailure ==
  CASE stage = "raised"                      -> failure
    [] stage = "returned" /\ ~BuildsResponse -> "Unexpected"
    [] OTHER                                 -> None
=============================================================================
