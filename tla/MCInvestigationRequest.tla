------------------------ MODULE MCInvestigationRequest ------------------------
(* One request for an investigation: refused at each stage, or run with the *)
(* replies and recommendations of the agent's own run.                      *)
EXTENDS InvestigationRequest, MCAgentInputs

MCAsks ==
  {[endpoint |-> "/investigations/run", body |-> body, calls |-> 0, supplied_id |-> UnsafeId] :
     body \in {"not_json", "invalid_case", "valid"}}

MCEnvironments ==
  {[ai_provider |-> "openai", groq_api_key |-> None, openai_api_key |-> key] :
     key \in {"blank", "key"}}
=============================================================================
