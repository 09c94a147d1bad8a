------------------------- MODULE MCInvestigationAgent -------------------------
(* The agent on the plans and recommendations of MCAgentInputs.             *)
EXTENDS InvestigationAgent, MCAgentInputs
=============================================================================
