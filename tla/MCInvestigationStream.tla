------------------------ MODULE MCInvestigationStream -------------------------
(* The stream on the plans and recommendations of MCAgentInputs.            *)
EXTENDS InvestigationStream, MCAgentInputs
=============================================================================
