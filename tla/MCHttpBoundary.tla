---------------------------- MODULE MCHttpBoundary ----------------------------
(* Two requests to one process: every endpoint, bodies that are refused at  *)
(* each stage, a supplied request id and an unsafe one; a key for the       *)
(* provider in use, a blank one, and one for the other provider only.       *)
EXTENDS HttpBoundary

(* the case of every valid body; no property here looks into it *)
MCCase ==
  [case_id |-> "case_1", alert_id |-> "alert_1", customer_id |-> "cust_1",
   transactions |-> << [transaction_id |-> "tx_1", currency |-> "EUR",
                        direction |-> "outbound", amount |-> 5] >>]

Ask(endpoint, body, calls, id) ==
  [endpoint |-> endpoint, body |-> body, calls |-> calls, supplied_id |-> id]

MCAsks ==
  { Ask("/ready", "none", 0, UnsafeId),
    Ask("/health", "none", 0, "id_1"),
    Ask("/cases/validate", "not_json", 0, UnsafeId),
    Ask("/cases/validate", "valid", 0, "id_1"),
    Ask("/tools/execute", "valid", MaxToolCalls, UnsafeId),
    Ask("/tools/execute", "valid", MaxToolCalls + 1, UnsafeId),
    Ask("/tools/execute", "valid", MaxRequestCalls + 1, "id_1"),
    Ask("/recommendations", "not_json", 0, UnsafeId),
    Ask("/recommendations", "valid", 0, UnsafeId),
    Ask("/investigations/run", "invalid_case", 0, UnsafeId),
    Ask("/investigations/run", "valid", 0, "id_1"),
    Ask("/investigations/stream", "valid", 0, UnsafeId) }

Env(ai_provider, groq_api_key, openai_api_key) ==
  [ai_provider |-> ai_provider, groq_api_key |-> groq_api_key, openai_api_key |-> openai_api_key]

MCEnvironments ==
  { Env("groq", "key", None), Env("groq", "blank", "key"), Env("openai", "key", None),
    Env("openai", None, "key") }
=============================================================================
