------------------------------ MODULE ToolBatch ------------------------------
(***************************************************************************)
(* What execute_tool_calls promises its callers: a batch is either refused  *)
(* whole, with nothing executed, or answered whole, one outcome per call in *)
(* the order of the calls.                                                  *)
(***************************************************************************)
EXTENDS Integers, Sequences

CONSTANTS
  Batches,       \* the call lists handed to execute_tool_calls
  MaxToolCalls,  \* the longest batch that is executed
  Answer(_)      \* the outcomes of a batch

VARIABLES
  batch,     \* the calls handed over
  verdict,   \* "pending", "limit_exceeded" or "returned"
  answers    \* the outcomes handed back

batchVars == <<batch, verdict, answers>>

BatchInit ==
  /\ batch \in Batches
  /\ verdict = "pending"
  /\ answers = <<>>

RefuseBatch ==
  /\ verdict = "pending"
  /\ Len(batch) > MaxToolCalls
  /\ verdict' = "limit_exceeded"
  /\ UNCHANGED <<batch, answers>>

AnswerBatch ==
  /\ verdict = "pending"
  /\ Len(batch) <= MaxToolCalls
  /\ verdict' = "returned"
  /\ answers' = Answer(batch)
  /\ UNCHANGED batch

BatchNext == RefuseBatch \/ AnswerBatch

BatchSpec == BatchInit /\ [][BatchNext]_batchVars
=============================================================================
