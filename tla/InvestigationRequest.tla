-------------------------- MODULE InvestigationRequest --------------------------
(***************************************************************************)
(* POST /investigations/run: one request to the HTTP boundary and the run   *)
(* its endpoint awaits, in one task.  HttpBoundary leaves open what a       *)
(* service call does; here it is InvestigationAgentService.run, and the     *)
(* promise that the call ends is the deadline's to keep.                    *)
(***************************************************************************)
EXTENDS InvestigationResponse, HttpBoundary

ASSUME OneRequest == \E r \in Requests : Requests = {r}

ASSUME RunOnly == \A ask \in Asks : ask.endpoint = "/investigations/run"

requestVars == <<agentVars, boundaryVars>>

Request == CHOOSE r \in Requests : TRUE

RequestInit == AgentInit /\ BoundaryInit

(* no run yet, or none any more *)
AroundTheRun ==
  /\ \/ \E ask \in Asks : Receive(Request, ask)
     \/ RefuseUnparsed(Request) \/ RefuseUnconfigured(Request) \/ RefuseInvalid(Request)
     \/ TearDown(Request)
  /\ UNCHANGED agentVars

(* from the dependency to the planner's request nothing suspends *)
StartService == CallService(Request) /\ StartRun

(* run_investigation: what the endpoint makes of an answer to its run *)
RunProceeds ==
  /\ PlannerAnswers \/ RecommendationAnswers \/ RecommendationWakesUp
  /\ \/ ~IsOver' /\ UNCHANGED boundaryVars
     \/ IsOver' /\ RunFailure' = None /\ ServiceReturns(Request)
     \/ IsOver' /\ RunFailure' # None /\ ServiceRaises(Request, RunFailure')

(* and of an interruption *)
RunUnwinds ==
  /\ Unwind
  /\ \/ stage' = "cancelled" /\ CancelRequest(Request)
     \/ stage' = "raised" /\ ServiceRaises(Request, RunFailure')

TimerFires == FireDeadline /\ UNCHANGED boundaryVars

(* external: the server is shut down and cancels the request's task *)
TaskCancelled == CancelRun /\ UNCHANGED boundaryVars

RequestNext ==
  AroundTheRun \/ StartService \/ RunProceeds \/ RunUnwinds \/ TimerFires \/ TaskCancelled

(* The event loop runs ready tasks and timers; nothing obliges the planner  *)
(* or the provider to answer.                                               *)
RequestFairness ==
  /\ WF_requestVars(StartService \/ (AroundTheRun /\ at[Request] # "idle"))
  /\ WF_requestVars(TimerFires)
  /\ WF_requestVars(RunUnwinds)

RequestSpec == RequestInit /\ [][RequestNext]_requestVars /\ RequestFairness

-----------------------------------------------------------------------------
(* The request behaves as HttpBoundary says, and its service call ends      *)
(* although neither the planner nor the provider is obliged to answer: the  *)
(* fairness the boundary assumes of run is what its deadline provides.      *)
ImplementsHttpBoundary == BoundarySpec

(* What the client is told is what happened to the run.  The run has its    *)
(* clients until it is over, and no answer precedes its end; 200 means that *)
(* it has a result which fits the response model; a run its deadline ended, *)
(* and nothing else, is told as ai_timeout or has that masked by a close    *)
(* that failed; a request refused before it started no run.                 *)
AnswerReportsTheRun ==
  /\ IsActive => planner[Request] = "open" /\ provider[Request] = "open"
  /\ response[Request] # None =>
       LET told == response[Request] IN
       /\ ~IsActive
       /\ told.status = 200 <=> run_status # None /\ BuildsResponse
       /\ deadline = "expired" /\ ~cancel_requested =>
            told.code = IF IsMasked(Request) THEN "internal_error" ELSE "ai_timeout"
       /\ told.code = "internal_error" => stage # "not_started" \/ IsMasked(Request)
       /\ told.code \in {"validation_error", "ai_not_configured"} => stage = "not_started"
=============================================================================
