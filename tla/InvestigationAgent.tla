-------------------------- MODULE InvestigationAgent --------------------------
(***************************************************************************)
(* InvestigationAgentService.run: one planning request, the requested tools *)
(* run locally, one recommendation, all of it inside asyncio.timeout.       *)
(*                                                                          *)
(* The worker is an asyncio task: it runs without interruption from one     *)
(* await that really suspends to the next, which are the planner's request, *)
(* the recommendation's requests and its sleeps.  Queue puts and progress   *)
(* callbacks do not suspend, so everything between two of those is one      *)
(* action.  A task cancelled while it waits gets CancelledError at its next *)
(* step, even when the answer it waited for has already arrived.            *)
(***************************************************************************)
EXTENDS Recommendation, ToolPlanner

CONSTANT Replies  \* what the planning model can answer

Plans == {ToolPlan(reply) : reply \in {r \in Replies : IsUsable(r)}}

(* a list of calls, and the service is called with what they came to *)
ASSUME ReplyAssumption ==
  \A reply \in {r \in Replies : IsUsable(r)} :
    /\ Len(reply.tool_calls) \in Nat
    /\ DOMAIN reply.tool_calls = 1..Len(reply.tool_calls)
    /\ Len(reply.tool_calls) <= MaxToolCalls =>
         ExecuteToolCalls(ToolPlan(reply).calls) \in OutcomeLists

(* None is no status and no plan *)
ASSUME StatusAssumption == None \notin {"partial", "completed"} /\ None \notin Plans

VARIABLES
  stage,             \* where run stands, see Stages
  planning,          \* the ToolPlanningResult, or None
  progress,          \* the InvestigationProgress values emitted so far
  deadline,          \* asyncio.timeout: its state, see Deadlines
  cancel_requested,  \* Task.cancel was called on the task from outside
  run_status,        \* InvestigationResult.status, or None
  failure            \* the class of the exception run raised, or None

agentVars ==
  <<recommendVars, stage, planning, progress, deadline, cancel_requested, run_status, failure>>

Stages == {"not_started", "planning", "recommending", "returned", "raised", "cancelled"}

Deadlines == {"unset", "armed", "expiring", "expired", "exited"}

IsActive == stage \in {"planning", "recommending"}

IsOver == stage \in {"returned", "raised", "cancelled"}

(* CancelledError is what the task's next step will see *)
Interrupted == deadline = "expiring" \/ cancel_requested

-----------------------------------------------------------------------------
PlanningStarted == [stage |-> "planning_started"]
PlanningCompleted(plan) == [stage |-> "planning_completed", requested |-> Len(plan.calls)]
ToolCallCompleted(outcome) == [stage |-> "tool_call_completed", tool_outcome |-> outcome]
RecommendationStarted == [stage |-> "recommendation_started"]

AnyCompleted(outcomes) ==
  IF \A o \in Range(outcomes) : o.status = "rejected" THEN "partial" ELSE "completed"

RunStatus(outcomes) ==
  IF \E o \in Range(outcomes) : o.status = "rejected" THEN "partial" ELSE "completed"

-----------------------------------------------------------------------------
AgentInit ==
  /\ RecommendInit
  /\ stage = "not_started"
  /\ planning = None
  /\ progress = <<>>
  /\ deadline = "unset"
  /\ cancel_requested = FALSE
  /\ run_status = None
  /\ failure = None

(* the run leaves asyncio.timeout with an exception *)
Fail(class) ==
  /\ stage' = "raised"
  /\ failure' = class
  /\ deadline' = "exited"
  /\ UNCHANGED <<cancel_requested, run_status>>

StartUnbounded ==
  /\ stage = "not_started"
  /\ stage' = "planning"
  /\ deadline' = "unset"
  /\ progress' = <<PlanningStarted>>
  /\ UNCHANGED <<recommendVars, planning, cancel_requested, run_status, failure>>

(* enter the deadline, announce planning, send the planner's request *)
StartRun ==
  /\ stage = "not_started"
  /\ stage' = "planning"
  /\ deadline' = "armed"
  /\ progress' = <<PlanningStarted>>
  /\ UNCHANGED <<recommendVars, planning, cancel_requested, run_status, failure>>

PlannerAnswersWith(plan) ==
  /\ stage = "planning"
  /\ ~Interrupted
  /\ planning' = plan

(* ToolCallLimitExceededError: no call runs, no tool progress is emitted *)
RefusePlan(plan) ==
  /\ PlannerAnswersWith(plan)
  /\ Len(plan.calls) > MaxToolCalls
  /\ progress' = Append(progress, PlanningCompleted(plan))
  /\ Fail("InvalidOutput")
  /\ UNCHANGED recommendVars

(* run the tools, report each outcome, send the first recommendation request *)
ExecutePlan(plan) ==
  LET outcomes == ExecuteToolCalls(plan.calls) IN
  /\ PlannerAnswersWith(plan)
  /\ Len(plan.calls) <= MaxToolCalls
  /\ progress' = progress \o <<PlanningCompleted(plan)>>
                          \o [i \in DOMAIN outcomes |-> ToolCallCompleted(outcomes[i])]
                          \o <<RecommendationStarted>>
  /\ BeginRecommend(outcomes)
  /\ stage' = "recommending"
  /\ UNCHANGED <<deadline, cancel_requested, run_status, failure>>

(* no tool has run, and none will *)
FailPlanning(class) ==
  /\ stage = "planning"
  /\ ~Interrupted
  /\ Fail(class)
  /\ UNCHANGED <<recommendVars, planning, progress>>

PlannerAnswers ==
  \/ \E reply \in Replies :
       IF IsUsable(reply)
       THEN RefusePlan(ToolPlan(reply)) \/ ExecutePlan(ToolPlan(reply))
       ELSE FailPlanning("Unexpected")
  \/ \E cause \in DOMAIN PlannerError : FailPlanning(PlannerError[cause])

(* what run makes of a step of recommend: carry on, return, or pass it up *)
FollowRecommend ==
  /\ stage = "recommending"
  /\ \/ /\ phase' \in {"requesting", "sleeping"}
        /\ UNCHANGED <<stage, deadline, cancel_requested, run_status, failure>>
     \/ /\ phase' = "returned"
        /\ stage' = "returned"
        /\ run_status' = RunStatus(tool_outcomes)
        /\ deadline' = "exited"
        /\ UNCHANGED <<cancel_requested, failure>>
     \/ /\ phase' = "raised"
        /\ Fail(error')
  /\ UNCHANGED <<planning, progress>>

RecommendationAnswers == ~Interrupted /\ ProviderAnswers /\ FollowRecommend

RestartAnyway == WakeUp /\ FollowRecommend

RecommendationWakesUp == ~Interrupted /\ WakeUp /\ FollowRecommend

(* the timer of asyncio.timeout: it cancels the task *)
FireDeadline ==
  /\ IsActive
  /\ deadline = "armed"
  /\ deadline' = "expiring"
  /\ UNCHANGED <<recommendVars, stage, planning, progress, cancel_requested, run_status, failure>>

(* Task.cancel by whoever owns the task *)
CancelRun ==
  /\ IsActive
  /\ ~cancel_requested
  /\ cancel_requested' = TRUE
  /\ UNCHANGED <<recommendVars, stage, planning, progress, deadline, run_status, failure>>

TimeoutEvenIfCancelled ==
  /\ IsActive
  /\ Interrupted
  /\ IF deadline = "expiring"
     THEN stage' = "raised" /\ failure' = "Timeout" /\ deadline' = "expired"
     ELSE stage' = "cancelled" /\ failure' = None /\ deadline' = "exited"
  /\ IF stage = "recommending" THEN CancelRecommend ELSE UNCHANGED recommendVars
  /\ UNCHANGED <<planning, progress, cancel_requested, run_status>>

UnwindQuietly ==
  /\ IsActive
  /\ Interrupted
  /\ stage' = IF cancel_requested THEN "cancelled" ELSE "returned"
  /\ deadline' = IF deadline = "expiring" THEN "expired" ELSE "exited"
  /\ IF stage = "recommending" THEN CancelRecommend ELSE UNCHANGED recommendVars
  /\ UNCHANGED <<planning, progress, cancel_requested, run_status, failure>>

(* CancelledError leaves _run_bounded; asyncio.timeout turns it into        *)
(* TimeoutError only when its own cancellation is the only one              *)
Unwind ==
  /\ IsActive
  /\ Interrupted
  /\ IF cancel_requested
     THEN stage' = "cancelled" /\ failure' = None
     ELSE stage' = "raised" /\ failure' = "Timeout"
  /\ deadline' = IF deadline = "expiring" THEN "expired" ELSE "exited"
  /\ IF stage = "recommending" THEN CancelRecommend ELSE UNCHANGED recommendVars
  /\ UNCHANGED <<planning, progress, cancel_requested, run_status>>

AgentStep ==
  StartRun \/ PlannerAnswers \/ RecommendationAnswers \/ RecommendationWakesUp \/ Unwind

AgentNext == AgentStep \/ FireDeadline \/ CancelRun

(* The event loop runs its timers and its ready tasks.  Nothing obliges the *)
(* provider to answer: the deadline alone ends a run.                       *)
AgentFairness == WF_agentVars(FireDeadline) /\ WF_agentVars(Unwind)

AgentSpec == AgentInit /\ [][AgentNext]_agentVars /\ AgentFairness

-----------------------------------------------------------------------------
AgentTypeOK ==
  /\ RecommendTypeOK
  /\ stage \in Stages
  /\ planning \in Plans \cup {None}
  /\ deadline \in Deadlines
  /\ cancel_requested \in BOOLEAN
  /\ (stage = "returned") <=> (run_status # None)
  /\ (stage = "raised") <=> (failure # None)
  /\ stage = "recommending" => phase \in {"requesting", "sleeping"}

(* the tool reports among the progress values, and the i-th of them *)
ToolReports == {n \in DOMAIN progress : progress[n].stage = "tool_call_completed"}

ReportOf(i) == CHOOSE n \in ToolReports : Cardinality({m \in ToolReports : m <= n}) = i

ReportedOutcomes == [i \in 1..Cardinality(ToolReports) |-> progress[ReportOf(i)].tool_outcome]

(* A result that run returns agrees with what its progress told: every tool *)
(* result it cites was reported as completed, the status says partial       *)
(* exactly when a rejected call was reported, and one report was made for   *)
(* each planned call.                                                       *)
ResultAgreesWithProgress ==
  stage = "returned" =>
    /\ Len(ReportedOutcomes) = Len(planning.calls)
    /\ run_status = "partial"
         <=> \E i \in DOMAIN ReportedOutcomes : ReportedOutcomes[i].error_code # None
    /\ \A e \in result.recommendation.evidence : e.source = "tool_result" =>
         \E i \in DOMAIN ReportedOutcomes :
           /\ ReportedOutcomes[i].call_id = e.source_id
           /\ ReportedOutcomes[i].status = "completed"

(* A call whose arguments the model sent as no JSON object gathers nothing: *)
(* whatever tool it names, and although one tool needs no argument at all,  *)
(* it is reported as rejected.                                              *)
MalformedCallsGatherNothing ==
  planning # None /\ ReportedOutcomes # <<>> =>
    \A i \in planning.malformed : ReportedOutcomes[i].status = "rejected"

(* Once the deadline has fired the run has no result, and it ends with the  *)
(* timeout error, or as cancelled when the owner of the task cancelled it   *)
(* too: neither a late answer nor a late wake-up counts.                    *)
ExpiredRunTimesOut ==
  /\ deadline \in {"expiring", "expired"} => run_status = None
  /\ deadline = "expired" =>
       IF cancel_requested THEN stage = "cancelled" ELSE failure = "Timeout"

(* An interrupted run sends no further request to the provider.             *)
NoRequestOnceInterrupted == [][Interrupted => requests' = requests]_agentVars

(* max_elapsed_seconds bounds the run although the provider may never       *)
(* answer: every run that starts ends.                                      *)
RunEnds == (stage # "not_started") ~> IsOver
=============================================================================
