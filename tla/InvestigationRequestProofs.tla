---------------------- MODULE InvestigationRequestProofs ----------------------
(***************************************************************************)
(* POST /investigations/run for every body, every set of settings and every *)
(* run.  A step of the request is a step of the run or leaves it alone, and *)
(* a step of the boundary or leaves it alone, so both keep the invariants   *)
(* they have on their own; what is added is how the two stand together.     *)
(***************************************************************************)
EXTENDS InvestigationRequest, InvestigationAgentProofs, HttpBoundaryProofs

(* What the run leaves for the endpoint to raise, or None.                  *)
HowItEnded == IF stage = "cancelled" THEN "Cancelled" ELSE RunFailure

(* The request serves exactly as long as the run is active; before, it      *)
(* raised at most a refusal, and afterwards what the run ended with.        *)
FollowsTheRun ==
  /\ at[Request] # "streaming"
  /\ at[Request] \in {"idle", "received"} => stage = "not_started"
  /\ at[Request] = "serving" <=> IsActive
  /\ stage = "not_started" /\ at[Request] \notin {"idle", "received"} =>
       cause[Request] \in {"RequestValidation", "Configuration"}
  /\ IsOver => cause[Request] = HowItEnded

RequestInv == AgentInv /\ BoundaryInv /\ FollowsTheRun

-----------------------------------------------------------------------------
(* There is one request, and it is for an investigation's run.              *)
LEMMA TheRequest ==
  /\ Request \in Requests
  /\ \A r \in Requests : r = Request
BY OneRequest DEF Request

(* What a run fails with is a failure the boundary lets a service have.     *)
LEMMA RunFailuresAreServiceErrors ==
  /\ ErrorClasses \cup {"Unexpected"} \subseteq ServiceErrors
  /\ None \notin ServiceErrors
<1>1. ErrorClasses \subseteq (RecommendationErrors \ {"Configuration"}) \cup {"Unexpected"}
  BY DEF ErrorClasses, TransientError, FatalError, RecommendationErrors,
         RecommendationErrorDetails
<1>2. QED BY <1>1, ClassesAreNamed, AnswerAssumption DEF ServiceErrors, ExceptionClasses

(* How a run that is over can have ended.                                   *)
LEMMA EndOfTheRun ==
  AgentInv => /\ RunFailure \in ServiceErrors \cup {None}
              /\ stage = "raised" => RunFailure = failure /\ RunFailure \in ServiceErrors
              /\ stage = "returned" => RunFailure = IF BuildsResponse THEN None ELSE "Unexpected"
<1> SUFFICES ASSUME AgentInv
             PROVE  /\ RunFailure \in ServiceErrors \cup {None}
                    /\ stage = "raised" => RunFailure = failure /\ RunFailure \in ServiceErrors
                    /\ stage = "returned" => RunFailure = IF BuildsResponse THEN None ELSE "Unexpected"
  OBVIOUS
<1>1. failure \in ErrorClasses \cup {None} /\ (stage = "raised" <=> failure # None)
  BY DEF AgentInv, EndsAgree
<1>2. QED BY <1>1, RunFailuresAreServiceErrors DEF RunFailure

(* Every step of the request is one of the run, or none of its business.    *)
LEMMA StepsOfTheRun == [RequestNext]_requestVars => [AgentNext]_agentVars
BY DEF RequestNext, requestVars, AroundTheRun, StartService, RunProceeds, RunUnwinds, TimerFires,
       TaskCancelled, AgentNext, AgentStep

(* Every step of the request is one of the boundary, or none of its own:    *)
(* in particular, what its run raises is what a service may raise.          *)
LEMMA StepsOfTheBoundary ==
  ASSUME AgentInv', [RequestNext]_requestVars
  PROVE  [BoundaryNext]_boundaryVars
<1>1. CASE AroundTheRun
  BY <1>1, TheRequest DEF AroundTheRun, BoundaryNext, Resolve
<1>2. CASE StartService
  BY <1>2, TheRequest DEF StartService, BoundaryNext, Resolve
<1>3. CASE RunProceeds
  <2>1. (RunFailure \in ServiceErrors \cup {None})'
    BY EndOfTheRun, PTL
  <2>2. QED BY <1>3, <2>1, TheRequest DEF RunProceeds, BoundaryNext, ServiceEnds
<1>4. CASE RunUnwinds
  <2>1. (stage = "raised" => RunFailure \in ServiceErrors)'
    BY EndOfTheRun, PTL
  <2>2. QED BY <1>4, <2>1, TheRequest DEF RunUnwinds, BoundaryNext, ServiceEnds
<1>5. CASE TimerFires \/ TaskCancelled \/ UNCHANGED requestVars
  BY <1>5 DEF TimerFires, TaskCancelled, requestVars
<1>6. QED BY <1>1, <1>2, <1>3, <1>4, <1>5 DEF RequestNext

-----------------------------------------------------------------------------
(* A request that was refused, or whose dependency is torn down, has no run *)
(* in progress, and gets none.                                              *)
LEMMA AroundTheRunKeepsInv ==
  ASSUME RequestInv, AroundTheRun
  PROVE  FollowsTheRun'
<1>1. BoundaryInv /\ UNCHANGED <<stage, failure, planning>>
  BY DEF RequestInv, AroundTheRun, agentVars
<1>2. UNCHANGED <<IsActive, IsOver, HowItEnded>>
  BY <1>1 DEF IsActive, IsOver, HowItEnded, RunFailure, BuildsResponse
<1>3. /\ at \in [Requests -> Places] /\ cause \in [Requests -> ExceptionClasses \cup {None}]
      /\ Request \in Requests
  BY <1>1, TheRequest DEF BoundaryInv, Tables
<1>4. ASSUME NEW ask \in Asks, Receive(Request, ask) PROVE FollowsTheRun'
  BY <1>1, <1>2, <1>3, <1>4 DEF RequestInv, FollowsTheRun, Receive, MoveTo, IsActive, IsOver
<1>5. CASE RefuseUnparsed(Request) \/ RefuseUnconfigured(Request) \/ RefuseInvalid(Request)
  BY <1>1, <1>2, <1>3, <1>5
  DEF RequestInv, FollowsTheRun, RefuseUnparsed, RefuseUnconfigured, RefuseInvalid,
      RaisesAndAnswers, Raises, MoveTo, IsActive, IsOver
<1>6. CASE TearDown(Request)
  BY <1>1, <1>2, <1>3, <1>6
  DEF RequestInv, FollowsTheRun, TearDown, ClosePlanner, CloseProvider, LeaveDependency,
      MoveTo, IsActive, IsOver
<1>7. QED BY <1>4, <1>5, <1>6 DEF AroundTheRun

(* The run starts when the request starts to be served.                     *)
LEMMA StartKeepsInv ==
  ASSUME RequestInv, StartService
  PROVE  FollowsTheRun'
<1>1. at \in [Requests -> Places] /\ Request \in Requests
  BY TheRequest DEF RequestInv, BoundaryInv, Tables
<1>2. QED BY <1>1 DEF StartService, CallService, StartRun, MoveTo, FollowsTheRun, IsActive, IsOver

(* The end of the run is the end of the service, with the same outcome.     *)
LEMMA EndKeepsInv ==
  ASSUME RequestInv, AgentInv', RunProceeds \/ RunUnwinds
  PROVE  FollowsTheRun'
<1>1. /\ at \in [Requests -> Places] /\ cause \in [Requests -> ExceptionClasses \cup {None}]
      /\ Request \in Requests
  BY TheRequest DEF RequestInv, BoundaryInv, Tables
<1>2. IsActive
  BY DEF RunProceeds, RunUnwinds, PlannerAnswers, RefusePlan, ExecutePlan, PlannerAnswersWith,
         FailPlanning, RecommendationAnswers, RecommendationWakesUp, FollowRecommend, Unwind,
         IsActive
<1>3. at[Request] = "serving" /\ cause[Request] = None
  BY <1>1, <1>2 DEF RequestInv, FollowsTheRun, BoundaryInv, Stands, RemembersItsCause
<1>4. CASE RunProceeds /\ ~IsOver'
  <2>1. stage' \in {"planning", "recommending"}
    BY <1>4 DEF RunProceeds, PlannerAnswers, RefusePlan, ExecutePlan, PlannerAnswersWith,
                FailPlanning, Fail, RecommendationAnswers, RecommendationWakesUp,
                FollowRecommend, IsOver
  <2>2. UNCHANGED <<at, cause>>
    BY <1>4 DEF RunProceeds, boundaryVars
  <2>3. QED BY <1>3, <2>1, <2>2 DEF FollowsTheRun, IsActive, IsOver
<1>5. CASE RunProceeds /\ IsOver'
  <2>1. stage' \in {"returned", "raised"}
    BY <1>5 DEF RunProceeds, PlannerAnswers, RefusePlan, ExecutePlan, PlannerAnswersWith,
                FailPlanning, Fail, RecommendationAnswers, RecommendationWakesUp,
                FollowRecommend, IsOver
  <2>2. HowItEnded' = RunFailure'
    BY <2>1 DEF HowItEnded
  <2>3. at'[Request] = "leaving" /\ cause'[Request] = RunFailure'
    BY <1>1, <1>3, <1>5 DEF RunProceeds, ServiceReturns, ServiceRaises, Raises, MoveTo
  <2>4. QED BY <2>1, <2>2, <2>3 DEF FollowsTheRun, IsActive, IsOver
<1>6. CASE RunUnwinds
  <2>1. stage' \in {"cancelled", "raised"}
    BY <1>6 DEF RunUnwinds, Unwind
  <2>2. at'[Request] = "leaving" /\ cause'[Request] = HowItEnded'
    BY <1>1, <1>6 DEF RunUnwinds, CancelRequest, ServiceRaises, Raises, MoveTo, HowItEnded
  <2>3. QED BY <2>1, <2>2 DEF FollowsTheRun, IsActive, IsOver
<1>7. QED BY <1>4, <1>5, <1>6

LEMMA RequestInitEstablishesInv == RequestInit => RequestInv
<1> SUFFICES ASSUME RequestInit PROVE RequestInv
  OBVIOUS
<1>1. AgentInv /\ BoundaryInv
  BY AgentInitEstablishesInv, BoundaryInitEstablishesInv DEF RequestInit
<1>2. FollowsTheRun
  BY TheRequest DEF RequestInit, AgentInit, BoundaryInit, FollowsTheRun, IsActive, IsOver
<1>3. QED BY <1>1, <1>2 DEF RequestInv

LEMMA RequestNextKeepsInv == RequestInv /\ [RequestNext]_requestVars => RequestInv'
<1> SUFFICES ASSUME RequestInv, [RequestNext]_requestVars PROVE RequestInv'
  OBVIOUS
<1>1. AgentInv'
  BY StepsOfTheRun, AgentNextKeepsInv DEF RequestInv
<1>2. BoundaryInv'
  BY <1>1, StepsOfTheBoundary, BoundaryNextKeepsInv DEF RequestInv
<1>3. FollowsTheRun'
  <2>1. CASE TimerFires \/ TaskCancelled \/ UNCHANGED requestVars
    <3>1. UNCHANGED <<boundaryVars, stage, failure, planning>>
      BY <2>1 DEF TimerFires, TaskCancelled, FireDeadline, CancelRun, requestVars, agentVars
    <3>2. UNCHANGED <<at, cause, IsActive, IsOver, HowItEnded>>
      BY <3>1 DEF boundaryVars, IsActive, IsOver, HowItEnded, RunFailure, BuildsResponse
    <3>3. QED BY <3>1, <3>2 DEF RequestInv, FollowsTheRun
  <2>2. QED BY <1>1, <2>1, AroundTheRunKeepsInv, StartKeepsInv, EndKeepsInv DEF RequestNext
<1>4. QED BY <1>1, <1>2, <1>3 DEF RequestInv

(* The run and its request stand together as the invariant says, for ever.  *)
THEOREM RequestInvariant == RequestSpec => []RequestInv
BY RequestInitEstablishesInv, RequestNextKeepsInv, PTL DEF RequestSpec

-----------------------------------------------------------------------------
(* Every behaviour of the request with its run is one HttpBoundary allows.  *)
(* That its service call ends, the rest of ImplementsHttpBoundary, is a     *)
(* matter of fairness.                                                      *)
THEOREM RequestRefinesBoundary == RequestSpec => BoundaryInit /\ [][BoundaryNext]_boundaryVars
<1>1. RequestInit => BoundaryInit
  BY DEF RequestInit
<1>2. RequestInv' /\ [RequestNext]_requestVars => [BoundaryNext]_boundaryVars
  BY StepsOfTheBoundary DEF RequestInv
<1>3. QED BY <1>1, <1>2, RequestInvariant, PTL DEF RequestSpec

(* And every one is a behaviour of the agent's run.                         *)
THEOREM RequestRefinesRun == RequestSpec => AgentInit /\ [][AgentNext]_agentVars
<1>1. RequestInit => AgentInit
  BY DEF RequestInit
<1>2. QED BY <1>1, StepsOfTheRun, PTL DEF RequestSpec

(* Nor does the request disturb any promise of the run it makes.            *)
THEOREM RequestsKeepTheRunsPromises ==
  RequestSpec => [](/\ ResultAgreesWithProgress /\ MalformedCallsGatherNothing
                    /\ ExpiredRunTimesOut
                    /\ RequestBudget /\ ReturnedIsBacked
                    /\ ReportedRetriesHappened /\ NoPrematureFailure)
<1>1. RequestInv => AgentInv
  BY DEF RequestInv
<1>2. QED BY <1>1, RunsKeepTheirPromises, RequestInvariant, PTL

(* Steps of the request and of its run together.                            *)
AllStepsLeft == StepsToGo(Request) + RunStepsLeft

(* A step of the run may leave the request where it is, and the other way   *)
(* round, but neither is ever put back.                                     *)
LEMMA AllStepsAreUsedUp ==
  ASSUME RequestInv, RequestInv', RequestNext
  PROVE  AllStepsLeft' < AllStepsLeft
<1>1. /\ StepsToGo(Request) \in Nat /\ StepsToGo(Request)' \in Nat
      /\ RunStepsLeft \in Nat /\ RunStepsLeft' \in Nat
  <2>1. StepsToGo(Request) \in Nat /\ StepsToGo(Request)' \in Nat
    BY DEF StepsToGo
  <2>2. (AgentInv => RunStepsLeft \in Nat) /\ (AgentInv => RunStepsLeft \in Nat)'
    BY RunStepsAreCounted, PTL
  <2>3. QED BY <2>1, <2>2 DEF RequestInv
<1>2. BoundaryNext => StepsToGo(Request)' < StepsToGo(Request)
  BY EveryStepMovesOn, TheRequest DEF RequestInv, MovesOn
<1>3. AgentNext => RunStepsLeft' < RunStepsLeft
  BY RunStepsAreUsedUp DEF RequestInv
<1>4. CASE AroundTheRun
  <2>1. BoundaryNext /\ UNCHANGED agentVars
    BY <1>4, TheRequest DEF AroundTheRun, BoundaryNext, Resolve
  <2>2. RunStepsLeft' = RunStepsLeft
    BY <2>1 DEF agentVars, recommendVars, RunStepsLeft, IsOver, StepsLeft, RequestsLeft
  <2>3. QED BY <1>1, <1>2, <2>1, <2>2 DEF AllStepsLeft
<1>5. CASE ~AroundTheRun
  <2>1. AgentNext
    BY <1>5 DEF RequestNext, StartService, RunProceeds, RunUnwinds, TimerFires, TaskCancelled,
                AgentNext, AgentStep
  <2>2. BoundaryNext \/ UNCHANGED boundaryVars
    BY StepsOfTheBoundary DEF RequestInv
  <2>3. UNCHANGED boundaryVars => StepsToGo(Request)' = StepsToGo(Request)
    BY DEF boundaryVars, StepsToGo
  <2>4. QED BY <1>1, <1>2, <1>3, <2>1, <2>2, <2>3 DEF AllStepsLeft
<1>6. QED BY <1>4, <1>5

(* An investigation cannot go round in circles: every step of it, of its    *)
(* run, its deadline, its cancellation or its teardown, brings its end      *)
(* closer.                                                                  *)
THEOREM InvestigationsMakeProgress ==
  RequestSpec => [](AllStepsLeft \in Nat) /\ [][AllStepsLeft' < AllStepsLeft]_requestVars
<1>1. RequestInv => AllStepsLeft \in Nat
  <2> SUFFICES ASSUME RequestInv PROVE AllStepsLeft \in Nat
    OBVIOUS
  <2>1. StepsToGo(Request) \in Nat /\ RunStepsLeft \in Nat
    BY StepsToGoAreFew, TheRequest, RunStepsAreCounted DEF RequestInv
  <2>2. QED BY <2>1 DEF AllStepsLeft
<1>2. RequestInv /\ RequestInv' /\ [RequestNext]_requestVars
        => [AllStepsLeft' < AllStepsLeft]_requestVars
  BY AllStepsAreUsedUp
<1>3. QED BY <1>1, <1>2, RequestInvariant, PTL DEF RequestSpec

(* What an answer says, by the class of the failure it reports.             *)
LEMMA ToldByClass ==
  ASSUME BoundaryInv, NEW r \in Requests, response[r] # None
  PROVE  /\ propagating[r] \in ExceptionClasses \cup {None} /\ propagating[r] # "Cancelled"
         /\ propagating[r] = None <=> cause[r] = None
         /\ IsMasked(r) => propagating[r] = "Unexpected"
         /\ response[r].status = 200 <=> propagating[r] = None
         /\ propagating[r] = None => response[r].code = None
         /\ propagating[r] # None => /\ response[r].code = PublicError(propagating[r]).code
                                    /\ ClassOfCode[response[r].code] = propagating[r]
         /\ at[r] \in {"leaving", "streaming", "done"}
<1>1. /\ propagating[r] \in ExceptionClasses \cup {None} /\ propagating[r] # "Cancelled"
      /\ propagating[r] = None <=> cause[r] = None
      /\ IsMasked(r) => propagating[r] = "Unexpected"
      /\ response[r] = AnswerTo(r, propagating[r])
      /\ at[r] \in {"leaving", "streaming", "done"}
  BY ClassesAreNamed DEF BoundaryInv, Tables, Places, Stands, RemembersItsCause, IsAnsweredOnce,
                         IsMasked
<1>2. propagating[r] = None => response[r].status = 200 /\ response[r].code = None
  BY <1>1 DEF AnswerTo, Ok, Public
<1>3. propagating[r] # None => /\ response[r].status = PublicError(propagating[r]).status
                               /\ response[r].code = PublicError(propagating[r]).code
  BY <1>1 DEF AnswerTo
<1>4. propagating[r] # None => /\ ClassOfCode[PublicError(propagating[r]).code] = propagating[r]
                               /\ PublicError(propagating[r]).status # 200
  BY <1>1, PublicCodesAreDistinct
<1>5. QED BY <1>1, <1>2, <1>3, <1>4

(* The client is told what happened to its run.                             *)
THEOREM AnswersReportTheirRun == RequestSpec => []AnswerReportsTheRun
<1>1. ASSUME RequestInv, IsActive
      PROVE  planner[Request] = "open" /\ provider[Request] = "open"
  <2>1. at[Request] = "serving"
    BY <1>1 DEF RequestInv, FollowsTheRun
  <2>2. asked[Request] \in Asks
    BY <1>1, <2>1, TheRequest DEF RequestInv, BoundaryInv, Tables, Stands, IsIdentified
  <2>3. QED BY <1>1, <2>1, <2>2, TheRequest, RunOnly
            DEF RequestInv, BoundaryInv, Stands, HoldsItsClients, InvestigationEndpoints
<1>2. ASSUME RequestInv, response[Request] # None
      PROVE  LET told == response[Request] IN
             /\ ~IsActive
             /\ told.status = 200 <=> run_status # None /\ BuildsResponse
             /\ deadline = "expired" /\ ~cancel_requested =>
                  told.code = IF IsMasked(Request) THEN "internal_error" ELSE "ai_timeout"
             /\ told.code = "internal_error" => stage # "not_started" \/ IsMasked(Request)
             /\ told.code \in {"validation_error", "ai_not_configured"} => stage = "not_started"
  <2> DEFINE told == response[Request]
             class == propagating[Request]
  <2>1. /\ class \in ExceptionClasses \cup {None} /\ class # "Cancelled"
        /\ class = None <=> cause[Request] = None
        /\ IsMasked(Request) => class = "Unexpected"
        /\ told.status = 200 <=> class = None
        /\ class = None => told.code = None
        /\ class # None => told.code = PublicError(class).code /\ ClassOfCode[told.code] = class
        /\ at[Request] \in {"leaving", "streaming", "done"}
    BY <1>2, TheRequest, ToldByClass DEF RequestInv
  <2>2. ~IsMasked(Request) => class = cause[Request]
    BY DEF IsMasked
  <2>3. /\ PublicError("Unexpected").code = "internal_error"
        /\ PublicError("Timeout").code = "ai_timeout"
        /\ ClassOfCode["internal_error"] = "Unexpected"
        /\ ClassOfCode["validation_error"] = "RequestValidation"
        /\ ClassOfCode["ai_not_configured"] = "Configuration"
    BY DEF PublicError, RecommendationErrors, RecommendationErrorDetails, InternalError, Public,
           ClassOfCode
  <2>4. told.code # None => class # None /\ ClassOfCode[told.code] = class
    BY <2>1
  <2>5. None \notin {"internal_error", "validation_error", "ai_not_configured"}
    BY AnswerAssumption, ClassesAreNamed
    DEF PublicError, RecommendationErrors, RecommendationErrorDetails, InternalError, Public
  <2>6. ~IsActive /\ stage \in Stages
    BY <1>2, <2>1 DEF RequestInv, FollowsTheRun, AgentInv, StagesAgree
  <2>7. CASE stage = "not_started"
    <3>1. cause[Request] \in {"RequestValidation", "Configuration"}
      BY <1>2, <2>1, <2>7 DEF RequestInv, FollowsTheRun
    <3>2. run_status = None /\ deadline # "expired"
      BY <1>2, <2>7 DEF RequestInv, AgentInv, EndsAgree, DeadlineAgrees
    <3>3. class # None
      BY <2>1, <3>1, ClassesAreNamed
    <3>4. told.code = "internal_error" => IsMasked(Request)
      BY <2>2, <2>3, <2>4, <2>5, <3>1
    <3>5. QED BY <2>1, <2>6, <2>7, <3>2, <3>3, <3>4
  <2>8. CASE IsOver
    <3>1. cause[Request] = HowItEnded
      BY <1>2, <2>8 DEF RequestInv, FollowsTheRun
    <3>2. stage # "cancelled"
      BY <1>2, <2>1, <3>1, TheRequest, ClassesAreNamed
      DEF HowItEnded, RequestInv, BoundaryInv, Stands, RemembersItsCause
    <3>3. cause[Request] = RunFailure /\ RunFailure \in ServiceErrors \cup {None}
      BY <1>2, <3>1, <3>2, EndOfTheRun DEF HowItEnded, RequestInv
    <3>4. class \notin {"RequestValidation", "Configuration"}
      BY <2>1, <2>2, <3>3, ClassesAreNamed
      DEF ServiceErrors, RecommendationErrors, RecommendationErrorDetails
    <3>5. told.code \notin {"validation_error", "ai_not_configured"}
      BY <2>3, <2>4, <2>5, <3>4
    <3>6. run_status # None /\ BuildsResponse <=> RunFailure = None
      <4>1. run_status # None <=> stage = "returned"
        BY <1>2, FailuresAreClasses DEF RequestInv, AgentInv, EndsAgree
      <4>2. /\ stage = "raised" => RunFailure # None
            /\ stage = "returned" => RunFailure = IF BuildsResponse THEN None ELSE "Unexpected"
        BY <1>2, EndOfTheRun, RunFailuresAreServiceErrors DEF RequestInv
      <4>3. QED BY <2>8, <3>2, <4>1, <4>2, ClassesAreNamed DEF IsOver
    <3>7. ASSUME deadline = "expired", ~cancel_requested
          PROVE  told.code = IF IsMasked(Request) THEN "internal_error" ELSE "ai_timeout"
      <4>1. failure = "Timeout" /\ stage = "raised"
        BY <1>2, <3>7, FailuresAreClasses DEF RequestInv, AgentInv, EndsAgree, DeadlineAgrees
      <4>2. cause[Request] = "Timeout" /\ class # None
        BY <1>2, <2>1, <3>3, <4>1, EndOfTheRun, FailuresAreClasses DEF RequestInv
      <4>3. QED BY <2>1, <2>2, <2>3, <4>2
    <3>8. QED BY <2>1, <2>6, <2>8, <3>3, <3>5, <3>6, <3>7 DEF IsOver
  <2>9. QED BY <2>6, <2>7, <2>8 DEF IsActive, IsOver, Stages
<1>3. RequestInv => AnswerReportsTheRun
  BY <1>1, <1>2 DEF AnswerReportsTheRun
<1>4. QED BY <1>3, RequestInvariant, PTL
=============================================================================
