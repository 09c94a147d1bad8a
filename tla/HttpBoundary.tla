----------------------------- MODULE HttpBoundary -----------------------------
(***************************************************************************)
(* The HTTP boundary of the service: main.py, api/errors.py, config.py, the *)
(* small routes, and the service dependencies of the AI endpoints.  A       *)
(* request is received, its body parsed, its dependency built, its body     *)
(* validated, in that order; its endpoint runs; and the dependency is torn  *)
(* down, after the answer if there is one and before it if the endpoint     *)
(* raised.  What a service call does meanwhile is left open here.           *)
(*                                                                          *)
(* Requests share nothing but the settings, which are read once.            *)
(***************************************************************************)
EXTENDS ComplianceTools, PublicErrors

CONSTANTS
  Requests,         \* the requests of this execution
  Asks,             \* what a client can send: [endpoint, supplied_id, body, calls]
  UnsafeId,         \* an X-Request-ID the pattern refuses, or none at all
  Environments,     \* what Settings can be loaded from
  MaxRequestCalls   \* longest list of calls POST /tools/execute accepts (10)

(* what can be on its way to a handler *)
ExceptionClasses ==
  RecommendationErrors \cup {"Unexpected", "RequestValidation", "HTTP_422", "HTTP_503", "Cancelled"}

Ok == Public(200, None)

RequestIds == Requests \cup {ask.supplied_id : ask \in Asks}

Answers ==
  {[status |-> public.status, code |-> public.code, request_id |-> id] :
     public \in {Ok} \cup {PublicError(class) : class \in ExceptionClasses}, id \in RequestIds}

(* None is no exception, no code, no answer and nothing a client sends *)
ASSUME AnswerAssumption ==
  /\ None \notin ExceptionClasses /\ None \notin Answers /\ None \notin Asks
  /\ \A class \in ExceptionClasses : PublicError(class).code # None

(* no client can know the uuid4 another request will get; GET /ready has no *)
(* body to refuse *)
ASSUME AskAssumption ==
  \A ask \in Asks : /\ ask.supplied_id \notin Requests
                    /\ ask.endpoint = "/ready" => ask.body = "none"

VARIABLES
  settings,     \* Settings, of the process
  asked,        \* per request, here and below: what the client sent, or None
  request_id,   \* request.state.request_id
  at,           \* where it stands, see Places
  planner,      \* the planner's SDK client, see ClientStates
  provider,     \* the recommendation provider's SDK client
  cause,        \* history: the class of its first exception, or None
  propagating,  \* the class of the exception on its way to a handler, or None
  response      \* the answer: [status, code, request_id], or None

boundaryVars ==
  <<settings, asked, request_id, at, planner, provider, cause, propagating, response>>

Places == {"idle", "received", "serving", "streaming", "leaving", "done", "cancelled"}

(* absent: never built; broken: its close raised, or was cancelled *)
ClientStates == {"absent", "open", "closed", "broken"}

InvestigationEndpoints == {"/investigations/run", "/investigations/stream"}

AiEndpoints == InvestigationEndpoints \cup {"/recommendations"}

ServiceErrors == (RecommendationErrors \ {"Configuration"}) \cup {"Unexpected"}

-----------------------------------------------------------------------------
(* Settings.has_ai_api_key *)
SelectedAiApiKey ==
  IF settings.ai_provider = "groq" THEN settings.groq_api_key ELSE settings.openai_api_key

HasAiApiKey == SelectedAiApiKey \notin {None, "blank"}

IsReady == HasAiApiKey

AnyKeyIsAccepted == SelectedAiApiKey # None

(* both SDK adapters raise RecommendationConfigurationError otherwise *)
AdaptersAreConfigured == HasAiApiKey

(* uuid4, the id of no other request: the request itself stands for it      *)
FreshId(r) == r

(* the body is JSON, and then matches its model *)
Parses(ask) == ask.body # "not_json"

IsValidAsk(ask) ==
  /\ ask.body # "invalid_case"
  /\ ask.endpoint = "/tools/execute" => ask.calls \in 1..MaxRequestCalls

(* the exception a local endpoint raises, or None *)
LocalFailure(ask) ==
  CASE ask.endpoint = "/ready" /\ ~IsReady                           -> "HTTP_503"
    [] ask.endpoint = "/tools/execute" /\ ask.calls > MaxToolCalls   -> "HTTP_422"
    [] OTHER                                                         -> None

-----------------------------------------------------------------------------
BoundaryInit ==
  /\ settings \in Environments
  /\ asked = [r \in Requests |-> None]
  /\ request_id = [r \in Requests |-> None]
  /\ at = [r \in Requests |-> "idle"]
  /\ planner = [r \in Requests |-> "absent"]
  /\ provider = [r \in Requests |-> "absent"]
  /\ cause = [r \in Requests |-> None]
  /\ propagating = [r \in Requests |-> None]
  /\ response = [r \in Requests |-> None]

MoveTo(r, place) == at' = [at EXCEPT ![r] = place]

Answer(r, public) ==
  response' = [response EXCEPT ![r] = [status |-> public.status, code |-> public.code,
                                       request_id |-> request_id[r]]]

(* the first exception of the request, raised outside any handler's reach   *)
Raises(r, class) ==
  /\ cause' = [cause EXCEPT ![r] = class]
  /\ propagating' = [propagating EXCEPT ![r] = class]

RaisesAndAnswers(r, class) ==
  /\ Raises(r, class)
  /\ Answer(r, PublicError(class))
  /\ MoveTo(r, "done")

OpenClients(r) ==
  /\ provider' = [provider EXCEPT ![r] = "open"]
  /\ planner' = IF asked[r].endpoint \in InvestigationEndpoints
                THEN [planner EXCEPT ![r] = "open"] ELSE planner

(* add_request_id *)
Receive(r, ask) ==
  /\ at[r] = "idle"
  /\ asked' = [asked EXCEPT ![r] = ask]
  /\ request_id' = [request_id EXCEPT ![r] =
                      IF ask.supplied_id = UnsafeId THEN FreshId(r) ELSE ask.supplied_id]
  /\ MoveTo(r, "received")
  /\ UNCHANGED <<settings, planner, provider, cause, propagating, response>>

RefuseUnparsed(r) ==
  /\ at[r] = "received"
  /\ ~Parses(asked[r])
  /\ RaisesAndAnswers(r, "RequestValidation")
  /\ UNCHANGED <<settings, asked, request_id, planner, provider>>

(* the dependency is built before the body is validated *)
RefuseUnconfigured(r) ==
  /\ at[r] = "received"
  /\ Parses(asked[r])
  /\ asked[r].endpoint \in AiEndpoints
  /\ ~AdaptersAreConfigured
  /\ RaisesAndAnswers(r, "Configuration")
  /\ UNCHANGED <<settings, asked, request_id, planner, provider>>

HasDependency(r) == Parses(asked[r]) /\ asked[r].endpoint \in AiEndpoints /\ AdaptersAreConfigured

RefuseWithoutTeardown(r) ==
  /\ at[r] = "received"
  /\ HasDependency(r)
  /\ ~IsValidAsk(asked[r])
  /\ OpenClients(r)
  /\ RaisesAndAnswers(r, "RequestValidation")
  /\ UNCHANGED <<settings, asked, request_id>>

(* so an invalid case finds its clients open, and they are closed again *)
RefuseInvalid(r) ==
  /\ at[r] = "received"
  /\ HasDependency(r)
  /\ ~IsValidAsk(asked[r])
  /\ OpenClients(r)
  /\ Raises(r, "RequestValidation")
  /\ MoveTo(r, "leaving")
  /\ UNCHANGED <<settings, asked, request_id, response>>

(* an endpoint that calls no service answers without suspending *)
ServeLocally(r) ==
  /\ at[r] = "received"
  /\ Parses(asked[r])
  /\ asked[r].endpoint \notin AiEndpoints
  /\ LET failure_class == IF IsValidAsk(asked[r]) THEN LocalFailure(asked[r])
                          ELSE "RequestValidation"
     IN  IF failure_class # None THEN RaisesAndAnswers(r, failure_class)
         ELSE Answer(r, Ok) /\ MoveTo(r, "done") /\ UNCHANGED <<cause, propagating>>
  /\ UNCHANGED <<settings, asked, request_id, planner, provider>>

(* service.recommend or service.run is awaited *)
CallService(r) ==
  /\ at[r] = "received"
  /\ HasDependency(r)
  /\ IsValidAsk(asked[r])
  /\ asked[r].endpoint # "/investigations/stream"
  /\ OpenClients(r)
  /\ MoveTo(r, "serving")
  /\ UNCHANGED <<settings, asked, request_id, cause, propagating, response>>

(* the streaming endpoint answers at once; its body is InvestigationStream  *)
OpenStream(r) ==
  /\ at[r] = "received"
  /\ HasDependency(r)
  /\ IsValidAsk(asked[r])
  /\ asked[r].endpoint = "/investigations/stream"
  /\ OpenClients(r)
  /\ Answer(r, Ok)
  /\ MoveTo(r, "streaming")
  /\ UNCHANGED <<settings, asked, request_id, cause, propagating>>

ServiceReturns(r) ==
  /\ at[r] = "serving"
  /\ Answer(r, Ok)
  /\ MoveTo(r, "leaving")
  /\ UNCHANGED <<settings, asked, request_id, planner, provider, cause, propagating>>

ServiceRaises(r, class) ==
  /\ at[r] = "serving"
  /\ Raises(r, class)
  /\ MoveTo(r, "leaving")
  /\ UNCHANGED <<settings, asked, request_id, planner, provider, response>>

StreamEnds(r) ==
  /\ at[r] = "streaming"
  /\ MoveTo(r, "leaving")
  /\ UNCHANGED <<settings, asked, request_id, planner, provider, cause, propagating, response>>

(* external: the server is shut down and cancels the request's task *)
CancelRequest(r) == ServiceRaises(r, "Cancelled")

-----------------------------------------------------------------------------
(* The finally of the dependency.  A close that raises replaces the         *)
(* exception under way; after the answer it reaches the server's log only,  *)
(* and a request that is cancelled stays so: the middleware is cancelled    *)
(* along with it, and answers nothing.                                      *)
CloseRaises(r) ==
  propagating' = IF response[r] = None /\ propagating[r] # "Cancelled"
                 THEN [propagating EXCEPT ![r] = "Unexpected"] ELSE propagating

ClosePlanner(r) ==
  /\ at[r] = "leaving"
  /\ planner[r] = "open"
  /\ \/ planner' = [planner EXCEPT ![r] = "closed"] /\ UNCHANGED propagating
     \/ planner' = [planner EXCEPT ![r] = "broken"] /\ CloseRaises(r)
  /\ UNCHANGED <<settings, asked, request_id, at, provider, cause, response>>

(* not reached when planner.close() raised *)
CloseProvider(r) ==
  /\ at[r] = "leaving"
  /\ planner[r] \in {"absent", "closed"}
  /\ provider[r] = "open"
  /\ \/ provider' = [provider EXCEPT ![r] = "closed"] /\ UNCHANGED propagating
     \/ provider' = [provider EXCEPT ![r] = "broken"] /\ CloseRaises(r)
  /\ UNCHANGED <<settings, asked, request_id, at, planner, cause, response>>

LeaveSilently(r) ==
  /\ at[r] = "leaving"
  /\ planner[r] # "open"
  /\ planner[r] = "broken" \/ provider[r] # "open"
  /\ MoveTo(r, "done")
  /\ UNCHANGED <<settings, asked, request_id, planner, provider, cause, propagating, response>>

LeaveWhenClosed(r) ==
  /\ at[r] = "leaving"
  /\ planner[r] # "open" /\ provider[r] # "open"
  /\ MoveTo(r, "done")
  /\ IF response[r] = None THEN Answer(r, PublicError(propagating[r])) ELSE UNCHANGED response
  /\ UNCHANGED <<settings, asked, request_id, planner, provider, cause, propagating>>

(* out of the dependency: to the client, or to the handler of an exception  *)
LeaveDependency(r) ==
  /\ at[r] = "leaving"
  /\ planner[r] # "open"
  /\ planner[r] = "broken" \/ provider[r] # "open"
  /\ \/ response[r] # None /\ MoveTo(r, "done") /\ UNCHANGED response
     \/ /\ response[r] = None
        /\ IF propagating[r] = "Cancelled"
           THEN MoveTo(r, "cancelled") /\ UNCHANGED response
           ELSE MoveTo(r, "done") /\ Answer(r, PublicError(propagating[r]))
  /\ UNCHANGED <<settings, asked, request_id, planner, provider, cause, propagating>>

Resolve(r) ==
  \/ RefuseUnparsed(r) \/ RefuseUnconfigured(r) \/ RefuseInvalid(r)
  \/ ServeLocally(r) \/ CallService(r) \/ OpenStream(r)

ServiceEnds(r) == ServiceReturns(r) \/ \E class \in ServiceErrors : ServiceRaises(r, class)

TearDown(r) == ClosePlanner(r) \/ CloseProvider(r) \/ LeaveDependency(r)

BoundaryNext ==
  \E r \in Requests :
    \/ \E ask \in Asks : Receive(r, ask)
    \/ Resolve(r) \/ ServiceEnds(r) \/ StreamEnds(r) \/ CancelRequest(r) \/ TearDown(r)

(* The event loop runs ready tasks.  A service call ends: recommend by its  *)
(* request budget and the SDK's timeouts, run by its deadline; a stream     *)
(* ends; closing a client ends, well or not.                                *)
BoundaryFairness ==
  \A r \in Requests :
    /\ WF_boundaryVars(Resolve(r))
    /\ WF_boundaryVars(ServiceEnds(r))
    /\ WF_boundaryVars(StreamEnds(r))
    /\ WF_boundaryVars(TearDown(r))

BoundarySpec == BoundaryInit /\ [][BoundaryNext]_boundaryVars /\ BoundaryFairness

-----------------------------------------------------------------------------
BoundaryTypeOK ==
  /\ settings \in Environments
  /\ asked \in [Requests -> Asks \cup {None}]
  /\ at \in [Requests -> Places]
  /\ planner \in [Requests -> ClientStates]
  /\ provider \in [Requests -> ClientStates]
  /\ \A r \in Requests :
       /\ at[r] = "idle" <=> asked[r] = None
       /\ at[r] = "done" => response[r] # None
       /\ at[r] \in {"received", "serving", "cancelled"} => response[r] = None

(* The clients of a request are open as long as its service may use them,   *)
(* and once it is over none is left open, however it was refused or failed, *)
(* but for one case: the provider of an investigation whose planner's close *)
(* raised, which nothing ever closes.                                       *)
ClientsLiveWithRequest ==
  \A r \in Requests :
    /\ at[r] \in {"serving", "streaming"} =>
         /\ provider[r] = "open"
         /\ asked[r].endpoint \in InvestigationEndpoints => planner[r] = "open"
    /\ at[r] \in {"done", "cancelled"} =>
         /\ planner[r] # "open"
         /\ provider[r] = "open" => planner[r] = "broken"

IsMasked(r) == propagating[r] # cause[r]

(* An answer is 200 exactly when nothing was raised before it.  Two failed  *)
(* requests are told the same code exactly when they failed for the same    *)
(* cause, a close that raised before the answer excepted: it turns whatever *)
(* was the matter into an internal error.  Two answers share an id only if  *)
(* both clients supplied it.                                                *)
AnswersNameTheirCause ==
  \A r, s \in {q \in Requests : response[q] # None} :
    /\ response[r].status = 200 <=> propagating[r] = None
    /\ IsMasked(r) => response[r].code = "internal_error"
    /\ response[r].status # 200 /\ response[s].status # 200 /\ ~IsMasked(r) /\ ~IsMasked(s) =>
         (response[r].code = response[s].code <=> cause[r] = cause[s])
    /\ r # s /\ response[r].request_id = response[s].request_id =>
         asked[r].supplied_id = asked[s].supplied_id /\ asked[r].supplied_id # UnsafeId

(* What /ready says holds for every AI request of the process: ready means  *)
(* that none is refused for want of a configuration, not ready that each is *)
(* refused, before it has a client that could call the provider.            *)
ReadinessPredictsService ==
  \A r, s \in {q \in Requests : response[q] # None} :
    asked[r].endpoint = "/ready" /\ asked[s].endpoint \in AiEndpoints =>
      IF response[r].status = 200
      THEN response[s].code # "ai_not_configured"
      ELSE /\ response[s].code \in {"ai_not_configured", "validation_error"}
           /\ provider[s] = "absent"

(* Every request that was received is answered and gives up its dependency, *)
(* or is cancelled, also when closing a client fails on the way.            *)
EveryRequestEnds ==
  \A r \in Requests : (at[r] = "received") ~> (at[r] \in {"done", "cancelled"})
=============================================================================
