-------------------------- MODULE HttpBoundaryProofs --------------------------
(***************************************************************************)
(* The HTTP boundary for every set of requests, whatever their clients send *)
(* and whatever the settings are.  Requests share nothing but the settings, *)
(* so the invariant says how each one stands on its own: what it holds, what*)
(* it raised and what it was answered.                                      *)
(***************************************************************************)
EXTENDS HttpBoundary, TLAPS

Tables ==
  /\ settings \in Environments
  /\ asked \in [Requests -> Asks \cup {None}]
  /\ at \in [Requests -> Places]
  /\ planner \in [Requests -> ClientStates]
  /\ provider \in [Requests -> ClientStates]
  /\ request_id \in [Requests -> RequestIds \cup {None}]
  /\ cause \in [Requests -> ExceptionClasses \cup {None}]
  /\ propagating \in [Requests -> ExceptionClasses \cup {None}]
  /\ response \in [Requests -> Answers \cup {None}]

(* A received request has the id its client supplied, or one of its own.    *)
IsIdentified(r) ==
  /\ at[r] = "idle" <=> asked[r] = None
  /\ asked[r] # None =>
       request_id[r] = IF asked[r].supplied_id = UnsafeId THEN FreshId(r)
                       ELSE asked[r].supplied_id

(* Only a request whose dependency was built has clients; they are open     *)
(* while its service runs, and torn down planner first.                     *)
HoldsItsClients(r) ==
  /\ at[r] \in {"serving", "streaming", "leaving"} => HasDependency(r)
  /\ at[r] \in {"idle", "received"} => planner[r] = "absent" /\ provider[r] = "absent"
  /\ at[r] \in {"serving", "streaming"} =>
       /\ provider[r] = "open"
       /\ asked[r].endpoint \in InvestigationEndpoints => planner[r] = "open"
  /\ at[r] \in {"done", "cancelled"} =>
       planner[r] # "open" /\ (provider[r] = "open" => planner[r] = "broken")
  /\ at[r] = "leaving" /\ planner[r] \in {"open", "broken"} => provider[r] = "open"
  /\ provider[r] # "absent" => HasAiApiKey

(* What propagates is what was raised first, or the internal error a close  *)
(* made of it; a cancellation is never replaced.                            *)
RemembersItsCause(r) ==
  /\ at[r] \in {"idle", "received", "serving", "streaming"} => cause[r] = None
  /\ at[r] \in {"leaving", "cancelled"} /\ response[r] = None => cause[r] # None
  /\ IF cause[r] \in {None, "Cancelled"} THEN propagating[r] = cause[r]
     ELSE propagating[r] \in {cause[r], "Unexpected"}

(* The answer of a request that raised this, or nothing.                    *)
AnswerTo(r, class) ==
  LET public == IF class = None THEN Ok ELSE PublicError(class)
  IN  [status |-> public.status, code |-> public.code, request_id |-> request_id[r]]

(* A request is answered at most once, under the public name of what it     *)
(* raised, and a cancelled one not at all.                                  *)
IsAnsweredOnce(r) ==
  /\ at[r] \in {"idle", "received", "serving", "cancelled"} => response[r] = None
  /\ at[r] \in {"streaming", "done"} => response[r] # None
  /\ response[r] # None =>
       response[r] = AnswerTo(r, propagating[r]) /\ propagating[r] # "Cancelled"

(* Without a usable key no AI request gets past its dependency, and with    *)
(* one none is refused for want of it; /ready reports which is the case.    *)
FollowsTheSettings(r) ==
  /\ propagating[r] = "Configuration" => ~HasAiApiKey
  /\ at[r] = "done" /\ asked[r].endpoint \in AiEndpoints /\ ~HasAiApiKey =>
       propagating[r] \in {"Configuration", "RequestValidation"}
  /\ at[r] = "done" /\ asked[r].endpoint = "/ready" =>
       propagating[r] = IF HasAiApiKey THEN None ELSE "HTTP_503"

Stands(r) ==
  /\ IsIdentified(r)
  /\ HoldsItsClients(r)
  /\ RemembersItsCause(r)
  /\ IsAnsweredOnce(r)
  /\ FollowsTheSettings(r)

BoundaryInv == Tables /\ \A r \in Requests : Stands(r)

(* A step of another request leaves this one alone.                         *)
Untouched(s) ==
  /\ asked'[s] = asked[s] /\ request_id'[s] = request_id[s] /\ at'[s] = at[s]
  /\ planner'[s] = planner[s] /\ provider'[s] = provider[s]
  /\ cause'[s] = cause[s] /\ propagating'[s] = propagating[s] /\ response'[s] = response[s]

-----------------------------------------------------------------------------
(* None is no exception class, and every class the actions raise is one.    *)
LEMMA ClassesAreNamed ==
  /\ None \notin {"Configuration", "RequestValidation", "HTTP_422", "HTTP_503",
                  "Unexpected", "Cancelled"}
  /\ {"Configuration", "RequestValidation", "HTTP_422", "HTTP_503", "Unexpected", "Cancelled"}
       \subseteq ExceptionClasses
  /\ ServiceErrors \subseteq ExceptionClasses \ {"Configuration", "Cancelled"}
BY AnswerAssumption DEF ExceptionClasses, ServiceErrors, RecommendationErrors,
                        RecommendationErrorDetails

(* The answer to a received request is no None: a member of Answers.        *)
LEMMA AnswersAreAnswers ==
  ASSUME BoundaryInv, NEW r \in Requests, at[r] # "idle",
         NEW class \in ExceptionClasses \cup {None}
  PROVE  AnswerTo(r, class) \in Answers /\ AnswerTo(r, class) # None
<1>1. request_id[r] \in RequestIds
  BY DEF BoundaryInv, Tables, Stands, IsIdentified, FreshId, RequestIds
<1>2. AnswerTo(r, class) \in Answers
  BY <1>1 DEF AnswerTo, Answers
<1>3. QED BY <1>2, AnswerAssumption

(* What holds of a request holds of it after a step of another.             *)
LEMMA OthersStand ==
  ASSUME NEW s \in Requests, Stands(s), UNCHANGED settings, Untouched(s)
  PROVE  Stands(s)'
<1>1. UNCHANGED HasAiApiKey
  BY DEF HasAiApiKey, SelectedAiApiKey
<1>2. IsIdentified(s)' /\ HoldsItsClients(s)'
  BY <1>1 DEF Stands, Untouched, IsIdentified, HoldsItsClients, HasDependency, AdaptersAreConfigured
<1>3. RemembersItsCause(s)' /\ IsAnsweredOnce(s)' /\ FollowsTheSettings(s)'
  BY <1>1 DEF Stands, Untouched, RemembersItsCause, IsAnsweredOnce, AnswerTo, FollowsTheSettings
<1>4. QED BY <1>2, <1>3 DEF Stands

(* So a step has to answer for its own request only.                        *)
LEMMA StepKeepsInv ==
  ASSUME BoundaryInv, NEW r \in Requests, Tables', UNCHANGED settings,
         \A s \in Requests \ {r} : Untouched(s), Stands(r)'
  PROVE  BoundaryInv'
<1>1. \A s \in Requests \ {r} : Stands(s)'
  BY OthersStand DEF BoundaryInv
<1>2. QED BY <1>1 DEF BoundaryInv

LEMMA BoundaryInitEstablishesInv == BoundaryInit => BoundaryInv
<1> SUFFICES ASSUME BoundaryInit PROVE BoundaryInv
  OBVIOUS
<1>1. Tables
  BY DEF BoundaryInit, Tables, Places, ClientStates
<1>2. \A r \in Requests : IsIdentified(r) /\ HoldsItsClients(r)
  BY DEF BoundaryInit, IsIdentified, HoldsItsClients
<1>3. \A r \in Requests : RemembersItsCause(r) /\ IsAnsweredOnce(r) /\ FollowsTheSettings(r)
  BY ClassesAreNamed DEF BoundaryInit, RemembersItsCause, IsAnsweredOnce, FollowsTheSettings
<1>4. QED BY <1>1, <1>2, <1>3 DEF BoundaryInv, Stands

LEMMA ReceiveKeepsInv ==
  ASSUME BoundaryInv, NEW r \in Requests, NEW ask \in Asks, Receive(r, ask)
  PROVE  BoundaryInv'
<1>1. Tables'
  BY DEF BoundaryInv, Tables, Receive, MoveTo, Places, RequestIds, FreshId
<1>2. UNCHANGED settings /\ \A s \in Requests \ {r} : Untouched(s)
  BY DEF BoundaryInv, Tables, Receive, MoveTo, Untouched
<1>3. /\ at[r] = "idle" /\ at'[r] = "received" /\ asked'[r] = ask
      /\ request_id'[r] = IF ask.supplied_id = UnsafeId THEN FreshId(r) ELSE ask.supplied_id
      /\ UNCHANGED <<settings, planner, provider, cause, propagating, response>>
  BY DEF BoundaryInv, Tables, Receive, MoveTo
<1>4. IsIdentified(r)'
  BY <1>3, AnswerAssumption DEF IsIdentified, FreshId
<1>5. HoldsItsClients(r)'
  BY <1>3 DEF BoundaryInv, Stands, HoldsItsClients, HasAiApiKey, SelectedAiApiKey
<1>6. RemembersItsCause(r)' /\ IsAnsweredOnce(r)' /\ FollowsTheSettings(r)'
  BY <1>3 DEF BoundaryInv, Stands, RemembersItsCause, IsAnsweredOnce, FollowsTheSettings,
              HasAiApiKey, SelectedAiApiKey
<1>7. QED BY <1>1, <1>2, <1>4, <1>5, <1>6, StepKeepsInv DEF Stands

(* A request refused before anything was built for it.                      *)
LEMMA RefusalKeepsInv ==
  ASSUME BoundaryInv, NEW r \in Requests, NEW class \in ExceptionClasses \ {"Cancelled"},
         at[r] = "received", RaisesAndAnswers(r, class),
         UNCHANGED <<settings, asked, request_id, planner, provider>>,
         class = "Configuration" => ~HasAiApiKey,
         asked[r].endpoint \in AiEndpoints /\ ~HasAiApiKey =>
           class \in {"Configuration", "RequestValidation"},
         asked[r].endpoint = "/ready" => class = "HTTP_503" /\ ~HasAiApiKey
  PROVE  BoundaryInv'
<1>0. class # None
  BY AnswerAssumption
<1>a. AnswerTo(r, class) \in Answers /\ AnswerTo(r, class) # None
  BY AnswersAreAnswers
<1>b. /\ at' = [at EXCEPT ![r] = "done"]
      /\ cause' = [cause EXCEPT ![r] = class]
      /\ propagating' = [propagating EXCEPT ![r] = class]
      /\ response' = [response EXCEPT ![r] = AnswerTo(r, class)]
  BY <1>0 DEF RaisesAndAnswers, Raises, Answer, MoveTo, AnswerTo
<1>1. Tables'
  BY <1>a, <1>b DEF BoundaryInv, Tables, Places
<1>2. \A s \in Requests \ {r} : Untouched(s)
  BY <1>b DEF BoundaryInv, Tables, Untouched
<1>3. /\ at'[r] = "done" /\ cause'[r] = class /\ propagating'[r] = class
      /\ response'[r] = AnswerTo(r, class)' /\ response'[r] # None
  BY <1>a, <1>b DEF BoundaryInv, Tables, AnswerTo
<1>4. UNCHANGED HasAiApiKey
  BY DEF HasAiApiKey, SelectedAiApiKey
<1>5. IsIdentified(r)'
  BY <1>3 DEF BoundaryInv, Stands, IsIdentified
<1>6. HoldsItsClients(r)'
  BY <1>3, <1>4 DEF BoundaryInv, Stands, HoldsItsClients
<1>7. RemembersItsCause(r)' /\ IsAnsweredOnce(r)'
  BY <1>0, <1>3 DEF RemembersItsCause, IsAnsweredOnce
<1>8. FollowsTheSettings(r)'
  BY <1>3, <1>4, ClassesAreNamed DEF FollowsTheSettings
<1>9. QED BY <1>1, <1>2, <1>5, <1>6, <1>7, <1>8, StepKeepsInv DEF Stands

LEMMA ServeLocallyKeepsInv ==
  ASSUME BoundaryInv, NEW r \in Requests, ServeLocally(r)
  PROVE  BoundaryInv'
<1> DEFINE failure_class == IF IsValidAsk(asked[r]) THEN LocalFailure(asked[r])
                            ELSE "RequestValidation"
<1>1. /\ at[r] = "received" /\ asked[r].endpoint \notin AiEndpoints
      /\ asked[r] \in Asks /\ cause[r] = None /\ propagating[r] = None
      /\ UNCHANGED <<settings, asked, request_id, planner, provider>>
  BY DEF BoundaryInv, Tables, Stands, IsIdentified, RemembersItsCause, ServeLocally
<1>2. asked[r].endpoint = "/ready" => failure_class = IF HasAiApiKey THEN None ELSE "HTTP_503"
  BY <1>1, AskAssumption DEF LocalFailure, IsValidAsk, IsReady
<1>3. CASE failure_class # None
  <2>1. failure_class \in ExceptionClasses \ {"Cancelled", "Configuration"}
    BY <1>3, ClassesAreNamed DEF LocalFailure
  <2>2. RaisesAndAnswers(r, failure_class)
    BY <1>3 DEF ServeLocally
  <2>3. QED BY <1>1, <1>2, <1>3, <2>1, <2>2, RefusalKeepsInv
<1>4. CASE failure_class = None
  <2>1. AnswerTo(r, None) \in Answers /\ AnswerTo(r, None) # None
    BY <1>1, AnswersAreAnswers
  <2>2. /\ at' = [at EXCEPT ![r] = "done"]
        /\ response' = [response EXCEPT ![r] = AnswerTo(r, None)]
        /\ UNCHANGED <<cause, propagating>>
    BY <1>4 DEF ServeLocally, Answer, MoveTo, AnswerTo
  <2>3. Tables'
    BY <1>1, <2>1, <2>2 DEF BoundaryInv, Tables, Places
  <2>4. \A s \in Requests \ {r} : Untouched(s)
    BY <1>1, <2>2 DEF BoundaryInv, Tables, Untouched
  <2>5. /\ at'[r] = "done" /\ response'[r] = AnswerTo(r, None)' /\ response'[r] # None
        /\ UNCHANGED HasAiApiKey
    BY <1>1, <2>1, <2>2 DEF BoundaryInv, Tables, AnswerTo, HasAiApiKey, SelectedAiApiKey
  <2>6. IsIdentified(r)' /\ HoldsItsClients(r)'
    BY <1>1, <2>5 DEF BoundaryInv, Stands, IsIdentified, HoldsItsClients
  <2>7. RemembersItsCause(r)' /\ IsAnsweredOnce(r)' /\ FollowsTheSettings(r)'
    BY <1>1, <1>2, <1>4, <2>2, <2>5, ClassesAreNamed
    DEF RemembersItsCause, IsAnsweredOnce, FollowsTheSettings
  <2>8. QED BY <1>1, <2>3, <2>4, <2>6, <2>7, StepKeepsInv DEF Stands
<1>5. QED BY <1>3, <1>4

(* A request whose dependency could be built has its clients from here on.  *)
LEMMA DependencyKeepsInv ==
  ASSUME BoundaryInv, NEW r \in Requests, RefuseInvalid(r) \/ CallService(r) \/ OpenStream(r)
  PROVE  BoundaryInv'
<1>1. /\ at[r] = "received" /\ asked[r] # None /\ HasDependency(r) /\ HasAiApiKey
      /\ cause[r] = None /\ propagating[r] = None /\ response[r] = None
      /\ UNCHANGED <<settings, asked, request_id>> /\ OpenClients(r)
  BY DEF BoundaryInv, Stands, IsIdentified, RemembersItsCause, IsAnsweredOnce, HasDependency,
         AdaptersAreConfigured, RefuseInvalid, CallService, OpenStream
<1>2. AnswerTo(r, None) \in Answers /\ AnswerTo(r, None) # None
  BY <1>1, AnswersAreAnswers
<1>3. UNCHANGED HasAiApiKey /\ HasDependency(r)'
  BY <1>1 DEF HasDependency, AdaptersAreConfigured, HasAiApiKey, SelectedAiApiKey
<1>4. /\ provider'[r] = "open" /\ planner'[r] \in {"open", "absent"}
      /\ asked[r].endpoint \in InvestigationEndpoints => planner'[r] = "open"
      /\ planner' \in [Requests -> ClientStates] /\ provider' \in [Requests -> ClientStates]
      /\ \A s \in Requests \ {r} : planner'[s] = planner[s] /\ provider'[s] = provider[s]
  BY <1>1 DEF BoundaryInv, Tables, Stands, HoldsItsClients, OpenClients, ClientStates
<1>5. asked[r].endpoint # "/ready"
  BY <1>1 DEF HasDependency, AiEndpoints, InvestigationEndpoints
<1>6. CASE RefuseInvalid(r)
  <2>1. /\ at' = [at EXCEPT ![r] = "leaving"]
        /\ cause' = [cause EXCEPT ![r] = "RequestValidation"]
        /\ propagating' = [propagating EXCEPT ![r] = "RequestValidation"]
        /\ UNCHANGED response
    BY <1>6 DEF RefuseInvalid, Raises, MoveTo
  <2>2. Tables'
    BY <1>1, <1>4, <2>1, ClassesAreNamed DEF BoundaryInv, Tables, Places
  <2>3. \A s \in Requests \ {r} : Untouched(s)
    BY <1>1, <1>4, <2>1 DEF BoundaryInv, Tables, Untouched
  <2>4. at'[r] = "leaving" /\ cause'[r] = "RequestValidation" /\ propagating'[r] = cause'[r]
    BY <2>1 DEF BoundaryInv, Tables
  <2>5. IsIdentified(r)' /\ HoldsItsClients(r)'
    BY <1>1, <1>3, <1>4, <2>4 DEF BoundaryInv, Stands, IsIdentified, HoldsItsClients
  <2>6. RemembersItsCause(r)' /\ IsAnsweredOnce(r)' /\ FollowsTheSettings(r)'
    BY <1>1, <1>3, <2>1, <2>4, ClassesAreNamed
    DEF RemembersItsCause, IsAnsweredOnce, FollowsTheSettings
  <2>7. QED BY <1>1, <2>2, <2>3, <2>5, <2>6, StepKeepsInv DEF Stands
<1>7. CASE CallService(r)
  <2>1. at' = [at EXCEPT ![r] = "serving"] /\ UNCHANGED <<cause, propagating, response>>
    BY <1>7 DEF CallService, MoveTo
  <2>2. Tables'
    BY <1>1, <1>4, <2>1 DEF BoundaryInv, Tables, Places
  <2>3. \A s \in Requests \ {r} : Untouched(s)
    BY <1>1, <1>4, <2>1 DEF BoundaryInv, Tables, Untouched
  <2>4. at'[r] = "serving"
    BY <2>1 DEF BoundaryInv, Tables
  <2>5. IsIdentified(r)' /\ HoldsItsClients(r)'
    BY <1>1, <1>3, <1>4, <2>4 DEF BoundaryInv, Stands, IsIdentified, HoldsItsClients
  <2>6. RemembersItsCause(r)' /\ IsAnsweredOnce(r)' /\ FollowsTheSettings(r)'
    BY <1>1, <1>3, <2>1, <2>4, ClassesAreNamed
    DEF RemembersItsCause, IsAnsweredOnce, FollowsTheSettings
  <2>7. QED BY <1>1, <2>2, <2>3, <2>5, <2>6, StepKeepsInv DEF Stands
<1>8. CASE OpenStream(r)
  <2>1. /\ at' = [at EXCEPT ![r] = "streaming"] /\ UNCHANGED <<cause, propagating>>
        /\ response' = [response EXCEPT ![r] = AnswerTo(r, None)]
    BY <1>8 DEF OpenStream, Answer, MoveTo, AnswerTo
  <2>2. Tables'
    BY <1>1, <1>2, <1>4, <2>1 DEF BoundaryInv, Tables, Places
  <2>3. \A s \in Requests \ {r} : Untouched(s)
    BY <1>1, <1>4, <2>1 DEF BoundaryInv, Tables, Untouched
  <2>4. at'[r] = "streaming" /\ response'[r] = AnswerTo(r, None)' /\ response'[r] # None
    BY <1>1, <1>2, <2>1 DEF BoundaryInv, Tables, AnswerTo
  <2>5. IsIdentified(r)' /\ HoldsItsClients(r)'
    BY <1>1, <1>3, <1>4, <2>4 DEF BoundaryInv, Stands, IsIdentified, HoldsItsClients
  <2>6. RemembersItsCause(r)' /\ IsAnsweredOnce(r)' /\ FollowsTheSettings(r)'
    BY <1>1, <1>3, <2>1, <2>4, ClassesAreNamed
    DEF RemembersItsCause, IsAnsweredOnce, FollowsTheSettings
  <2>7. QED BY <1>1, <2>2, <2>3, <2>5, <2>6, StepKeepsInv DEF Stands
<1>9. QED BY <1>6, <1>7, <1>8

(* The service call or the stream is over, one way or another.              *)
LEMMA ServiceEndKeepsInv ==
  ASSUME BoundaryInv, NEW r \in Requests,
         \/ ServiceReturns(r) \/ StreamEnds(r)
         \/ \E class \in ServiceErrors \cup {"Cancelled"} : ServiceRaises(r, class)
  PROVE  BoundaryInv'
<1>1. /\ at[r] \in {"serving", "streaming"} /\ asked[r] # None /\ HasDependency(r)
      /\ HasAiApiKey /\ provider[r] = "open" /\ planner[r] \in ClientStates
      /\ at[r] = "serving" => response[r] = None
      /\ cause[r] = None /\ propagating[r] = None
      /\ at' = [at EXCEPT ![r] = "leaving"]
      /\ UNCHANGED <<settings, asked, request_id, planner, provider>>
  BY DEF BoundaryInv, Tables, Stands, IsIdentified, HoldsItsClients, RemembersItsCause,
         IsAnsweredOnce, HasDependency, AdaptersAreConfigured, ServiceReturns, StreamEnds,
         ServiceRaises, MoveTo
<1>2. UNCHANGED HasAiApiKey /\ HasDependency(r)' /\ at'[r] = "leaving"
  BY <1>1 DEF BoundaryInv, Tables, HasDependency, AdaptersAreConfigured, HasAiApiKey,
              SelectedAiApiKey
<1>3. asked[r].endpoint # "/ready" /\ asked[r].endpoint \in AiEndpoints
  BY <1>1 DEF HasDependency, AiEndpoints, InvestigationEndpoints
<1>4. IsIdentified(r)' /\ HoldsItsClients(r)'
  BY <1>1, <1>2 DEF BoundaryInv, Stands, IsIdentified, HoldsItsClients
<1>5. AnswerTo(r, None) \in Answers /\ AnswerTo(r, None) # None
  BY <1>1, AnswersAreAnswers
<1>6. CASE ServiceReturns(r)
  <2>1. UNCHANGED <<cause, propagating>> /\ response' = [response EXCEPT ![r] = AnswerTo(r, None)]
    BY <1>6 DEF ServiceReturns, Answer, AnswerTo
  <2>2. Tables'
    BY <1>1, <1>5, <2>1 DEF BoundaryInv, Tables, Places
  <2>3. \A s \in Requests \ {r} : Untouched(s)
    BY <1>1, <2>1 DEF BoundaryInv, Tables, Untouched
  <2>4. response'[r] = AnswerTo(r, None)' /\ response'[r] # None
    BY <1>1, <1>5, <2>1 DEF BoundaryInv, Tables, AnswerTo
  <2>5. RemembersItsCause(r)' /\ IsAnsweredOnce(r)' /\ FollowsTheSettings(r)'
    BY <1>1, <1>2, <2>1, <2>4, ClassesAreNamed
    DEF RemembersItsCause, IsAnsweredOnce, FollowsTheSettings
  <2>6. QED BY <1>1, <1>4, <2>2, <2>3, <2>5, StepKeepsInv DEF Stands
<1>7. CASE StreamEnds(r)
  <2>1. UNCHANGED <<cause, propagating, response>> /\ at[r] = "streaming"
    BY <1>7 DEF StreamEnds
  <2>2. Tables'
    BY <1>1, <2>1 DEF BoundaryInv, Tables, Places
  <2>3. \A s \in Requests \ {r} : Untouched(s)
    BY <1>1, <2>1 DEF BoundaryInv, Tables, Untouched
  <2>4. RemembersItsCause(r)' /\ IsAnsweredOnce(r)' /\ FollowsTheSettings(r)'
    BY <1>1, <1>2, <2>1, ClassesAreNamed
    DEF BoundaryInv, Stands, RemembersItsCause, IsAnsweredOnce, AnswerTo, FollowsTheSettings
  <2>5. QED BY <1>1, <1>4, <2>2, <2>3, <2>4, StepKeepsInv DEF Stands
<1>8. CASE \E class \in ServiceErrors \cup {"Cancelled"} : ServiceRaises(r, class)
  <2>1. PICK class \in ServiceErrors \cup {"Cancelled"} : ServiceRaises(r, class)
    BY <1>8
  <2>2. /\ cause' = [cause EXCEPT ![r] = class]
        /\ propagating' = [propagating EXCEPT ![r] = class]
        /\ UNCHANGED response /\ at[r] = "serving"
        /\ class \in ExceptionClasses /\ class \notin {None, "Configuration"}
    BY <2>1, ClassesAreNamed, AnswerAssumption DEF ServiceRaises, Raises
  <2>3. Tables'
    BY <1>1, <2>2 DEF BoundaryInv, Tables, Places
  <2>4. \A s \in Requests \ {r} : Untouched(s)
    BY <1>1, <2>2 DEF BoundaryInv, Tables, Untouched
  <2>5. cause'[r] = class /\ propagating'[r] = class
    BY <2>2 DEF BoundaryInv, Tables
  <2>6. RemembersItsCause(r)' /\ IsAnsweredOnce(r)' /\ FollowsTheSettings(r)'
    BY <1>1, <1>2, <2>2, <2>5, ClassesAreNamed
    DEF RemembersItsCause, IsAnsweredOnce, FollowsTheSettings
  <2>7. QED BY <1>1, <1>4, <2>3, <2>4, <2>6, StepKeepsInv DEF Stands
<1>9. QED BY <1>6, <1>7, <1>8

(* A client is closed, well or not; a close that raises before the answer   *)
(* becomes what propagates.                                                 *)
LEMMA CloseKeepsInv ==
  ASSUME BoundaryInv, NEW r \in Requests, ClosePlanner(r) \/ CloseProvider(r)
  PROVE  BoundaryInv'
<1>1. /\ at[r] = "leaving" /\ HasDependency(r) /\ provider[r] = "open"
      /\ UNCHANGED <<settings, asked, request_id, at, cause, response>>
      /\ UNCHANGED propagating \/ CloseRaises(r)
  BY DEF BoundaryInv, Tables, Stands, HoldsItsClients, ClientStates, ClosePlanner, CloseProvider
<1>2. /\ planner' \in [Requests -> ClientStates] /\ provider' \in [Requests -> ClientStates]
      /\ \A s \in Requests \ {r} : planner'[s] = planner[s] /\ provider'[s] = provider[s]
      /\ \/ planner'[r] \in {"closed", "broken"} /\ provider'[r] = "open"
         \/ planner'[r] \in {"closed", "absent"} /\ provider'[r] # "absent"
  BY DEF BoundaryInv, Tables, Stands, HoldsItsClients, ClientStates, ClosePlanner, CloseProvider
<1>3. /\ propagating' \in [Requests -> ExceptionClasses \cup {None}]
      /\ \A s \in Requests \ {r} : propagating'[s] = propagating[s]
      /\ \/ propagating'[r] = propagating[r]
         \/ /\ response[r] = None /\ propagating[r] # "Cancelled"
            /\ propagating'[r] = "Unexpected"
  BY <1>1, ClassesAreNamed DEF BoundaryInv, Tables, CloseRaises
<1>4. UNCHANGED HasAiApiKey /\ HasDependency(r)' /\ HasAiApiKey
  BY <1>1 DEF HasDependency, AdaptersAreConfigured, HasAiApiKey, SelectedAiApiKey
<1>5. Tables'
  BY <1>1, <1>2, <1>3 DEF BoundaryInv, Tables
<1>6. \A s \in Requests \ {r} : Untouched(s)
  BY <1>1, <1>2, <1>3 DEF Untouched
<1>7. IsIdentified(r)' /\ HoldsItsClients(r)'
  BY <1>1, <1>2, <1>4 DEF BoundaryInv, Stands, IsIdentified, HoldsItsClients
<1>8. RemembersItsCause(r)'
  BY <1>1, <1>3, ClassesAreNamed DEF BoundaryInv, Stands, RemembersItsCause
<1>9. IsAnsweredOnce(r)' /\ FollowsTheSettings(r)'
  BY <1>1, <1>3, <1>4, ClassesAreNamed
  DEF BoundaryInv, Stands, IsAnsweredOnce, AnswerTo, FollowsTheSettings
<1>10. QED BY <1>1, <1>5, <1>6, <1>7, <1>8, <1>9, StepKeepsInv DEF Stands

(* Out of the dependency, the exception under way meets its handler.        *)
LEMMA LeaveKeepsInv ==
  ASSUME BoundaryInv, NEW r \in Requests, LeaveDependency(r)
  PROVE  BoundaryInv'
<1>1. /\ at[r] = "leaving" /\ HasDependency(r) /\ asked[r] # None
      /\ planner[r] # "open" /\ (provider[r] = "open" => planner[r] = "broken")
      /\ propagating[r] \in ExceptionClasses \cup {None}
      /\ UNCHANGED <<settings, asked, request_id, planner, provider, cause, propagating>>
  BY DEF BoundaryInv, Tables, Stands, IsIdentified, HoldsItsClients, LeaveDependency
<1>2. /\ UNCHANGED HasAiApiKey /\ HasDependency(r)' /\ HasAiApiKey
      /\ asked[r].endpoint # "/ready"
  BY <1>1 DEF HasDependency, AdaptersAreConfigured, HasAiApiKey, SelectedAiApiKey, AiEndpoints,
              InvestigationEndpoints
<1>3. AnswerTo(r, propagating[r]) \in Answers /\ AnswerTo(r, propagating[r]) # None
  BY <1>1, AnswersAreAnswers
<1>4. \/ response[r] # None /\ at' = [at EXCEPT ![r] = "done"] /\ UNCHANGED response
      \/ /\ response[r] = None /\ propagating[r] = "Cancelled"
         /\ at' = [at EXCEPT ![r] = "cancelled"] /\ UNCHANGED response
      \/ /\ response[r] = None /\ propagating[r] \notin {None, "Cancelled"}
         /\ at' = [at EXCEPT ![r] = "done"]
         /\ response' = [response EXCEPT ![r] = AnswerTo(r, propagating[r])]
  BY <1>1, ClassesAreNamed
  DEF BoundaryInv, Stands, RemembersItsCause, LeaveDependency, MoveTo, Answer, AnswerTo
<1>5. Tables'
  BY <1>1, <1>3, <1>4 DEF BoundaryInv, Tables, Places
<1>6. \A s \in Requests \ {r} : Untouched(s)
  BY <1>1, <1>4 DEF BoundaryInv, Tables, Untouched
<1>7. /\ at'[r] \in {"done", "cancelled"}
      /\ at'[r] = "cancelled" => response'[r] = None
      /\ at'[r] = "done" => response'[r] = AnswerTo(r, propagating[r])' /\ response'[r] # None
                            /\ propagating[r] # "Cancelled"
      /\ response'[r] = None => response[r] = None
  BY <1>1, <1>3, <1>4 DEF BoundaryInv, Tables, Stands, IsAnsweredOnce, AnswerTo
<1>8. IsIdentified(r)' /\ HoldsItsClients(r)'
  BY <1>1, <1>2, <1>7 DEF BoundaryInv, Stands, IsIdentified, HoldsItsClients
<1>9. RemembersItsCause(r)' /\ IsAnsweredOnce(r)' /\ FollowsTheSettings(r)'
  BY <1>1, <1>2, <1>7, ClassesAreNamed
  DEF BoundaryInv, Stands, RemembersItsCause, IsAnsweredOnce, FollowsTheSettings
<1>10. QED BY <1>1, <1>5, <1>6, <1>8, <1>9, StepKeepsInv DEF Stands

LEMMA BoundaryNextKeepsInv == BoundaryInv /\ [BoundaryNext]_boundaryVars => BoundaryInv'
<1> SUFFICES ASSUME BoundaryInv, [BoundaryNext]_boundaryVars PROVE BoundaryInv'
  OBVIOUS
<1>1. ASSUME NEW r \in Requests, NEW ask \in Asks, Receive(r, ask) PROVE BoundaryInv'
  BY <1>1, ReceiveKeepsInv
<1>2. ASSUME NEW r \in Requests, Resolve(r) PROVE BoundaryInv'
  <2>1. CASE RefuseUnparsed(r)
    <3>1. asked[r].endpoint # "/ready"
      BY <2>1, AskAssumption
      DEF BoundaryInv, Tables, Stands, IsIdentified, RefuseUnparsed, Parses
    <3>2. QED BY <2>1, <3>1, ClassesAreNamed, RefusalKeepsInv DEF RefuseUnparsed
  <2>2. CASE RefuseUnconfigured(r)
    BY <2>2, ClassesAreNamed, RefusalKeepsInv
    DEF RefuseUnconfigured, AdaptersAreConfigured, AiEndpoints, InvestigationEndpoints
  <2>3. QED BY <1>2, <2>1, <2>2, DependencyKeepsInv, ServeLocallyKeepsInv DEF Resolve
<1>3. ASSUME NEW r \in Requests, ServiceEnds(r) \/ StreamEnds(r) \/ CancelRequest(r)
      PROVE  BoundaryInv'
  BY <1>3, ServiceEndKeepsInv DEF ServiceEnds, CancelRequest
<1>4. ASSUME NEW r \in Requests, TearDown(r) PROVE BoundaryInv'
  BY <1>4, CloseKeepsInv, LeaveKeepsInv DEF TearDown
<1>5. CASE UNCHANGED boundaryVars
  <2>1. \A s \in Requests : Untouched(s)
    BY <1>5 DEF boundaryVars, Untouched
  <2>2. Tables' /\ UNCHANGED settings
    BY <1>5 DEF boundaryVars, BoundaryInv, Tables
  <2>3. QED BY <2>1, <2>2, OthersStand DEF BoundaryInv
<1>6. QED BY <1>1, <1>2, <1>3, <1>4, <1>5 DEF BoundaryNext

(* Every request stands as the invariant says, for ever.                    *)
THEOREM BoundaryInvariant == BoundarySpec => []BoundaryInv
BY BoundaryInitEstablishesInv, BoundaryNextKeepsInv, PTL DEF BoundarySpec

-----------------------------------------------------------------------------
(* The shape of the state, and no answer without the end it belongs to.     *)
THEOREM BoundaryTypeCorrect == BoundarySpec => []BoundaryTypeOK
<1>1. BoundaryInv => BoundaryTypeOK
  BY DEF BoundaryInv, Tables, Stands, IsIdentified, IsAnsweredOnce, BoundaryTypeOK
<1>2. QED BY <1>1, BoundaryInvariant, PTL

(* No request uses a client that is not open, and none leaves one open, but *)
(* for the provider of an investigation whose planner's close raised.       *)
THEOREM ClientsLive == BoundarySpec => []ClientsLiveWithRequest
<1>1. BoundaryInv => ClientsLiveWithRequest
  BY DEF BoundaryInv, Stands, HoldsItsClients, ClientsLiveWithRequest
<1>2. QED BY <1>1, BoundaryInvariant, PTL

(* The class of the failure each public code stands for.                    *)
ClassOfCode ==
  [ai_quota_exhausted |-> "Quota", ai_rate_limited |-> "RateLimit", ai_timeout |-> "Timeout",
   ai_refusal |-> "Refusal", ai_invalid_output |-> "InvalidOutput",
   ai_authentication_failed |-> "Authentication", ai_not_configured |-> "Configuration",
   ai_unavailable |-> "Unavailable", validation_error |-> "RequestValidation",
   http_422 |-> "HTTP_422", http_503 |-> "HTTP_503", internal_error |-> "Unexpected"]

(* Every failure that is told to a client has a public code of its own, and *)
(* none of them is told as a success.                                       *)
LEMMA PublicCodesAreDistinct ==
  ASSUME NEW class \in ExceptionClasses, class # "Cancelled"
  PROVE  ClassOfCode[PublicError(class).code] = class /\ PublicError(class).status # 200
<1>1. CASE class \in RecommendationErrors
  BY <1>1 DEF RecommendationErrors, RecommendationErrorDetails, PublicError, Public, ClassOfCode
<1>2. CASE class \in {"Unexpected", "RequestValidation", "HTTP_422", "HTTP_503"}
  BY <1>2 DEF RecommendationErrors, RecommendationErrorDetails, PublicError, Public,
              InternalError, ClassOfCode
<1>3. QED BY <1>1, <1>2 DEF ExceptionClasses

(* Codes tell causes apart, and ids tell requests apart.                    *)
THEOREM AnswersAreTruthful == BoundarySpec => []AnswersNameTheirCause
<1>1. ASSUME BoundaryInv, NEW r \in Requests, response[r] # None
      PROVE  /\ asked[r] \in Asks
             /\ cause[r] \in ExceptionClasses \cup {None} /\ cause[r] # "Cancelled"
             /\ propagating[r] \in ExceptionClasses \cup {None} /\ propagating[r] # "Cancelled"
             /\ response[r] = AnswerTo(r, propagating[r])
             /\ IsMasked(r) => propagating[r] = "Unexpected"
             /\ cause[r] = None <=> propagating[r] = None
             /\ request_id[r] = IF asked[r].supplied_id = UnsafeId THEN r
                                ELSE asked[r].supplied_id
  BY <1>1, ClassesAreNamed DEF BoundaryInv, Tables, Stands, IsIdentified, RemembersItsCause,
                               IsAnsweredOnce, IsMasked, FreshId
<1>2. ASSUME BoundaryInv, NEW r \in Requests, response[r] # None
      PROVE  /\ response[r].status = 200 <=> propagating[r] = None
             /\ IsMasked(r) => response[r].code = "internal_error"
             /\ response[r].status # 200 => ClassOfCode[response[r].code] = propagating[r]
             /\ response[r].request_id = request_id[r]
             /\ response[r].status # 200 => response[r].code = PublicError(propagating[r]).code
  <2>0. response[r] = AnswerTo(r, propagating[r])
    BY <1>1, <1>2
  <2>1. /\ propagating[r] = None => response[r].status = 200
        /\ response[r].request_id = request_id[r]
    BY <2>0 DEF AnswerTo, Ok, Public
  <2>2. propagating[r] # None => response[r].status = PublicError(propagating[r]).status
                                 /\ response[r].code = PublicError(propagating[r]).code
    BY <2>0 DEF AnswerTo
  <2>3. PublicError("Unexpected").code = "internal_error"
    BY DEF PublicError, RecommendationErrors, RecommendationErrorDetails, InternalError, Public
  <2>4. QED BY <1>1, <1>2, <2>1, <2>2, <2>3, PublicCodesAreDistinct, ClassesAreNamed
<1>3. BoundaryInv => AnswersNameTheirCause
  <2> SUFFICES ASSUME BoundaryInv, NEW r \in Requests, NEW s \in Requests,
                      response[r] # None, response[s] # None
               PROVE  /\ response[r].status = 200 <=> propagating[r] = None
                      /\ IsMasked(r) => response[r].code = "internal_error"
                      /\ /\ response[r].status # 200 /\ response[s].status # 200
                         /\ ~IsMasked(r) /\ ~IsMasked(s)
                         => (response[r].code = response[s].code <=> cause[r] = cause[s])
                      /\ r # s /\ response[r].request_id = response[s].request_id =>
                           /\ asked[r].supplied_id = asked[s].supplied_id
                           /\ asked[r].supplied_id # UnsafeId
    BY DEF AnswersNameTheirCause
  <2>1. /\ response[r].status = 200 <=> propagating[r] = None
        /\ IsMasked(r) => response[r].code = "internal_error"
    BY <1>2
  <2>2. ASSUME response[r].status # 200, response[s].status # 200, ~IsMasked(r), ~IsMasked(s)
        PROVE  response[r].code = response[s].code <=> cause[r] = cause[s]
    BY <1>2, <2>2 DEF IsMasked
  <2>3. ASSUME r # s, response[r].request_id = response[s].request_id
        PROVE  asked[r].supplied_id = asked[s].supplied_id /\ asked[r].supplied_id # UnsafeId
    BY <1>1, <1>2, <2>3, AskAssumption
  <2>4. QED BY <2>1, <2>2, <2>3
<1>4. QED BY <1>3, BoundaryInvariant, PTL

(* /ready and the AI endpoints cannot disagree about the configuration.     *)
THEOREM ReadinessIsTruthful == BoundarySpec => []ReadinessPredictsService
<1>1. ASSUME BoundaryInv, NEW r \in Requests, response[r] # None,
             asked[r].endpoint = "/ready"
      PROVE  response[r].status = 200 <=> HasAiApiKey
  <2>1. at[r] = "done"
    BY <1>1 DEF BoundaryInv, Tables, Places, Stands, HoldsItsClients, HasDependency,
                IsAnsweredOnce, AiEndpoints, InvestigationEndpoints
  <2>2. response[r] = AnswerTo(r, IF HasAiApiKey THEN None ELSE "HTTP_503")
    BY <1>1, <2>1 DEF BoundaryInv, Stands, IsAnsweredOnce, FollowsTheSettings
  <2>3. PublicError("HTTP_503").status = 503
    BY DEF PublicError, RecommendationErrors, RecommendationErrorDetails, Public
  <2>4. QED BY <2>2, <2>3, ClassesAreNamed DEF AnswerTo, Ok, Public
<1>2. ASSUME BoundaryInv, NEW s \in Requests, response[s] # None,
             asked[s].endpoint \in AiEndpoints
      PROVE  IF HasAiApiKey THEN response[s].code # "ai_not_configured"
             ELSE /\ response[s].code \in {"ai_not_configured", "validation_error"}
                  /\ provider[s] = "absent"
  <2>1. /\ response[s] = AnswerTo(s, propagating[s]) /\ propagating[s] # "Cancelled"
        /\ propagating[s] \in ExceptionClasses \cup {None}
    BY <1>2 DEF BoundaryInv, Tables, Stands, IsAnsweredOnce
  <2>2. CASE HasAiApiKey
    <3>1. propagating[s] # "Configuration"
      BY <1>2, <2>2 DEF BoundaryInv, Stands, FollowsTheSettings
    <3>2. CASE propagating[s] = None
      <4>1. response[s].code = None
        BY <2>1, <3>2 DEF AnswerTo, Ok, Public
      <4>2. PublicError("Configuration").code = "ai_not_configured"
        BY DEF PublicError, RecommendationErrors, RecommendationErrorDetails, Public
      <4>3. QED BY <2>2, <4>1, <4>2, ClassesAreNamed, AnswerAssumption
    <3>3. CASE propagating[s] # None
      <4>1. response[s].code = PublicError(propagating[s]).code
        BY <2>1, <3>3 DEF AnswerTo
      <4>2. ClassOfCode["ai_not_configured"] = "Configuration"
        BY DEF ClassOfCode
      <4>3. QED BY <2>1, <2>2, <3>1, <3>3, <4>1, <4>2, PublicCodesAreDistinct
    <3>4. QED BY <3>2, <3>3
  <2>3. CASE ~HasAiApiKey
    <3>1. at[s] = "done"
      BY <1>2, <2>3 DEF BoundaryInv, Tables, Places, Stands, HoldsItsClients, HasDependency,
                        AdaptersAreConfigured, IsAnsweredOnce
    <3>2. propagating[s] \in {"Configuration", "RequestValidation"} /\ provider[s] = "absent"
      BY <1>2, <2>3, <3>1 DEF BoundaryInv, Stands, HoldsItsClients, FollowsTheSettings
    <3>3. /\ PublicError("Configuration").code = "ai_not_configured"
          /\ PublicError("RequestValidation").code = "validation_error"
      BY DEF PublicError, RecommendationErrors, RecommendationErrorDetails, Public
    <3>4. QED BY <2>1, <2>3, <3>2, <3>3, ClassesAreNamed DEF AnswerTo
  <2>4. QED BY <2>2, <2>3
<1>3. BoundaryInv => ReadinessPredictsService
  BY <1>1, <1>2 DEF ReadinessPredictsService
<1>4. QED BY <1>3, BoundaryInvariant, PTL

-----------------------------------------------------------------------------
(* At most this many steps are left to a request: while it is torn down,    *)
(* one for each open client and the last.                                   *)
StepsToGo(r) ==
  CASE at[r] = "idle"                     -> 6
    [] at[r] = "received"                 -> 5
    [] at[r] \in {"serving", "streaming"} -> 4
    [] at[r] = "leaving"                  -> 1 + (IF planner[r] = "open" THEN 1 ELSE 0)
                                               + (IF provider[r] = "open" THEN 1 ELSE 0)
    [] OTHER                              -> 0

LEMMA StepsToGoAreFew == \A r \in Requests : StepsToGo(r) \in 0..6
BY DEF StepsToGo

(* A step brings its request closer to its end, leaves the others where they*)
(* are, and changes no answer that was given.                               *)
MovesOn(r) ==
  /\ StepsToGo(r)' < StepsToGo(r)
  /\ response[r] # None => response'[r] = response[r]
  /\ \A s \in Requests \ {r} : StepsToGo(s)' = StepsToGo(s) /\ response'[s] = response[s]

(* Out of its place a request moves to a later one.                         *)
LEMMA MovingOn ==
  ASSUME BoundaryInv, NEW r \in Requests, NEW place \in Places, MoveTo(r, place),
         StepsToGo(r)' < StepsToGo(r),
         planner' \in [Requests -> ClientStates], provider' \in [Requests -> ClientStates],
         \A s \in Requests \ {r} : planner'[s] = planner[s] /\ provider'[s] = provider[s],
         \/ UNCHANGED response
         \/ response[r] = None /\ \E public : Answer(r, public)
  PROVE  MovesOn(r)
<1>1. \A s \in Requests \ {r} : at'[s] = at[s] /\ response'[s] = response[s]
  BY DEF BoundaryInv, Tables, MoveTo, Answer
<1>2. \A s \in Requests \ {r} : StepsToGo(s)' = StepsToGo(s)
  BY <1>1 DEF StepsToGo
<1>3. QED BY <1>1, <1>2 DEF MovesOn

LEMMA ClosingMovesOn ==
  ASSUME BoundaryInv, NEW r \in Requests, ClosePlanner(r) \/ CloseProvider(r)
  PROVE  MovesOn(r)
<1>1. /\ at[r] = "leaving" /\ UNCHANGED <<at, response>>
      /\ \/ planner[r] = "open" /\ planner'[r] # "open" /\ UNCHANGED provider
         \/ provider[r] = "open" /\ provider'[r] # "open" /\ UNCHANGED planner
      /\ \A s \in Requests \ {r} : planner'[s] = planner[s] /\ provider'[s] = provider[s]
  BY DEF BoundaryInv, Tables, ClosePlanner, CloseProvider
<1>2. StepsToGo(r)' < StepsToGo(r)
  BY <1>1 DEF StepsToGo
<1>3. \A s \in Requests \ {r} : StepsToGo(s)' = StepsToGo(s)
  BY <1>1 DEF StepsToGo
<1>4. QED BY <1>1, <1>2, <1>3 DEF MovesOn

LEMMA EveryStepMovesOn ==
  ASSUME BoundaryInv, BoundaryNext
  PROVE  \E r \in Requests : MovesOn(r)
<1>1. PICK r \in Requests :
        \/ \E ask \in Asks : Receive(r, ask)
        \/ Resolve(r) \/ ServiceEnds(r) \/ StreamEnds(r) \/ CancelRequest(r) \/ TearDown(r)
  BY DEF BoundaryNext
<1> DEFINE Clients ==
      /\ planner' \in [Requests -> ClientStates] /\ provider' \in [Requests -> ClientStates]
      /\ \A s \in Requests \ {r} : planner'[s] = planner[s] /\ provider'[s] = provider[s]
<1>2. UNCHANGED <<planner, provider>> \/ OpenClients(r) => Clients
  BY DEF BoundaryInv, Tables, OpenClients, ClientStates
<1>3. \A place \in Places : MoveTo(r, place) => at'[r] = place
  BY DEF BoundaryInv, Tables, MoveTo
<1>4. at[r] \in {"idle", "received", "serving"} => response[r] = None
  BY DEF BoundaryInv, Stands, IsAnsweredOnce
<1>5. ASSUME NEW ask \in Asks, Receive(r, ask) PROVE MovesOn(r)
  <2>1. at[r] = "idle" /\ MoveTo(r, "received") /\ Clients /\ UNCHANGED response
    BY <1>2, <1>5 DEF Receive
  <2>2. at'[r] = "received"
    BY <1>3, <2>1 DEF Places
  <2>3. StepsToGo(r)' < StepsToGo(r)
    BY <2>1, <2>2 DEF StepsToGo
  <2>4. QED BY <2>1, <2>3, MovingOn DEF Places
<1>6. CASE Resolve(r)
  <2>1. /\ at[r] = "received" /\ Clients
        /\ \E place \in {"done", "leaving", "serving", "streaming"} : MoveTo(r, place)
        /\ UNCHANGED response \/ \E public : Answer(r, public)
    BY <1>2, <1>6 DEF Resolve, RefuseUnparsed, RefuseUnconfigured, RefuseInvalid, ServeLocally,
                      CallService, OpenStream, RaisesAndAnswers
  <2>2. PICK place \in {"done", "leaving", "serving", "streaming"} : MoveTo(r, place)
    BY <2>1
  <2>3. at'[r] = place /\ place \in Places
    BY <1>3, <2>2 DEF Places
  <2>4. StepsToGo(r)' < StepsToGo(r)
    BY <2>1, <2>2, <2>3 DEF StepsToGo
  <2>5. QED BY <1>4, <2>1, <2>2, <2>3, <2>4, MovingOn
<1>7. CASE ServiceEnds(r) \/ StreamEnds(r) \/ CancelRequest(r)
  <2>1. /\ at[r] \in {"serving", "streaming"} /\ MoveTo(r, "leaving") /\ Clients
        /\ UNCHANGED response \/ (at[r] = "serving" /\ \E public : Answer(r, public))
    BY <1>2, <1>7 DEF ServiceEnds, StreamEnds, CancelRequest, ServiceReturns, ServiceRaises
  <2>2. at'[r] = "leaving"
    BY <1>3, <2>1 DEF Places
  <2>3. StepsToGo(r)' < StepsToGo(r)
    BY <2>1, <2>2 DEF StepsToGo
  <2>4. QED BY <1>4, <2>1, <2>3, MovingOn DEF Places
<1>8. CASE ClosePlanner(r) \/ CloseProvider(r)
  BY <1>8, ClosingMovesOn
<1>9. CASE LeaveDependency(r)
  <2>1. /\ at[r] = "leaving" /\ Clients
        /\ \E place \in {"done", "cancelled"} : MoveTo(r, place)
        /\ UNCHANGED response \/ (response[r] = None /\ \E public : Answer(r, public))
    BY <1>2, <1>9 DEF LeaveDependency
  <2>2. PICK place \in {"done", "cancelled"} : MoveTo(r, place)
    BY <2>1
  <2>3. at'[r] = place /\ place \in Places
    BY <1>3, <2>2 DEF Places
  <2>4. StepsToGo(r)' < StepsToGo(r)
    BY <2>1, <2>2, <2>3 DEF StepsToGo
  <2>5. QED BY <2>1, <2>2, <2>3, <2>4, MovingOn
<1>10. QED BY <1>1, <1>5, <1>6, <1>7, <1>8, <1>9 DEF TearDown

(* Every step brings one request closer to its end and leaves the others    *)
(* where they are, so that no more than six steps are taken for a request.  *)
THEOREM RequestsMoveOn ==
  BoundarySpec => /\ [](\A r \in Requests : StepsToGo(r) \in 0..6)
                  /\ [][\E r \in Requests : /\ StepsToGo(r)' < StepsToGo(r)
                                            /\ \A s \in Requests \ {r} :
                                                 StepsToGo(s)' = StepsToGo(s)]_boundaryVars
<1>1. BoundaryInv /\ [BoundaryNext]_boundaryVars
        => [\E r \in Requests : /\ StepsToGo(r)' < StepsToGo(r)
                                /\ \A s \in Requests \ {r} :
                                     StepsToGo(s)' = StepsToGo(s)]_boundaryVars
  BY EveryStepMovesOn DEF MovesOn
<1>2. QED BY <1>1, StepsToGoAreFew, BoundaryInvariant, PTL DEF BoundarySpec

(* What a client was told stands: neither a client that fails to close nor  *)
(* a cancellation that comes after it changes the answer or sends another.  *)
THEOREM AnswersAreFinal ==
  BoundarySpec => [][\A r \in Requests : response[r] # None =>
                       response'[r] = response[r]]_boundaryVars
<1>1. BoundaryInv /\ [BoundaryNext]_boundaryVars
        => [\A r \in Requests : response[r] # None => response'[r] = response[r]]_boundaryVars
  BY EveryStepMovesOn DEF MovesOn
<1>2. QED BY <1>1, BoundaryInvariant, PTL DEF BoundarySpec
=============================================================================
