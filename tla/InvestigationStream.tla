------------------------- MODULE InvestigationStream -------------------------
(***************************************************************************)
(* POST /investigations/stream: investigation_event_generator, the worker   *)
(* task it creates around InvestigationAgentService.run, the queue between  *)
(* them, and the clients of the request's service dependency.               *)
(*                                                                          *)
(* The generator is driven by the SSE response (external): it may be        *)
(* cancelled with the response at any await, closed after a send that took  *)
(* too long, or left suspended at its yield and finalised later.            *)
(***************************************************************************)
EXTENDS InvestigationResponse

(* PublicStreamEventData, as far as the properties tell events apart; the   *)
(* kind is the event's name, or the stage of a progress event *)
EventData ==
  LET CallIds == {o.call_id : o \in UNION {Range(outcomes) : outcomes \in OutcomeLists}}
      Codes   == {InternalError.code} \cup
                 {RecommendationErrorDetails[class].code : class \in RecommendationErrors}
  IN  [kind : {"started", "planning_started", "recommendation_started"}]
        \cup [kind : {"planning_completed"}, requested : Nat]
        \cup [kind : {"tool_call"}, tool_call_id : CallIds, status : {"completed", "rejected"}]
        \cup [kind : {"completed"}, status : {"completed", "partial"},
              evidence : {r.evidence : r \in Recommendations}]
        \cup [kind : {"failed"}, code : Codes, retryable : BOOLEAN]

(* JSONServerSentEvent: the id is the sequence number *)
Events == [id : Nat, data : EventData]

(* None is no event *)
ASSUME EventAssumption == None \notin Events

VARIABLES
  worker,     \* the task, see Workers
  queue,      \* asyncio.Queue: what is published and not yet taken
  sequence,   \* the number of the last event published
  generator,  \* where the event generator stands, see Generators
  holding,    \* the event the generator is yielding, or None
  delivered,  \* history: the events the client received
  connected,  \* the client has not gone away
  cut,        \* history: how the response was cut short, see Cuts
  clients     \* "open", "planner_closed" or "closed"

consumerVars == <<generator, holding, delivered, connected, cut, clients>>

streamVars == <<agentVars, worker, queue, sequence, consumerVars>>

Workers == {"absent", "scheduled", "running", "finished", "crashed"}

Generators == {"new", "checking", "getting", "yielding", "abandoned", "joining", "closed"}

Cuts == {"no", "cancelled", "send_timeout", "abandoned"}

STREAM_END == [kind |-> "stream_end"]

WorkerIsDone == worker \in {"absent", "finished", "crashed"}

-----------------------------------------------------------------------------
ToolNameAsId(p) ==
  CASE p.stage = "tool_call_completed" ->
         [kind |-> "tool_call", tool_call_id |-> p.tool_outcome.name,
          status |-> p.tool_outcome.status]
    [] p.stage = "planning_completed" ->
         [kind |-> "planning_completed", requested |-> p.requested]
    [] OTHER -> [kind |-> p.stage]

(* publish_progress: the public event of one progress value *)
ProgressEvent(p) ==
  CASE p.stage = "tool_call_completed" ->
         [kind |-> "tool_call", tool_call_id |-> p.tool_outcome.call_id,
          status |-> p.tool_outcome.status]
    [] p.stage = "planning_completed" ->
         [kind |-> "planning_completed", requested |-> p.requested]
    [] OTHER -> [kind |-> p.stage]

ProgressEvents ==
  LET new == SubSeq(progress', Len(progress) + 1, Len(progress'))
  IN  [i \in DOMAIN new |-> ProgressEvent(new[i])]

CompletedEvent ==
  [kind |-> "completed", status |-> run_status, evidence |-> result.recommendation.evidence]

UnavailableEvent ==
  [kind |-> "failed", code |-> RecommendationErrorDetails["Unavailable"].code, retryable |-> TRUE]

(* except RecommendationError, except Exception *)
FailedEvent ==
  IF failure \in RecommendationErrors
  THEN LET details == RecommendationErrorDetails[failure] IN
       [kind |-> "failed", code |-> details.code, retryable |-> details.status \in {429, 503, 504}]
  ELSE [kind |-> "failed", code |-> InternalError.code, retryable |-> FALSE]

(* what run_and_publish publishes once run is over *)
TerminalEvents ==
  CASE stage = "returned" /\ BuildsResponse -> <<CompletedEvent>>
    [] stage = "raised"                     -> <<FailedEvent>>
    [] OTHER                                -> <<>>

EndWhenPublished == IF TerminalEvents' # <<>> THEN <<STREAM_END>> ELSE <<>>

(* the finally of run_and_publish, whichever way it is left *)
EndOfStream == IF IsOver' THEN <<STREAM_END>> ELSE <<>>

(* publish, for several events in a row: number each, then put it; the      *)
(* queue has no bound, so putting never waits *)
NumberedAlike(events) == [i \in DOMAIN events |-> [id |-> sequence + 1, data |-> events[i]]]

Numbered(events) == [i \in DOMAIN events |-> [id |-> sequence + i, data |-> events[i]]]

EndFirst(events) ==
  /\ sequence' = sequence + Len(events)
  /\ queue' = queue \o EndOfStream \o Numbered(events)

Publish(events) ==
  /\ sequence' = sequence + Len(events)
  /\ queue' = queue \o Numbered(events) \o EndOfStream

-----------------------------------------------------------------------------
StreamInit ==
  /\ AgentInit
  /\ worker = "absent"
  /\ queue = <<>>
  /\ sequence = 0
  /\ generator = "new"
  /\ holding = None
  /\ delivered = <<>>
  /\ connected = TRUE
  /\ cut = "no"
  /\ clients = "open"

(* The worker *)

(* run_and_publish from its first step to the planner's request *)
WorkerStarts ==
  /\ worker = "scheduled"
  /\ ~cancel_requested
  /\ StartRun
  /\ worker' = "running"
  /\ Publish(<<[kind |-> "started"]>> \o ProgressEvents)
  /\ UNCHANGED consumerVars

(* cancelled before its first step: not even its finally runs *)
WorkerNeverRuns ==
  /\ worker = "scheduled"
  /\ cancel_requested
  /\ worker' = "finished"
  /\ UNCHANGED <<agentVars, queue, sequence, consumerVars>>

WorkerSteps ==
  /\ worker = "running"
  /\ PlannerAnswers \/ RecommendationAnswers \/ RecommendationWakesUp \/ Unwind
  /\ Publish(ProgressEvents \o TerminalEvents')
  /\ worker' = IF ~IsOver' THEN "running"
               ELSE IF stage' = "returned" /\ ~BuildsResponse' THEN "crashed"
               ELSE "finished"
  /\ UNCHANGED consumerVars

DeadlineFires == FireDeadline /\ UNCHANGED <<worker, queue, sequence, consumerVars>>

(* The generator *)

ForgetWorker ==
  /\ generator' = "joining"
  /\ holding' = None
  /\ UNCHANGED <<agentVars, worker, sequence, delivered, connected, clients>>

(* its finally: cancel the worker, a no-op when it is done, and await it *)
EnterFinally ==
  /\ generator' = "joining"
  /\ holding' = None
  /\ cancel_requested' = (cancel_requested \/ ~WorkerIsDone)
  /\ UNCHANGED <<recommendVars, stage, planning, progress, deadline, run_status, failure>>
  /\ UNCHANGED <<worker, sequence, delivered, connected, clients>>

StartGenerator ==
  /\ generator = "new"
  /\ generator' = "checking"
  /\ worker' = "scheduled"
  /\ UNCHANGED <<agentVars, queue, sequence, holding, delivered, connected, cut, clients>>

CheckConnection ==
  /\ generator = "checking"
  /\ connected
  /\ generator' = "getting"
  /\ UNCHANGED <<agentVars, worker, queue, sequence, holding, delivered, connected, cut, clients>>

LeaveDisconnected ==
  /\ generator = "checking"
  /\ ~connected
  /\ EnterFinally
  /\ UNCHANGED <<queue, cut>>

PeekEvent ==
  /\ generator = "getting"
  /\ queue # <<>> /\ Head(queue) # STREAM_END
  /\ generator' = "yielding"
  /\ holding' = Head(queue)
  /\ UNCHANGED <<agentVars, worker, queue, sequence, delivered, connected, cut, clients>>

TakeEvent ==
  /\ generator = "getting"
  /\ queue # <<>> /\ Head(queue) # STREAM_END
  /\ generator' = "yielding"
  /\ holding' = Head(queue)
  /\ queue' = Tail(queue)
  /\ UNCHANGED <<agentVars, worker, sequence, delivered, connected, cut, clients>>

TakeStreamEnd ==
  /\ generator = "getting"
  /\ queue # <<>> /\ Head(queue) = STREAM_END
  /\ queue' = Tail(queue)
  /\ EnterFinally
  /\ UNCHANGED cut

JoinAtOnce ==
  /\ generator = "joining"
  /\ generator' = "closed"
  /\ UNCHANGED <<agentVars, worker, queue, sequence, holding, delivered, connected, cut, clients>>

(* a crashed worker's exception leaves the generator with it *)
JoinWorker ==
  /\ generator = "joining"
  /\ WorkerIsDone
  /\ generator' = "closed"
  /\ UNCHANGED <<agentVars, worker, queue, sequence, holding, delivered, connected, cut, clients>>

(* The response that drives the generator, and the client *)

(* what is sent to a client that has gone is lost *)
SendEvent ==
  /\ generator = "yielding"
  /\ generator' = "checking"
  /\ delivered' = IF connected THEN Append(delivered, holding) ELSE delivered
  /\ holding' = None
  /\ UNCHANGED <<agentVars, worker, queue, sequence, connected, cut, clients>>

(* sse_send_timeout_seconds: the response closes the generator itself *)
SendTimesOut ==
  /\ generator = "yielding"
  /\ EnterFinally
  /\ cut' = "send_timeout"
  /\ UNCHANGED queue

(* disconnection seen by the response, or shutdown, while the generator     *)
(* awaits: CancelledError is raised inside it *)
CancelResponse ==
  /\ generator \in {"checking", "getting"}
  /\ EnterFinally
  /\ cut' = "cancelled"
  /\ UNCHANGED queue

(* the same while the response sends: the generator stays at its yield *)
AbandonGenerator ==
  /\ generator = "yielding"
  /\ generator' = "abandoned"
  /\ cut' = "abandoned"
  /\ UNCHANGED <<agentVars, worker, queue, sequence, holding, delivered, connected, clients>>

FinalizeGenerator ==
  /\ generator = "abandoned"
  /\ EnterFinally
  /\ UNCHANGED <<queue, cut>>

(* the same before the first event was asked for *)
DropUnstarted ==
  /\ generator = "new"
  /\ generator' = "closed"
  /\ cut' = "cancelled"
  /\ UNCHANGED <<agentVars, worker, queue, sequence, holding, delivered, connected, clients>>

Disconnect ==
  /\ connected
  /\ connected' = FALSE
  /\ UNCHANGED <<agentVars, worker, queue, sequence, generator, holding, delivered, cut, clients>>

(* The request's service dependency *)

ResponseIsOver == generator = "closed" \/ cut = "abandoned"

(* the finally of get_investigation_agent_service *)
CloseClients ==
  /\ ResponseIsOver
  /\ \/ clients = "open" /\ clients' = "planner_closed"
     \/ clients = "planner_closed" /\ clients' = "closed"
  /\ UNCHANGED <<agentVars, worker, queue, sequence, generator, holding, delivered, connected, cut>>

-----------------------------------------------------------------------------
WorkerNext == WorkerStarts \/ WorkerNeverRuns \/ WorkerSteps

GeneratorNext ==
  \/ StartGenerator \/ CheckConnection \/ LeaveDisconnected
  \/ TakeEvent \/ TakeStreamEnd \/ JoinWorker

ResponseNext ==
  \/ SendEvent \/ SendTimesOut \/ CancelResponse \/ AbandonGenerator
  \/ FinalizeGenerator \/ DropUnstarted \/ Disconnect \/ CloseClients

StreamNext == WorkerNext \/ DeadlineFires \/ GeneratorNext \/ ResponseNext

(* The event loop runs ready tasks and timers; a send succeeds or times     *)
(* out; an abandoned generator is finalised; dependencies are torn down.    *)
(* Nothing obliges the provider to answer or the client to stay.            *)
StreamFairness ==
  /\ WF_streamVars(WorkerStarts \/ WorkerNeverRuns)
  /\ WF_streamVars(worker = "running" /\ Interrupted /\ WorkerSteps)
  /\ WF_streamVars(DeadlineFires)
  /\ WF_streamVars(GeneratorNext)
  /\ WF_streamVars(SendEvent \/ SendTimesOut)
  /\ WF_streamVars(FinalizeGenerator)
  /\ WF_streamVars(CloseClients)

StreamSpec == StreamInit /\ [][StreamNext]_streamVars /\ StreamFairness

-----------------------------------------------------------------------------
StreamTypeOK ==
  /\ AgentTypeOK
  /\ worker \in Workers
  /\ generator \in Generators
  /\ cut \in Cuts
  /\ clients \in {"open", "planner_closed", "closed"}
  /\ queue \in Seq(Events \cup {STREAM_END})
  /\ delivered \in Seq(Events)
  /\ Len(delivered) <= sequence
  /\ holding \in Events \cup {None}
  /\ holding # None <=> generator \in {"yielding", "abandoned"}
  /\ worker = "running" <=> IsActive

Contract == INSTANCE StreamContract WITH sent <- delivered, open <- ~ResponseIsOver

(* What the client receives follows StreamContract: consecutive ids, the    *)
(* announced number of tool calls, nothing after a terminal event, and a    *)
(* partial status exactly when a rejected call was shown.                   *)
ImplementsStreamContract == Contract!ContractSpec

IsTerminal(event) == event.data.kind \in {"completed", "failed"}

(* A client that stayed, on a response nobody cut short, has received every *)
(* event that was published, up to the terminal one of the investigation;   *)
(* only a worker that crashed building the final contract withholds it.     *)
UncutStreamIsComplete ==
  generator = "closed" /\ connected /\ cut = "no" =>
    /\ Len(delivered) = sequence
    /\ worker = "finished" => IsTerminal(Last(delivered))

(* The tool results a completed event cites were shown to the client as     *)
(* completed tool calls earlier in the same stream.                         *)
CitedToolsWereStreamed ==
  \A n \in DOMAIN delivered : delivered[n].data.kind = "completed" =>
    \A e \in delivered[n].data.evidence : e.source = "tool_result" =>
      \E m \in 1..(n - 1) :
        LET told == delivered[m].data IN
        /\ told.kind = "tool_call"
        /\ told.tool_call_id = e.source_id
        /\ told.status = "completed"

(* The stream ends as POST /investigations/run would have answered the same *)
(* run: completed exactly if that has a result, with its status and its     *)
(* evidence, and otherwise failed under the same public code, retryable     *)
(* exactly when the answer would have been a 429, 503 or 504.               *)
TerminalEventIsTheJsonAnswer ==
  delivered # <<>> =>
    LET event == Last(delivered).data
        json  == PublicError(RunFailure)
    IN  CASE event.kind = "completed" ->
               /\ RunFailure = None
               /\ event.status = run_status
               /\ event.evidence = result.recommendation.evidence
          [] event.kind = "failed" ->
               /\ RunFailure # None
               /\ event.code = json.code
               /\ event.retryable <=> json.status \notin {422, 500, 502}
          [] OTHER -> TRUE

(* The provider clients are closed under no worker that still runs, unless  *)
(* the generator was left suspended at its yield, where the finaliser may   *)
(* run after the dependency's teardown.                                     *)
ClientsOutliveWorker == clients # "open" /\ cut # "abandoned" => WorkerIsDone

(* Once the generator is leaving, the worker asks the provider for nothing: *)
(* no plan is executed and no recommendation request goes out.              *)
NoRequestOnceLeaving ==
  [][(generator \in {"joining", "closed"}) => UNCHANGED <<requests, planning>>]_streamVars

(* Every stream that starts releases what it holds: the worker ends, the    *)
(* generator closes and both clients are closed, even when the provider     *)
(* never answers and the client never reads.                                *)
StreamReleasesEverything ==
  (generator # "new") ~> (generator = "closed" /\ WorkerIsDone /\ clients = "closed")

(* README: the stream "ends with exactly one completed or failed event".    *)
(* A run that returns with token counts UsageResponse refuses publishes     *)
(* neither: the exception of build_investigation_response escapes the       *)
(* worker, past the except clauses that would have published failed.        *)
EndsWithTerminalEvent ==
  generator = "closed" /\ connected /\ cut = "no" =>
    delivered # <<>> /\ IsTerminal(Last(delivered))
=============================================================================
