# Verification of the AI compliance investigation agent

TLA+ modules, TLC configurations and TLAPS proofs about the FastAPI service in
`src/`: an agent that asks a model provider which read-only compliance tools to
run on a validated case, runs them locally, asks the provider for one grounded
recommendation, and returns the result as JSON or as a stream of server-sent
events. Paths below are relative to `src/src/compliance_agent/` unless they
start with `src/`.

## 1. Inventory

| Component | State | Operations | Talks to |
|---|---|---|---|
| Compliance tools, `services/tools.py` | per batch: `seen_fingerprints`, `outcomes` | `execute_tool_calls`, two handlers, two input models | called by the agent and by `POST /tools/execute` |
| Recommendation service, `services/recommendations.py`, and adapter, `providers/openai_recommendations.py` | `output_retry_count`; `retry_count`, afresh in each adapter call | `recommend` (both), grounding, exception mapping | SDK client of the provider; called by the agent and by `POST /recommendations` |
| Tool planner, `providers/tool_planner.py` | none | `plan`, `_parse_tool_call`, `close` | SDK client of the provider |
| Agent, `services/agent.py` | the run: progress emitted, `asyncio.timeout` | `run`, `_run_bounded` | planner, tools, recommendation service, progress callback |
| Investigation routes, `api/routes/investigations.py` | worker task, unbounded queue, `sequence`, position of the event generator, clients of the service dependency | `run_and_publish`, `publish_progress`, `investigation_event_generator`, `get_investigation_agent_service`, `POST /investigations/run`, `/stream` | agent; the SSE response, which drives the generator |
| Rule engine, `services/rule_engine.py`, `api/routes/alerts.py` | none | `evaluate_transaction_rules` | domain models |
| Case and alert contracts, `domain/models.py`, `api/routes/cases.py` | none; the client keeps alerts and cases | validators, `validate_case` | every endpoint that takes a case |
| HTTP boundary, `main.py`, `api/errors.py`, `api/routes/tools.py`, `api/routes/recommendations.py` | per request: its id, the clients of its dependency, the exception on its way | middleware, exception handlers, service dependencies | the services, their SDK clients |
| Settings and probes, `config.py`, `api/routes/system.py` | settings, loaded once | `get_settings`, `has_ai_api_key`, `/health`, `/ready` | adapters' constructors |

### What is hard here, and what makes each part correct

* **Tools.** The calls are chosen by a model: repeated, unknown, malformed, or
  about another customer. Correct means: a batch over the limit runs nothing; a
  request is run once however its first answer ended; no result leaves the case;
  sums are exact. The fingerprint is of the *raw* arguments, the handlers see
  the *validated* ones.
* **Recommendation.** Two nested retry loops with separate counters that reset
  at different moments. Correct means: paid requests are bounded, no error
  surfaces while a retry is left, what is returned is grounded in the case and in
  tool calls that completed, reported retries happened.
* **Agent.** A deadline that fires while an answer is on its way, or together
  with a cancellation from outside. Correct means: a late answer never becomes a
  result, an interrupted run sends nothing more, every run ends.
* **Stream.** Two tasks and a queue, driven by a third party which may cancel,
  time out, or abandon the generator at any await, and a dependency whose
  teardown closes the clients the worker uses. Correct means: the client sees a
  well-formed prefix of one grammar, an uncut stream is complete, nobody
  publishes or requests after the generator left, everything is released.
* **Rules.** Inclusive thresholds, UTC months, sums that can outgrow the digits
  of the metrics model.
* **Cases.** A case carries an alert that was computed earlier, over activity that
  has grown since. Correct means: such a case is accepted, and the tools, which
  select and sum on their own, find the customer and the figures of the alert.
* **HTTP boundary.** Parsing, building the dependency, validating, serving and
  tearing down come in an order the framework chooses, and any of them may fail;
  closing a client may fail too, before or after the answer. Correct means: every
  request ends, its clients live as long as its service and no longer, one failure
  has one public name on every path, and readiness means what it says.

Every hazard, at its line and with the properties aimed at it, is in
`PROJECT.json` under `hazards`.

## 2. Modules and how they correspond to the code

    ComplianceTools <-- ToolExecution --(refines)--> ToolBatch
       ^  ^  ^
       |  |  +--- Recommendation   ToolPlanner     (both EXTEND ComplianceTools)
       |  |              ^              ^
       |  |              +------+-------+
       |  |            InvestigationAgent
       |  |                     ^
       |  |           InvestigationResponse <-- InvestigationStream --(refines)--> StreamContract
       |  |            |        ^
       |  |       PublicErrors  +-- InvestigationRequest --(refines)--> HttpBoundary
       |  |            ^                      (and EXTENDS it)             |    |
       |  |            +---------------------------------------------------+    |
       |  +---------------------------------------------------------------------+
       |
       +--(INSTANCE, for the posted case)-- CaseTools --> CaseContracts --> TransactionRules

    TransactionLists <-- ComplianceTools, TransactionRules

An arrow `<--` is EXTENDS: the stream's state contains the agent's, which
contains the recommendation loop's, so the composed specification uses the same
actions as the small ones. `MC*` modules hold the instances; the proofs of a
module are in the module of its name that ends with `Proofs` (those of
`Recommendation` in `InvestigationAgentProofs`, those of `TransactionRules` and
`CaseTools` in `CaseContractsProofs`), and extend each other as the modules they
are about do.

**TransactionLists** (the comprehensions and sums of `services/rule_engine.py` and
`services/tools.py`, no state). They are recursive functions on the length of a
list (`Selected`, `Total`), which the provers can unfold. The rules and the tools
use the same ones, in different compositions, as the code does.

**ComplianceTools** (`services/tools.py`, no state). Input models, handlers,
registry, outcomes, fingerprints, and `ExecuteToolCalls`: the answer to a whole
batch. Strings are `[text, padded]`: validation strips the padding, the canonical
JSON of the fingerprint keeps it. A value of the wrong JSON type is `Mistyped`.
Argument summaries, durations, messages and the schemas sent to the model are
left out.

**ToolExecution** (the loop of `execute_tool_calls`). `calls`, `seen`,
`outcomes`; one action per branch: `CheckLimit`, `RejectDuplicate`,
`RejectUnknown`, `RunCurrent`, `Return`.

**ToolBatch** is what the loop promises: refuse the whole batch, or answer all of
it at once. The refinement hides `outcomes` until the return.

**Recommendation** (`RecommendationService.recommend` and the adapter's
`recommend`). `phase` is the await at which the coroutine stands;
`output_retry_count` and `retry_count` are the code's; `requests` is a ghost count
of HTTP requests. Every SDK exception of the adapter's except clauses, and the
exceptions it does not name, appear in `OutputFailures`, `TransientError` or
`FatalError` with the class they become. A discarded reply resets `retry_count`
and calls the adapter anew in the same step, as the `while` does.

**InvestigationAgent** (`run` and `_run_bounded`). An asyncio task runs without
interruption between awaits that suspend, so one action goes from one answer to
the next request: `ExecutePlan` includes all tool calls, all progress events and
the first recommendation request. `FireDeadline` and `CancelRun` only *mark* the
task; `Unwind` is the step in which it sees `CancelledError`. `Unwind` follows
`asyncio.timeout`: the cancellation becomes `TimeoutError` only if nobody else
cancelled the task.

**ToolPlanner** (`plan` after its request, `_parse_tool_call`). A reply of the
planning model becomes a plan: ids and names go through `str`, so a call without
an id gets the id `None` as text and two of them share it; arguments that are no
JSON object become `malformed_arguments`; a name that is no identifier makes the
whole plan fail, as the `ValidationError` that nothing names. Token counts are
copied, which `usage_valid` records.

**PublicErrors** (`api/errors.py`). The class of an exception, and the status and
code that it is told as.

**InvestigationResponse** (`build_investigation_response`, `run_investigation`).
Whether the final contract can be built, and what the JSON endpoint raises.

**InvestigationStream** (`investigation_event_generator`, `run_and_publish`,
`get_investigation_agent_service`). The worker's steps are the agent's steps with
their events numbered and queued; `_STREAM_END` is queued in the step that leaves
`run_and_publish`. The generator goes `new`, `checking` (`is_disconnected`),
`getting` (`queue.get`), `yielding`, `joining` (its `finally`), `closed`. The SSE
response is external: it may cancel the generator at an await, close it after a
send timeout, or be cancelled itself during a send, which leaves the generator
suspended (`abandoned`) until the finaliser closes it.

**StreamContract** is the client's view: received events and whether the body is
open, with the event grammar, the numbering, the announced number of tool calls
and the meaning of `partial`.

**TransactionRules** (`services/rule_engine.py`, the alert route and the models of
its request and reply). The service keeps no state, so the state is the
client's: the activity it has recorded, the last reply, the alerts received. The
client sends its activity in any order, or with one transaction twice. One
action per outcome: refused (422), failed inside (500), evaluated. A time is its
local hour and its zone's offset, converted to UTC as `astimezone` does, on a
calendar of months and years; the conversion fails before year 1 and the metrics
model fails on a sum of too many digits. `uuid5` is taken as injective.

**CaseContracts** (`domain/models.py`, `POST /cases/validate`) EXTENDS the rules: the
client keeps one alert it was sent, records more activity, and posts cases of all
four types with this or another alert, any customer profile and any selection of
the activity. `CaseIsValid` is the discriminated union with its validators.

**CaseTools** EXTENDS the contracts: `Tools` instantiates `ComplianceTools` with the
case that was posted (the variable `posted`) as its `Case`, so its properties speak
of the real handlers. What `ComplianceTools` assumes of a case is not assumed here:
it follows from the verdict `valid`.

**HttpBoundary** (`main.py`, `api/errors.py`, `config.py`, the service
dependencies). Each request goes `idle`, `received`, `serving` or `streaming`,
`leaving` (its dependency's `finally`), `done` or `cancelled`. One action per way
to refuse or to serve, in the framework's order: an unparsable body is refused
before the dependency is built, an invalid case only after. Teardown follows the
answer of an endpoint that returned and precedes the exception handler of one that
raised, so a `close` that raises replaces the exception (`propagating` against
`cause`) only in the second case. What a service call does is left open: it
returns or raises, and is assumed to end.

**InvestigationRequest** is `POST /investigations/run` in one task: the boundary's
actions around the agent's. A run's last step is at the same time the boundary's
`ServiceReturns`, `ServiceRaises` or `CancelRequest`; from the dependency to the
planner's request nothing suspends, so `StartService` is one step. It is shown to
implement `HttpBoundary` with its fairness: the end of the service call that the
boundary assumes follows from the run's deadline alone.

External, modelled from how `src/` uses it: asyncio's cancellation and timeout,
the SSE response and Starlette's disconnection, the finaliser of asynchronous
generators, FastAPI's order of parsing, dependencies, validation and teardown, the
provider and the client.

## 3. Runs

| Run | Instance | Question |
|---|---|---|
| `tool_execution` | every batch of up to 3 of 11 calls, batches of 4 over the limit | Are duplicates, limits, sums and case membership right? Does the loop implement `ToolBatch`? |
| `recommendation` | 2 retries inside, 2 outside, 7 recommendations, 4 outcome lists | Budget, grounding, reported retries, no premature error, termination |
| `agent` | 10 planning replies, limit of 2 calls, 1 + 1 retries | What becomes of each reply; deadline and cancellation against late answers; result against progress; every run ends |
| `stream` | the same, with client, response and clients | Contract of the received events, completeness, the same failure named as in JSON, clients outlive the worker, no request once leaving |
| `stream_release` | the same | Does every started stream release worker, generator and clients? |
| `transaction_rules` | 8 transactions, of which up to 4 are recorded, in every order; 3 months | Verdicts against a set-based reference, alerts that persist, months that share nothing |
| `case_contracts` | 5 transactions, of which up to 3 are recorded and 2 fit a case; 3 profiles, 3 other alerts, 4 case types | Can an alert be followed up, do the tools agree with it, is every accepted case workable? |
| `http` | 2 requests out of 12 kinds, 4 environments, clients whose close may fail | Life of the clients, public causes, readiness, every request ends |
| `http_investigation` | 1 request in 3 kinds, 2 environments, the agent as in `agent` | Does the answer say what happened to the run? Does the request implement `HttpBoundary`? |
| `tool_equivalence` (violation) | as `tool_execution` | "prevents duplicate execution" |
| `recommendation_retry_count` (violation) | as `recommendation` | every further request is reported |
| `stream_terminal` (violation) | as `stream` | "ends with exactly one `completed` or `failed` event" |

`CHECK_DEADLOCK FALSE` is set in every run but `transaction_rules` and
`case_contracts`: a batch, a call, a run, a stream and a request end, and nothing
happens afterwards. That they do not stop *before* their end is what
`RecommendTerminates`, `RunEnds`, `StreamReleasesEverything` and
`EveryRequestEnds` check.

**Bounds, and why they are enough.** The loop of the tools compares a call with
earlier ones only, so three calls show first, repeat and repeat of a repeat; the
eleven calls reach every outcome of both handlers, with padded, mistyped,
missing, defaulted, repeated, foreign and malformed arguments, and over-limit
batches exercise the limit at exactly one too many. With two retries in each
loop, each counter passes through start, middle and limit, and the reset of the
inner one is seen after zero, one and two retries; the proofs remove this bound.
`RequestCap` (10 for a budget of 9, 5 for a budget of 4) is where the ghost count
saturates; it is above the budget, so a violation would be seen. The agent and the
stream use one retry in each loop, since their properties ask where an
interruption may hit, not how often; replies have zero, one, two or one too many
calls, with completed, duplicate, unknown and malformed ones, two calls without an
id of which one completes, a name that is no identifier, no message, and token
counts the response contract refuses. One stream is modelled: streams share no
state (each request has its own queue, worker and clients). For the rules the
thresholds are scaled to 2 transfers and 5 units, the largest sum to 9, a month to
two hours and a year to two months, so that four transactions reach below, at and
above each of them, and both sides of a month's and a year's border, by zone
alone too; `MaxRecorded` bounds the recorded activity. For the cases two
transactions fit a request and a case and three are recorded, so that activity
outgrows both; a case is posted only while no answer is at hand, which loses
nothing since the service keeps nothing. Two HTTP requests suffice for properties
of pairs (ids, codes, readiness): requests share only the settings, which never
change.

**Fairness.** `Recommendation` alone: every request is answered, because the SDK
client is built with a timeout, and a sleep ends. In `InvestigationAgent` the
provider may stay silent for ever; only the timer of `asyncio.timeout` and the
delivery of a requested cancellation are fair, which is the event loop's promise.
In `InvestigationStream`: ready tasks run, a send succeeds or hits
`sse_send_timeout_seconds`, an abandoned generator is finalised, and the
request's dependencies are torn down once the response is over. The provider need
not answer, the client need not read, stay or leave. In `HttpBoundary` a service
call ends, which is justified for `recommend` by `RecommendTerminates` and for
`run` by `ImplementsHttpBoundary`, a stream ends (`StreamReleasesEverything`), and
closing a client ends, well or not. `InvestigationRequest` assumes of its run only
what `InvestigationAgent` does.

## 4. Proofs

Every theorem holds for all values of the constants under the named assumptions of
the modules, each of which TLC evaluates in the runs:

| Assumption | What it says | Why the code justifies it |
|---|---|---|
| `BatchAssumption`, `LimitAssumption` | a batch is a list of calls, limits are natural, at least one call is allowed | JSON arrays; `agent_max_tool_calls` (`ge=1`), `max_length` |
| `NoneAssumption`, `AbsenceAssumption`, `StatusAssumption`, `EventAssumption`, `AnswerAssumption` | `None` is no error code, exception class, result, status, plan, event, answer or request | they are strings and objects |
| `RetryAssumption` | retry limits are natural, the ghost cap is above the budget | `Settings`; the cap is the model's own |
| `ReplyAssumption` | a reply's calls are a list, and the outcomes of a batch within the limit are among those `recommend` may be given | the response model of the SDK; the agent passes on what `execute_tool_calls` returned |
| `AskAssumption` | no client supplies the id another request gets, `GET /ready` has no body | ids are fresh `uuid4`s |
| `CaseAssumption` | a case is a list of transactions with distinct ids and natural amounts | validators of the case; amounts are decimals with at most two places, counted in the smallest unit |
| `ArrayAssumption` | a `transaction_ids` that is no list is `Mistyped` | JSON has no third possibility |
| `JsonAssumption` | `None` is no JSON string and no list of them | Python's types |
| `OneRequest`, `RunOnly` | the composed module has one request, for `/investigations/run` | its scope |
| `CalendarAssumption`, `ThresholdAssumption`, `MonthAssumption` | months have hours and years months, thresholds are positive, a month is a year and a number of a month | constants of the rule engine; `evaluation_month` is a date |
| `TransactionAssumption` | amounts are positive and bounded, an id names one transaction | field constraints; ids of one account's activity |
| `ReviewAssumption` | alerts that no rule raised have one of the other two types | the alert union is discriminated by type |

The invariants of the runs are seldom inductive. Each proof module has one
strengthening that is, as a conjunction of named parts, and one lemma per group of
actions that keep it; TLC finds each of them true on the instance of its module's
run (with a bound for the natural numbers that `Units` ranges over).

**TransactionListsProofs** is about lists and sums, where one would use induction. The
library's induction theorems take an operator, which the provers cannot
instantiate, so `InductionOnSets` states induction for a *set* of natural numbers and
is proved by counting (a counterexample would map a finite set one to one into a
smaller one). With it: a selection has the selected elements, once each
(`SelectionShape`), and a sum of amounts is the number of their units (`Volume`, the
cardinality of a set), so that it does not depend on the order and is the same
for the rules' running sums (`TotalIsVolume`) as for the sum over a set that the
properties use as reference (`SumIsVolume`).

**ComplianceToolsProofs** has the lemmas about the handlers that all others use:
what one call is answered with (`FirstOutcomeShape`), that a batch of *n* calls has
*n* outcomes, each of its own call and rejected exactly if it has an error code
(`AnswersShape`), and that arguments which were no JSON object are always rejected
(`MarkedArgumentsAreRejected`).

**ToolExecutionProofs.** None of the properties is inductive: they say nothing of
`seen`. `LoopInv` adds that the outcomes so far are a prefix of
`ExecuteToolCalls(calls)` and that `seen` holds exactly the fingerprints of the
calls processed. Lemma `CurrentAnswer` is the heart: under `LoopInv`,
a fingerprint is in `seen` iff the call repeats an earlier one, so each of the
three branches appends the next element of that answer (`AppendKeepsInv`).
From it follow `TypeCorrect`, `AnsweredOnce`, `ResultsOfCaseOnly` (with
`CompletedIsOfCase`, about the two handlers), `SummariesAreExact` and the refinement
`LoopImplementsToolBatch`: `CheckLimit` maps to `RefuseBatch` or a stutter, the
appends to stutters, `Return` to `AnswerBatch`. `SummariesAreExact` follows a call
through validation: the ids it names, stripped, or all ids of the case when it names
none, are ids of the case without repetition (`SummarizedIds`); looking them up
gives each transaction once, so that the handler's list operations agree with sums
and counts over a set (`SummaryCountsOnce`).

**InvestigationAgentProofs** begins with the loops of `recommend`. `RequestBudget` is
not inductive either: `requests` must be tied to both counters. `RetryInv` says that
`requests` is at most `output_retry_count * (MaxRetries + 1)` (the adapter calls
that were discarded) plus what the current call has sent, at least what the counters
claim, that a sleeping call has a retry left, and that a result is grounded. From it:
`RecommendTypeCorrect`, `RequestsStayInBudget`, `ReturnedRecommendationIsBacked`,
`ReportedRetriesAreReal`, `FailuresAreNotPremature`.

For the run around the loops, `AgentInv` is `RetryInv`, for the part of the state
the agent inherits, and four parts of its own: where the run and `recommend` stand
(`StagesAgree`), how the run ended (`EndsAgree`), that the timer is armed exactly
while the run is active and that an expired run returned nothing
(`DeadlineAgrees`), and that the progress is the one the plan and its outcomes
dictate, event by event (`ToldSoFar`). The last one is needed because
`ResultAgreesWithProgress` relates a result to events that were emitted many steps
before it. `InterruptedRunsAreSilent` is an action property: `Unwind` is the only
step of an interrupted run. With `MalformedCallsAreRejected`,
`ResultsAgreeWithProgress`, `ExpiredRunsTimeOut` and `AgentTypeCorrect`, all safety
properties of the run are proved. `RunsFollowTheLoops` says that a run implements
`Recommendation`: every step is one of `RecommendNext` or leaves the loops alone;
and `RunsKeepTheLoopsPromises` that budget, grounding, reported retries and patience
hold under a deadline and cancellations too.

**InvestigationStreamProofs.** The difficulty is that the same events are in four
places at once: emitted by the run, queued, held by the generator, received. The
proof makes the worker's publications a function of how far its run has come:
`Event(n)` is the *n*-th event of this run and `Published` their number, which
never changes what was published before. `StreamInv` then adds to `AgentInv` where
the worker stands and why it may be cancelled (`WorkerAgrees`,
`GeneratorAgrees`), and that what the client received, the event on its way and the
queue are consecutive pieces of that one story, with `_STREAM_END` behind its last
event (`QueueAgrees`, `ClientAgrees`). From it follow all six safety properties of
the stream and the refinement `StreamRefinesContract`: a received list is a prefix
of a story, every such prefix obeys the grammar of `StreamContract`
(one lemma for each way a run can end), and every step of the stream opens, appends
one event, closes or stutters. `StreamsKeepTheRunsPromises` carries what is proved of a
run over to a run whose client may leave at any await.

**HttpBoundaryProofs.** Requests share only the settings, so `BoundaryInv` is a
type part and a statement about each request alone: its id, the clients it holds
at each place, the exception it raised and the one that is on its way, that it is
answered once, and that a code that speaks of the configuration agrees with the
settings. Properties of pairs (`AnswersAreTruthful` on when two answers have one
code or one id, `ReadinessIsTruthful` on a probe and another request) follow from
both requests' parts. `AnswersAreFinal` is about teardown, which comes after the
answer of an endpoint that returned: it never changes that answer or gives a second.

**InvestigationRequestProofs.** A step of the request is a step of the run or leaves
it alone, and likewise of the boundary, so `AgentInv` and `BoundaryInv` are kept by
the lemmas that are there; `RequestInv` adds `FollowsTheRun`: the request serves
exactly while its run is active, and its cause is what the run ended with.
`RequestRefinesBoundary` proves the safety half of `ImplementsHttpBoundary` (the
initial states and every step); its fairness half is liveness.
`RequestRefinesRun` says the same of the agent's specification, and
`RequestsKeepTheRunsPromises` draws the consequence for the run's properties.

**CaseContractsProofs.** `CalendarIsIntervals`
shows that the months of the code's calendar are the disjoint intervals of the
properties. `AlertsOfTheRules` says in terms of sets which alerts an evaluation
returns. `RulesInv` then says that an answer is of the activity that there is, in
some order, and that an alert received was met by some part of that activity;
without the latter `AlertsPersist` is not inductive, since the activity has grown
since. `CaseInv` adds that a posted case was judged by `CaseIsValid`, and that a kept
alert is one that a case can be about and is still backed: there is a set of
recorded transactions, all outbound, which are the ones it names and whose sum or
number is its metric (`IsBackedBy`). The backing is what `ToolsAgreeWithAlert` needs
besides the lists: the tools compute from the case, the metric was computed from
the activity at an earlier time, and both are tied to that set. From these:
`VerdictsAreExact`, `RaisedAlertsPersist`, `MonthsNeverShare`,
`RaisedAlertsOpenCases`, `ToolsReachTheMetrics`, `AcceptedCasesAreInvestigable` and
both types; `CasesKeepTheRulesPromises` shows that the first three hold while cases
are posted too.

**Progress.** Liveness under fairness is out of the provers' reach, but half of it is
not: that the system cannot go on for ever. Five theorems give each specification a
measure, a natural number built from its counters, that falls with every step:
`LoopsMakeProgress` (`StepsLeft`: the retries left in both loops), `RunsMakeProgress`
(`RunStepsLeft`: planning, deadline and cancellation besides), `StreamsMakeProgress`
(`StreamStepsLeft`: three steps for each event still to be taken from the queue, of
which there are at most `EventsAtMost`, and the ends of generator, client and
dependency besides), `InvestigationsMakeProgress` (`AllStepsLeft`) and
`RequestsMoveOn`, which is stronger: a step of the boundary brings one request closer
to its end and leaves all others where they are. So, for all limits and every
interleaving, there is no endless retry and no livelock; what is left to TLC is that
nobody stands still for ever before the end.

**Only model-checked:**

* liveness: `RecommendTerminates`, `RunEnds`, `StreamReleasesEverything`,
  `EveryRequestEnds`, and the fairness half of `ImplementsHttpBoundary`, whose proofs
  would need `ENABLED`;
* the three properties that the code violates (section 5).

## 5. Findings

1. `prevents duplicate execution` (`src/README.md:142-143`) holds of raw
   arguments only: `{}` and `{"transaction_ids": []}`, or `"cust_1"` and
   `" cust_1 "`, run the same tool on the same validated input twice in one batch
   (`services/tools.py:278`). Run `tool_equivalence`.
2. The reported `retry_count` loses the transient retries of every discarded
   output: each adapter call starts at zero
   (`providers/openai_recommendations.py:82`). Run `recommendation_retry_count`.
3. An uncut stream can end without a terminal event: the response contract is
   built in an `else` branch that no `except` covers
   (`api/routes/investigations.py:277`), and the planner, unlike the
   recommendation adapter, does not clamp the token counts it copies. Run
   `stream_terminal`. `UncutStreamIsComplete` shows it is the only way.

Met while reading, and not stated as properties: `call_id` is not checked for
uniqueness and a missing one becomes the text `None`, so a citation may name a
completed and a rejected call at once (`ReturnedIsBacked` asks for one completed
call with the cited id, and holds); a tool name that is no identifier fails the
whole run as an internal error instead of one call as unknown; an invalid case
finds the SDK clients already built, and without a configuration it is told
`ai_not_configured` (status 503) rather than `validation_error`; a `close` that raises
before the answer turns the failure into `internal_error` (`AnswersNameTheirCause`
and `AnswerReportsTheRun` except just this case);
every malformed argument string of one tool has the same fingerprint; an SDK
`BadRequestError` is an unusable output to the recommendation adapter (and is
retried) but an unavailable provider to the planner; when a generator is
abandoned during a send, the request's clients may be closed before the
finaliser cancels the worker (`ClientsOutliveWorker` excludes just this case); a
failing `planner.close()` leaves the other client open (the exception in
`ClientsLiveWithRequest`); activity whose AED total
outgrows 18 digits, or one outbound transaction dated before year 1 in UTC,
turns a request the validators accept into an internal error that hides its
alerts.

## 6. Not modelled

* Of the contracts: patterns and lengths of texts, artifact reviews, scores, risk
  levels and other fields that no code reads; the clock that turns a future date
  into a past one (what was accepted once stays so, since it does not go back).
* Error messages, validation details, log lines; the response models' constant
  fields; bounds of the numeric settings and the environment file.
* Prompts, latencies, token counts (except whether the response contract accepts
  them), SSE pings (they carry no event), text of summaries.
* A stream's clients fail to close: `HttpBoundary` has such failures for every
  request, `InvestigationStream` assumes that closing succeeds.
* Tests, examples and the Postman collection: read for intent.

## 7. Plan

Done: all modules of section 2 and the proofs of section 4, which cover every safety
property of the passing runs. What could follow:

1. clients that fail to close in `InvestigationStream`, as in `HttpBoundary`, and with
   them a refinement of `HttpBoundary` by the stream's request;
2. the clock: a case or a transaction dated in the future is refused now and accepted later;
3. liveness proofs, once the provers handle `ENABLED`: the measures of section 4 leave
   of them only that a step is enabled and fair until the end.
