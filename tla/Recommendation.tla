---------------------------- MODULE Recommendation ----------------------------
(***************************************************************************)
(* One call of RecommendationService.recommend together with the adapter    *)
(* it drives, OpenAICompatibleRecommendationProvider.recommend: two nested  *)
(* retry loops around one HTTP request to the model provider.               *)
(*                                                                          *)
(* The inner loop (retry_count) repeats a request the provider could not    *)
(* serve, after a sleep; the outer loop (output_retry_count) starts the     *)
(* inner one afresh when the reply it got is unusable or not grounded.      *)
(***************************************************************************)
EXTENDS ComplianceTools

CONSTANTS
  MaxRetries,        \* ai_max_retries
  MaxOutputRetries,  \* ai_max_output_retries
  Recommendations,   \* the schema-valid recommendations a model can produce
  OutcomeLists,      \* the tool outcomes the service can be called with
  RequestCap         \* where the ghost count of requests saturates

RequestBudgetLimit == (MaxOutputRetries + 1) * (MaxRetries + 1)

ASSUME RetryAssumption ==
  /\ MaxRetries \in Nat
  /\ MaxOutputRetries \in Nat
  /\ RequestCap \in Nat /\ RequestCap > RequestBudgetLimit

VARIABLES
  tool_outcomes,       \* the argument of recommend
  phase,               \* where the coroutine stands, see Phases
  output_retry_count,  \* RecommendationService.recommend
  retry_count,         \* OpenAICompatibleRecommendationProvider.recommend
  requests,            \* ghost: HTTP requests sent to the provider
  result,              \* the ProviderRecommendation returned, or None
  error                \* the class of the exception raised, or None

recommendVars ==
  <<tool_outcomes, phase, output_retry_count, retry_count, requests, result, error>>

Phases == {"idle", "requesting", "sleeping", "returned", "raised", "cancelled"}

-----------------------------------------------------------------------------
(* What the SDK call can end with, other than a parsed recommendation.      *)

(* the reply exists and cannot be used: RecommendationInvalidOutputError    *)
OutputFailures == {"bad_request", "output_token_limit", "schema_validation"}

(* retried by the adapter while its budget lasts; what it raises after that *)
TransientError ==
  [rate_limit |-> "RateLimit", status_5xx |-> "Unavailable",
   timeout    |-> "Timeout",   connection |-> "Unavailable"]

(* raised at once; "Unexpected" is an exception no except clause names      *)
FatalError ==
  [authentication     |-> "Authentication", content_filter |-> "Refusal",
   output_parsed_none |-> "Refusal",        insufficient_quota |-> "Quota",
   status_4xx         |-> "Unavailable",    unlisted_exception |-> "Unexpected"]

ErrorClasses ==
  {"InvalidOutput"} \cup {TransientError[f] : f \in DOMAIN TransientError}
                    \cup {FatalError[f] : f \in DOMAIN FatalError}

ProviderResults == [recommendation : Recommendations, retry_count : Nat]

(* None is neither an exception nor a result *)
ASSUME AbsenceAssumption == None \notin ErrorClasses /\ None \notin ProviderResults

-----------------------------------------------------------------------------
(* _validate_case_grounding *)

AllowedCaseSourceIds ==
  {Case.case_id, Case.alert_id, Case.customer_id}
    \cup {t.transaction_id : t \in Range(Case.transactions)}

AnyOutcomeSourceIds(outcomes) == {o.call_id : o \in Range(outcomes)}

AllowedToolSourceIds(outcomes) ==
  {o.call_id : o \in {p \in Range(outcomes) : p.status = "completed"}}

IsGrounded(recommendation, outcomes) ==
  /\ recommendation.case_id = Case.case_id
  /\ \A e \in recommendation.evidence :
       \/ e.source = "case_input" /\ e.source_id \in AllowedCaseSourceIds
       \/ e.source = "tool_result" /\ e.source_id \in AllowedToolSourceIds(outcomes)
  /\ ~recommendation.cites_policy

-----------------------------------------------------------------------------
RecommendInit ==
  /\ tool_outcomes = <<>>
  /\ phase = "idle"
  /\ output_retry_count = 0
  /\ retry_count = 0
  /\ requests = 0
  /\ result = None
  /\ error = None

(* the ghost count of requests, saturating at RequestCap *)
SendRequest ==
  /\ phase' = "requesting"
  /\ requests' = IF requests < RequestCap THEN requests + 1 ELSE requests

(* recommend(case, tool_outcomes=outcomes), up to the first request *)
BeginRecommend(outcomes) ==
  /\ phase = "idle"
  /\ tool_outcomes' = outcomes
  /\ SendRequest
  /\ UNCHANGED <<output_retry_count, retry_count, result, error>>

Raise(class) ==
  /\ phase' = "raised"
  /\ error' = class
  /\ UNCHANGED <<tool_outcomes, output_retry_count, retry_count, requests, result>>

(* except RecommendationInvalidOutputError: the adapter is called anew *)
RaiseOrRetryOutput ==
  \/ /\ output_retry_count >= MaxOutputRetries
     /\ Raise("InvalidOutput")
  \/ /\ output_retry_count < MaxOutputRetries
     /\ output_retry_count' = output_retry_count + 1
     /\ retry_count' = 0
     /\ SendRequest
     /\ UNCHANGED <<tool_outcomes, result, error>>

CountOutputRetriesTwice(recommendation) ==
  /\ phase = "requesting"
  /\ IsGrounded(recommendation, tool_outcomes)
  /\ phase' = "returned"
  /\ result' = [recommendation |-> recommendation,
                retry_count    |-> retry_count + 2 * output_retry_count]
  /\ UNCHANGED <<tool_outcomes, output_retry_count, retry_count, requests, error>>

ReturnGrounded(recommendation) ==
  /\ phase = "requesting"
  /\ IsGrounded(recommendation, tool_outcomes)
  /\ phase' = "returned"
  /\ result' = [recommendation |-> recommendation,
                retry_count    |-> retry_count + output_retry_count]
  /\ UNCHANGED <<tool_outcomes, output_retry_count, retry_count, requests, error>>

RejectUngrounded(recommendation) ==
  /\ phase = "requesting"
  /\ ~IsGrounded(recommendation, tool_outcomes)
  /\ RaiseOrRetryOutput

RejectOutput(failure) ==
  /\ phase = "requesting"
  /\ failure \in OutputFailures
  /\ RaiseOrRetryOutput

FailFatally(failure) ==
  /\ phase = "requesting"
  /\ Raise(FatalError[failure])

(* asyncio.sleep before the next attempt of the same adapter call *)
Sleep ==
  /\ phase' = "sleeping"
  /\ UNCHANGED <<tool_outcomes, output_retry_count, retry_count, requests, result, error>>

RetryOnceMore(failure) ==
  /\ phase = "requesting"
  /\ IF retry_count > MaxRetries THEN Raise(TransientError[failure]) ELSE Sleep

GiveUpEarly(failure) ==
  /\ phase = "requesting"
  /\ IF retry_count + output_retry_count >= MaxRetries
     THEN Raise(TransientError[failure]) ELSE Sleep

FailTransiently(failure) ==
  /\ phase = "requesting"
  /\ IF retry_count >= MaxRetries THEN Raise(TransientError[failure]) ELSE Sleep

ForgetRetry ==
  /\ phase = "sleeping"
  /\ SendRequest
  /\ UNCHANGED <<tool_outcomes, output_retry_count, retry_count, result, error>>

WakeUp ==
  /\ phase = "sleeping"
  /\ retry_count' = retry_count + 1
  /\ SendRequest
  /\ UNCHANGED <<tool_outcomes, output_retry_count, result, error>>

(* CancelledError thrown into the coroutine at whichever await it stands *)
CancelRecommend ==
  /\ phase \in {"requesting", "sleeping"}
  /\ phase' = "cancelled"
  /\ UNCHANGED <<tool_outcomes, output_retry_count, retry_count, requests, result, error>>

(* the request comes back, whatever it brings *)
ProviderAnswers ==
  \/ \E r \in Recommendations : ReturnGrounded(r) \/ RejectUngrounded(r)
  \/ \E f \in OutputFailures : RejectOutput(f)
  \/ \E f \in DOMAIN FatalError : FailFatally(f)
  \/ \E f \in DOMAIN TransientError : FailTransiently(f)

RecommendNext ==
  \/ \E outcomes \in OutcomeLists : BeginRecommend(outcomes)
  \/ ProviderAnswers
  \/ WakeUp
  \/ CancelRecommend

(* The SDK bounds every request by ai_timeout_seconds, and a sleep ends.    *)
RecommendFairness == WF_recommendVars(ProviderAnswers) /\ WF_recommendVars(WakeUp)

RecommendSpec == RecommendInit /\ [][RecommendNext]_recommendVars /\ RecommendFairness

-----------------------------------------------------------------------------
(* The state's shape; a result is there exactly when one was returned.      *)
RecommendTypeOK ==
  /\ tool_outcomes \in OutcomeLists \cup {<<>>}
  /\ phase \in Phases
  /\ output_retry_count \in 0..MaxOutputRetries
  /\ retry_count \in 0..MaxRetries
  /\ requests \in Nat
  /\ result \in {None} \cup ProviderResults
  /\ error \in {None} \cup ErrorClasses
  /\ (phase = "returned") <=> (result # None)
  /\ (phase = "raised") <=> (error # None)

(* One call of recommend sends at most (output retries + 1) * (retries + 1) *)
(* requests, whatever mix of unusable replies and transient failures the    *)
(* provider answers with: neither loop can refill the other for ever.       *)
RequestBudget == requests <= RequestBudgetLimit

(* What leaves the service rests on the case and on tool calls that really  *)
(* completed, however many replies were discarded before it.                *)
ReturnedIsBacked ==
  phase = "returned" =>
    LET r == result.recommendation IN
    /\ r.case_id = Case.case_id
    /\ ~r.cites_policy
    /\ \A e \in r.evidence :
         IF e.source = "tool_result"
         THEN \E i \in DOMAIN tool_outcomes :
                /\ tool_outcomes[i].call_id = e.source_id
                /\ tool_outcomes[i].status = "completed"
         ELSE e.source_id \in AllowedCaseSourceIds

(* The retry count reported with a result counts each discarded reply, and  *)
(* nothing that was not a further request.                                  *)
ReportedRetriesHappened ==
  phase = "returned" => /\ output_retry_count <= result.retry_count
                        /\ result.retry_count <= requests - 1

(* No failure surfaces while a budget that would have hidden it lasts: a    *)
(* rate limit or a timeout is raised only after MaxRetries retries of the   *)
(* same adapter call, an unusable output only after the last output retry.  *)
NoPrematureFailure ==
  /\ error \in {"RateLimit", "Timeout"} => retry_count = MaxRetries
  /\ error = "InvalidOutput" => output_retry_count = MaxOutputRetries

(* The two loops end: once called, recommend returns, raises or is          *)
(* cancelled, given that every request is answered.                         *)
RecommendTerminates ==
  (phase # "idle") ~> (phase \in {"returned", "raised", "cancelled"})

(* test_recommendations.py: a result carries retry_count = 1 when two       *)
(* requests were awaited, so every further request would be reported.  The  *)
(* adapter's count starts afresh with every output retry.                   *)
EveryRetryReported == phase = "returned" => result.retry_count = requests - 1
=============================================================================
