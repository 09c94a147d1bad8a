----------------------- MODULE InvestigationAgentProofs -----------------------
(***************************************************************************)
(* One recommendation and one run of the agent, for every set of planning   *)
(* replies, every set of recommendations and every limit.  The first part   *)
(* is about the two retry loops of recommend, with any list of outcomes.    *)
(* Each step of a run is a step of recommend or leaves it alone, so that    *)
(* the loops keep their invariant in the second part; on top of it come the *)
(* stage, the deadline and what was reported.                               *)
(***************************************************************************)
EXTENDS InvestigationAgent, ComplianceToolsProofs, FiniteSetTheorems, SequenceTheorems

(* Requests sent by the adapter calls that were discarded, at their largest *)
DiscardedAtMost == output_retry_count * (MaxRetries + 1)

Idle ==
  phase = "idle" => /\ output_retry_count = 0 /\ retry_count = 0
                    /\ requests = 0 /\ result = None /\ error = None

(* While the loops run: every further request was counted by one of them,   *)
(* and none of the earlier adapter calls sent more than its budget.         *)
RequestsCounted ==
  phase # "idle" =>
    /\ output_retry_count + retry_count + 1 <= requests
    /\ requests <= DiscardedAtMost + retry_count + 1

SleepsWithinBudget == phase = "sleeping" => retry_count < MaxRetries

ResultAgrees ==
  phase = "returned" =>
    /\ IsGrounded(result.recommendation, tool_outcomes)
    /\ result.retry_count = retry_count + output_retry_count

RetryInv ==
  /\ RecommendTypeOK
  /\ Idle
  /\ RequestsCounted
  /\ SleepsWithinBudget
  /\ ResultAgrees
  /\ NoPrematureFailure

-----------------------------------------------------------------------------
(* The budget of the discarded adapter calls grows by one call at a time.   *)
LEMMA BudgetArithmetic ==
  ASSUME NEW o \in Nat, NEW m \in Nat
  PROVE  /\ o * (m + 1) \in Nat
         /\ (o + 1) * (m + 1) = o * (m + 1) + m + 1
OBVIOUS

LEMMA BudgetIsMonotonic ==
  ASSUME NEW o \in Nat, NEW n \in Nat, NEW m \in Nat, o <= n
  PROVE  o * (m + 1) <= n * (m + 1)
OBVIOUS

(* The error classes the actions raise are error classes.                   *)
LEMMA ErrorsAreClasses ==
  /\ "InvalidOutput" \in ErrorClasses
  /\ \A f \in DOMAIN TransientError : TransientError[f] \in ErrorClasses
  /\ \A f \in DOMAIN FatalError :
       /\ FatalError[f] \in ErrorClasses
       /\ FatalError[f] \notin {"RateLimit", "Timeout", "InvalidOutput"}
  /\ \A f \in DOMAIN TransientError : TransientError[f] # "InvalidOutput"
  /\ None \notin ErrorClasses
BY AbsenceAssumption DEF ErrorClasses, TransientError, FatalError

(* Within the loops a further request always fits under RequestCap.         *)
LEMMA RequestFits ==
  ASSUME RetryInv
  PROVE  /\ requests <= RequestBudgetLimit
         /\ requests < RequestCap
<1>1. /\ MaxRetries \in Nat /\ MaxOutputRetries \in Nat
      /\ output_retry_count \in Nat /\ output_retry_count <= MaxOutputRetries
      /\ retry_count \in Nat /\ retry_count <= MaxRetries /\ requests \in Nat
  BY RetryAssumption DEF RetryInv, RecommendTypeOK
<1>2. /\ output_retry_count * (MaxRetries + 1) \in Nat
      /\ output_retry_count * (MaxRetries + 1) <= MaxOutputRetries * (MaxRetries + 1)
      /\ MaxOutputRetries * (MaxRetries + 1) \in Nat
      /\ RequestBudgetLimit = MaxOutputRetries * (MaxRetries + 1) + MaxRetries + 1
  BY <1>1, BudgetArithmetic, BudgetIsMonotonic DEF RequestBudgetLimit
<1>3. requests <= RequestBudgetLimit
  BY <1>1, <1>2 DEF RetryInv, Idle, RequestsCounted, DiscardedAtMost
<1>4. QED BY <1>1, <1>2, <1>3, RetryAssumption

(* SendRequest increments the count.                                        *)
LEMMA SendCounts ==
  ASSUME RetryInv, SendRequest
  PROVE  phase' = "requesting" /\ requests' = requests + 1
BY RequestFits DEF SendRequest

(* No premature-failure error class is None.                                *)
LEMMA NoneIsNoFailure == None \notin {"RateLimit", "Timeout", "InvalidOutput"}
BY AbsenceAssumption DEF ErrorClasses, TransientError

LEMMA InitEstablishesInv == RecommendInit => RetryInv
<1> SUFFICES ASSUME RecommendInit PROVE RetryInv
  OBVIOUS
<1>1. RecommendTypeOK
  BY RetryAssumption DEF RecommendInit, RecommendTypeOK, Phases
<1>2. Idle /\ RequestsCounted /\ SleepsWithinBudget /\ ResultAgrees
  BY DEF RecommendInit, Idle, RequestsCounted, SleepsWithinBudget, ResultAgrees
<1>3. NoPrematureFailure
  BY NoneIsNoFailure DEF RecommendInit, NoPrematureFailure
<1>4. QED BY <1>1, <1>2, <1>3 DEF RetryInv

(* Raising an error class whose budget is exhausted.                        *)
LEMMA RaiseKeepsInv ==
  ASSUME RetryInv, NEW class \in ErrorClasses, phase = "requesting", Raise(class),
         class \in {"RateLimit", "Timeout"} => retry_count = MaxRetries,
         class = "InvalidOutput" => output_retry_count = MaxOutputRetries
  PROVE  RetryInv'
<1>1. class # None
  BY ErrorsAreClasses
<1>2. RecommendTypeOK'
  BY <1>1 DEF RetryInv, RecommendTypeOK, Raise, Phases
<1>3. (Idle /\ RequestsCounted /\ SleepsWithinBudget /\ ResultAgrees)'
  BY DEF RetryInv, Raise, Idle, RequestsCounted, DiscardedAtMost, SleepsWithinBudget, ResultAgrees
<1>4. NoPrematureFailure'
  BY DEF NoPrematureFailure, Raise
<1>5. QED BY <1>2, <1>3, <1>4 DEF RetryInv

LEMMA BeginKeepsInv ==
  ASSUME RetryInv, NEW outcomes \in OutcomeLists, BeginRecommend(outcomes)
  PROVE  RetryInv'
<1>1. /\ phase = "idle" /\ phase' = "requesting" /\ requests' = requests + 1
      /\ tool_outcomes' = outcomes
      /\ UNCHANGED <<output_retry_count, retry_count, result, error>>
  BY SendCounts DEF BeginRecommend
<1>2. output_retry_count = 0 /\ retry_count = 0 /\ requests = 0 /\ result = None /\ error = None
  BY <1>1 DEF RetryInv, Idle
<1>3. RecommendTypeOK'
  BY <1>1, <1>2 DEF RetryInv, RecommendTypeOK, Phases
<1>4. RequestsCounted'
  BY <1>1, <1>2, RetryAssumption DEF RequestsCounted, DiscardedAtMost
<1>5. (Idle /\ SleepsWithinBudget /\ ResultAgrees)'
  BY <1>1 DEF Idle, SleepsWithinBudget, ResultAgrees
<1>6. NoPrematureFailure'
  BY <1>1 DEF RetryInv, NoPrematureFailure
<1>7. QED BY <1>3, <1>4, <1>5, <1>6 DEF RetryInv

(* A discarded reply moves the requests of one adapter call to the          *)
(* discarded ones, or ends the recommendation.                              *)
LEMMA OutputRetryKeepsInv ==
  ASSUME RetryInv, phase = "requesting", RaiseOrRetryOutput
  PROVE  RetryInv'
<1>0. /\ MaxRetries \in Nat /\ MaxOutputRetries \in Nat
      /\ output_retry_count \in 0..MaxOutputRetries
      /\ retry_count \in 0..MaxRetries /\ requests \in Nat
  BY RetryAssumption DEF RetryInv, RecommendTypeOK
<1>1. CASE output_retry_count >= MaxOutputRetries /\ Raise("InvalidOutput")
  <2>1. output_retry_count = MaxOutputRetries
    BY <1>0, <1>1
  <2>2. QED BY <1>1, <2>1, ErrorsAreClasses, RaiseKeepsInv
<1>2. CASE /\ output_retry_count < MaxOutputRetries
           /\ output_retry_count' = output_retry_count + 1
           /\ retry_count' = 0
           /\ SendRequest
           /\ UNCHANGED <<tool_outcomes, result, error>>
  <2>1. phase' = "requesting" /\ requests' = requests + 1
    BY <1>2, SendCounts
  <2>2. RecommendTypeOK'
    BY <1>0, <1>2, <2>1 DEF RetryInv, RecommendTypeOK, Phases
  <2>3. RequestsCounted'
    <3>1. /\ output_retry_count + retry_count + 1 <= requests
          /\ requests <= DiscardedAtMost + retry_count + 1
      BY DEF RetryInv, RequestsCounted
    <3>2. /\ output_retry_count * (MaxRetries + 1) \in Nat
          /\ (output_retry_count + 1) * (MaxRetries + 1)
               = output_retry_count * (MaxRetries + 1) + MaxRetries + 1
      BY <1>0, BudgetArithmetic
    <3>3. DiscardedAtMost' = DiscardedAtMost + MaxRetries + 1 /\ DiscardedAtMost \in Nat
      BY <1>2, <3>2 DEF DiscardedAtMost
    <3>4. output_retry_count' + retry_count' + 1 <= requests'
      BY <1>0, <1>2, <2>1, <3>1
    <3>5. requests' <= DiscardedAtMost' + retry_count' + 1
      BY <1>0, <1>2, <2>1, <3>1, <3>3
    <3>6. QED BY <3>4, <3>5 DEF RequestsCounted
  <2>4. (Idle /\ SleepsWithinBudget /\ ResultAgrees)'
    BY <2>1 DEF Idle, SleepsWithinBudget, ResultAgrees
  <2>5. NoPrematureFailure'
    <3>1. error' = None
      BY <1>2 DEF RetryInv, RecommendTypeOK
    <3>2. QED BY <3>1, NoneIsNoFailure DEF NoPrematureFailure
  <2>6. QED BY <2>2, <2>3, <2>4, <2>5 DEF RetryInv
<1>3. QED BY <1>1, <1>2 DEF RaiseOrRetryOutput

LEMMA ReturnKeepsInv ==
  ASSUME RetryInv, NEW r \in Recommendations, ReturnGrounded(r)
  PROVE  RetryInv'
<1>0. /\ retry_count + output_retry_count \in Nat
  BY DEF RetryInv, RecommendTypeOK
<1>1. result' \in ProviderResults
  BY <1>0 DEF ReturnGrounded, ProviderResults
<1>2. result' # None
  BY <1>1, AbsenceAssumption
<1>3. RecommendTypeOK'
  BY <1>1, <1>2 DEF RetryInv, RecommendTypeOK, ReturnGrounded, Phases
<1>4. (Idle /\ RequestsCounted /\ SleepsWithinBudget /\ NoPrematureFailure)'
  BY DEF RetryInv, ReturnGrounded, Idle, RequestsCounted, DiscardedAtMost, SleepsWithinBudget,
         NoPrematureFailure
<1>5. ResultAgrees'
  BY DEF ReturnGrounded, ResultAgrees, IsGrounded, AllowedToolSourceIds
<1>6. QED BY <1>3, <1>4, <1>5 DEF RetryInv

LEMMA TransientKeepsInv ==
  ASSUME RetryInv, NEW f \in DOMAIN TransientError, FailTransiently(f)
  PROVE  RetryInv'
<1>0. MaxRetries \in Nat /\ retry_count \in 0..MaxRetries
  BY RetryAssumption DEF RetryInv, RecommendTypeOK
<1>1. CASE retry_count >= MaxRetries
  <2>1. retry_count = MaxRetries /\ phase = "requesting" /\ Raise(TransientError[f])
    BY <1>0, <1>1 DEF FailTransiently
  <2>2. QED BY <2>1, ErrorsAreClasses, RaiseKeepsInv
<1>2. CASE ~(retry_count >= MaxRetries)
  <2>1. phase = "requesting" /\ Sleep /\ retry_count < MaxRetries
    BY <1>0, <1>2 DEF FailTransiently
  <2>2. QED
    BY <2>1 DEF Sleep, RetryInv, RecommendTypeOK, Phases, Idle, RequestsCounted, DiscardedAtMost,
                SleepsWithinBudget, ResultAgrees, NoPrematureFailure
<1>3. QED BY <1>1, <1>2

LEMMA WakeUpKeepsInv ==
  ASSUME RetryInv, WakeUp
  PROVE  RetryInv'
<1>0. /\ MaxRetries \in Nat /\ retry_count \in 0..MaxRetries /\ requests \in Nat
      /\ output_retry_count \in Nat /\ retry_count < MaxRetries
  BY RetryAssumption DEF RetryInv, RecommendTypeOK, SleepsWithinBudget, WakeUp
<1>1. /\ phase = "sleeping" /\ phase' = "requesting" /\ requests' = requests + 1
      /\ retry_count' = retry_count + 1
      /\ UNCHANGED <<tool_outcomes, output_retry_count, result, error>>
  BY SendCounts DEF WakeUp
<1>2. RecommendTypeOK'
  BY <1>0, <1>1 DEF RetryInv, RecommendTypeOK, Phases
<1>3. RequestsCounted'
  <2>1. DiscardedAtMost' = DiscardedAtMost /\ DiscardedAtMost \in Nat
    BY <1>0, <1>1, BudgetArithmetic DEF DiscardedAtMost
  <2>2. QED BY <1>0, <1>1, <2>1 DEF RetryInv, RequestsCounted
<1>4. (Idle /\ SleepsWithinBudget /\ ResultAgrees)'
  BY <1>1 DEF Idle, SleepsWithinBudget, ResultAgrees
<1>5. NoPrematureFailure'
  <2>1. error' = None
    BY <1>1 DEF RetryInv, RecommendTypeOK
  <2>2. QED BY <2>1, NoneIsNoFailure DEF NoPrematureFailure
<1>6. QED BY <1>2, <1>3, <1>4, <1>5 DEF RetryInv

LEMMA NextKeepsInv == RetryInv /\ [RecommendNext]_recommendVars => RetryInv'
<1> SUFFICES ASSUME RetryInv, [RecommendNext]_recommendVars PROVE RetryInv'
  OBVIOUS
<1>1. CASE \E outcomes \in OutcomeLists : BeginRecommend(outcomes)
  BY <1>1, BeginKeepsInv
<1>2. CASE \E r \in Recommendations : ReturnGrounded(r)
  BY <1>2, ReturnKeepsInv
<1>3. CASE \E r \in Recommendations : RejectUngrounded(r)
  BY <1>3, OutputRetryKeepsInv DEF RejectUngrounded
<1>4. CASE \E f \in OutputFailures : RejectOutput(f)
  BY <1>4, OutputRetryKeepsInv DEF RejectOutput
<1>5. CASE \E f \in DOMAIN FatalError : FailFatally(f)
  <2> PICK f \in DOMAIN FatalError : FailFatally(f)
    BY <1>5
  <2> QED BY ErrorsAreClasses, RaiseKeepsInv DEF FailFatally
<1>6. CASE \E f \in DOMAIN TransientError : FailTransiently(f)
  BY <1>6, TransientKeepsInv
<1>7. CASE WakeUp
  BY <1>7, WakeUpKeepsInv
<1>8. CASE CancelRecommend
  BY <1>8 DEF CancelRecommend, RetryInv, RecommendTypeOK, Phases, Idle, RequestsCounted,
              DiscardedAtMost, SleepsWithinBudget, ResultAgrees, NoPrematureFailure
<1>9. CASE UNCHANGED recommendVars
  BY <1>9 DEF recommendVars, RetryInv, RecommendTypeOK, Idle, RequestsCounted,
              DiscardedAtMost, SleepsWithinBudget, ResultAgrees, IsGrounded,
              AllowedToolSourceIds, NoPrematureFailure
<1>10. QED
  BY <1>1, <1>2, <1>3, <1>4, <1>5, <1>6, <1>7, <1>8, <1>9 DEF RecommendNext, ProviderAnswers

(* The two loops keep their invariant for ever.                             *)
THEOREM RetryInvariant == RecommendSpec => []RetryInv
BY InitEstablishesInv, NextKeepsInv, PTL DEF RecommendSpec

-----------------------------------------------------------------------------
(* The shape of the state, for every retry limit.                           *)
THEOREM RecommendTypeCorrect == RecommendSpec => []RecommendTypeOK
<1>1. RetryInv => RecommendTypeOK
  BY DEF RetryInv
<1>2. QED BY <1>1, RetryInvariant, PTL

(* What the invariant promises, wherever the loops run.                     *)
LEMMA LoopsKeepTheirPromises ==
  RetryInv => RequestBudget /\ ReturnedIsBacked /\ ReportedRetriesHappened /\ NoPrematureFailure
<1> SUFFICES ASSUME RetryInv
             PROVE  RequestBudget /\ ReturnedIsBacked /\ ReportedRetriesHappened /\ NoPrematureFailure
  OBVIOUS
<1>1. RequestBudget
  BY RequestFits DEF RequestBudget
<1>2. ReturnedIsBacked
  BY DEF RetryInv, ResultAgrees, IsGrounded, AllowedToolSourceIds, ReturnedIsBacked, Range
<1>3. ReportedRetriesHappened
  BY DEF RetryInv, RecommendTypeOK, ResultAgrees, RequestsCounted, ReportedRetriesHappened
<1>4. QED BY <1>1, <1>2, <1>3 DEF RetryInv

(* One recommendation never sends more than (output retries + 1) *          *)
(* (retries + 1) requests, for every pair of limits.                        *)
THEOREM RequestsStayInBudget == RecommendSpec => []RequestBudget
BY LoopsKeepTheirPromises, RetryInvariant, PTL

(* Every returned recommendation rests on the case and on completed calls.  *)
THEOREM ReturnedRecommendationIsBacked == RecommendSpec => []ReturnedIsBacked
BY LoopsKeepTheirPromises, RetryInvariant, PTL

(* The retries reported with a result are among the requests it took.       *)
THEOREM ReportedRetriesAreReal == RecommendSpec => []ReportedRetriesHappened
BY LoopsKeepTheirPromises, RetryInvariant, PTL

(* Rate limits, timeouts and unusable replies surface only once the budget  *)
(* that would have hidden them is spent.                                    *)
THEOREM FailuresAreNotPremature == RecommendSpec => []NoPrematureFailure
BY LoopsKeepTheirPromises, RetryInvariant, PTL

-----------------------------------------------------------------------------
(* The requests that the two loops may still send after the present one.    *)
RequestsLeft ==
  (MaxOutputRetries - output_retry_count) * (MaxRetries + 1) + (MaxRetries - retry_count)

(* At most this many steps are left: an answer to each request, and a sleep *)
(* before each further one.                                                 *)
StepsLeft ==
  CASE phase = "idle"       -> 2 * RequestsLeft + 3
    [] phase = "requesting" -> 2 * RequestsLeft + 2
    [] phase = "sleeping"   -> 2 * RequestsLeft + 1
    [] OTHER                -> 0

(* Each further request uses up some of what is left: a retry one request,  *)
(* an unusable output all that its adapter call had left.                   *)
LEMMA RequestsLeftShrink ==
  ASSUME RetryInv
  PROVE  /\ RequestsLeft \in Nat
         /\ UNCHANGED <<output_retry_count, retry_count>> => RequestsLeft' = RequestsLeft
         /\ /\ retry_count < MaxRetries
            /\ retry_count' = retry_count + 1 /\ UNCHANGED output_retry_count
            => RequestsLeft' \in Nat /\ RequestsLeft' = RequestsLeft - 1
         /\ /\ output_retry_count < MaxOutputRetries
            /\ retry_count' = 0 /\ output_retry_count' = output_retry_count + 1
            => RequestsLeft' \in Nat /\ RequestsLeft' < RequestsLeft
<1> DEFINE o == MaxOutputRetries - output_retry_count
<1>1. /\ MaxRetries \in Nat /\ MaxOutputRetries \in Nat /\ o \in Nat
      /\ output_retry_count \in Nat /\ retry_count \in Nat /\ MaxRetries - retry_count \in Nat
  BY RetryAssumption DEF RetryInv, RecommendTypeOK
<1>2. o * (MaxRetries + 1) \in Nat
  BY <1>1, BudgetArithmetic
<1>3. RequestsLeft \in Nat
  BY <1>1, <1>2 DEF RequestsLeft
<1>4. UNCHANGED <<output_retry_count, retry_count>> => RequestsLeft' = RequestsLeft
  BY DEF RequestsLeft
<1>5. ASSUME retry_count < MaxRetries, retry_count' = retry_count + 1, UNCHANGED output_retry_count
      PROVE  RequestsLeft' \in Nat /\ RequestsLeft' = RequestsLeft - 1
  <2>1. RequestsLeft' = o * (MaxRetries + 1) + (MaxRetries - (retry_count + 1))
    BY <1>5 DEF RequestsLeft
  <2>2. RequestsLeft = o * (MaxRetries + 1) + (MaxRetries - retry_count)
    BY DEF RequestsLeft
  <2> HIDE DEF o
  <2>3. QED BY <1>1, <1>2, <1>5, <2>1, <2>2
<1>6. ASSUME output_retry_count < MaxOutputRetries, retry_count' = 0,
             output_retry_count' = output_retry_count + 1
      PROVE  RequestsLeft' \in Nat /\ RequestsLeft' < RequestsLeft
  <2>1. /\ o - 1 \in Nat
        /\ (o - 1) * (MaxRetries + 1) \in Nat
        /\ o * (MaxRetries + 1) = (o - 1) * (MaxRetries + 1) + MaxRetries + 1
    <3>1. o - 1 \in Nat /\ o = (o - 1) + 1
      BY <1>1, <1>6
    <3> HIDE DEF o
    <3>2. QED BY <1>1, <3>1, BudgetArithmetic
  <2>2. RequestsLeft' = (o - 1) * (MaxRetries + 1) + MaxRetries
    <3>1. /\ MaxOutputRetries - (output_retry_count + 1) = o - 1
          /\ MaxRetries - 0 = MaxRetries
      BY <1>1
    <3>2. QED BY <1>6, <3>1 DEF RequestsLeft
  <2>3. RequestsLeft = o * (MaxRetries + 1) + (MaxRetries - retry_count)
    BY DEF RequestsLeft
  <2> HIDE DEF o
  <2>4. QED BY <1>1, <1>2, <2>1, <2>2, <2>3
<1>7. QED BY <1>3, <1>4, <1>5, <1>6

(* An unusable output is the last or has a fresh adapter call follow it.    *)
LEMMA OutputRetriesUseUpSteps ==
  ASSUME RetryInv, phase = "requesting", RaiseOrRetryOutput
  PROVE  StepsLeft' < StepsLeft
<1>1. StepsLeft = 2 * RequestsLeft + 2 /\ RequestsLeft \in Nat
  BY RequestsLeftShrink DEF StepsLeft
<1>2. CASE phase' = "raised"
  BY <1>1, <1>2 DEF StepsLeft
<1>3. CASE /\ output_retry_count < MaxOutputRetries /\ phase' = "requesting"
           /\ retry_count' = 0 /\ output_retry_count' = output_retry_count + 1
  <2>1. RequestsLeft' \in Nat /\ RequestsLeft' < RequestsLeft
    BY <1>3, RequestsLeftShrink
  <2>2. StepsLeft' = 2 * RequestsLeft' + 2
    BY <1>3 DEF StepsLeft
  <2>3. \A m, n \in Nat : m < n => 2 * m + 2 < 2 * n + 2
    OBVIOUS
  <2>4. QED BY <1>1, <2>1, <2>2, <2>3
<1>4. QED BY <1>2, <1>3 DEF RaiseOrRetryOutput, Raise, SendRequest

LEMMA StepsAreUsedUp ==
  ASSUME RetryInv, RecommendNext
  PROVE  StepsLeft' < StepsLeft
<1> USE DEF StepsLeft
<1>1. RequestsLeft \in Nat
  BY RequestsLeftShrink
<1>2. CASE \E outcomes \in OutcomeLists : BeginRecommend(outcomes)
  <2>1. /\ phase = "idle" /\ phase' = "requesting"
        /\ UNCHANGED <<output_retry_count, retry_count>>
    BY <1>2 DEF BeginRecommend, SendRequest
  <2>2. RequestsLeft' = RequestsLeft
    BY <2>1, RequestsLeftShrink
  <2>3. QED BY <1>1, <2>1, <2>2
<1>3. CASE phase = "requesting" /\ phase' \in {"returned", "raised", "cancelled"}
  BY <1>1, <1>3
<1>4. CASE phase = "requesting" /\ RaiseOrRetryOutput
  BY <1>4, OutputRetriesUseUpSteps
<1>5. CASE phase = "requesting" /\ Sleep
  <2>1. phase' = "sleeping" /\ UNCHANGED <<output_retry_count, retry_count>>
    BY <1>5 DEF Sleep
  <2>2. RequestsLeft' = RequestsLeft
    BY <2>1, RequestsLeftShrink
  <2>3. QED BY <1>1, <1>5, <2>1, <2>2
<1>6. CASE WakeUp
  <2>1. /\ phase = "sleeping" /\ phase' = "requesting" /\ retry_count < MaxRetries
        /\ retry_count' = retry_count + 1 /\ UNCHANGED output_retry_count
    BY <1>6 DEF WakeUp, SendRequest, RetryInv, SleepsWithinBudget
  <2>2. RequestsLeft' \in Nat /\ RequestsLeft' = RequestsLeft - 1
    BY <2>1, RequestsLeftShrink
  <2>3. QED BY <1>1, <2>1, <2>2
<1>7. CASE CancelRecommend
  BY <1>1, <1>7 DEF CancelRecommend
<1>8. CASE ProviderAnswers
  <2>1. \/ phase = "requesting" /\ phase' \in {"returned", "raised", "cancelled"}
        \/ phase = "requesting" /\ RaiseOrRetryOutput
        \/ phase = "requesting" /\ Sleep
    BY <1>8 DEF ProviderAnswers, ReturnGrounded, RejectUngrounded, RejectOutput, FailFatally,
                FailTransiently, Raise
  <2>2. QED BY <1>3, <1>4, <1>5, <2>1
<1>9. QED BY <1>2, <1>6, <1>7, <1>8 DEF RecommendNext

(* The number of steps that are left is one.                                *)
LEMMA StepsAreCounted == RetryInv => StepsLeft \in Nat
<1> SUFFICES ASSUME RetryInv PROVE StepsLeft \in Nat
  OBVIOUS
<1>1. RequestsLeft \in Nat
  BY RequestsLeftShrink
<1>2. QED BY <1>1 DEF StepsLeft

(* The nested loops cannot go on for ever, whatever they are answered: a    *)
(* natural number falls with every step, so that recommend ends as soon as  *)
(* each of its awaits does.                                                 *)
THEOREM LoopsMakeProgress ==
  RecommendSpec => [](StepsLeft \in Nat) /\ [][StepsLeft' < StepsLeft]_recommendVars
<1>1. RetryInv /\ [RecommendNext]_recommendVars => [StepsLeft' < StepsLeft]_recommendVars
  BY StepsAreUsedUp
<1>2. QED BY <1>1, StepsAreCounted, RetryInvariant, PTL DEF RecommendSpec

-----------------------------------------------------------------------------
(* Where the run stands and where recommend does.                           *)
StagesAgree ==
  /\ stage \in Stages
  /\ planning \in Plans \cup {None}
  /\ stage \in {"not_started", "planning"} => phase = "idle" /\ planning = None
  /\ stage = "recommending" => phase \in {"requesting", "sleeping"}
  /\ stage = "returned" => phase = "returned"
  /\ phase # "idle" => planning \in Plans

(* How the run ended.                                                       *)
EndsAgree ==
  /\ failure \in ErrorClasses \cup {None}
  /\ stage = "raised" <=> failure # None
  /\ run_status = IF stage = "returned" THEN RunStatus(tool_outcomes) ELSE None

(* The timer is armed while the run is active, and a run that it ended      *)
(* returned nothing.                                                        *)
DeadlineAgrees ==
  /\ cancel_requested \in BOOLEAN
  /\ deadline \in Deadlines
  /\ stage = "not_started" <=> deadline = "unset"
  /\ IsActive <=> deadline \in {"armed", "expiring"}
  /\ deadline = "expired" => IF cancel_requested THEN stage = "cancelled" ELSE failure = "Timeout"
  /\ deadline = "expired" => stage # "returned"

(* All that a run can report.                                               *)
ProgressValues ==
  LET Outcomes == {o \in UNION {Range(outcomes) : outcomes \in OutcomeLists} :
                     o.status \in {"completed", "rejected"}}
  IN  {PlanningStarted, RecommendationStarted}
        \cup {PlanningCompleted(plan) : plan \in Plans}
        \cup {ToolCallCompleted(o) : o \in Outcomes}

(* All that is reported of a plan that was executed.                        *)
ToldInFull ==
  /\ progress \in Seq(ProgressValues)
  /\ DOMAIN progress = 1..(Len(tool_outcomes) + 3)
  /\ progress[1] = PlanningStarted
  /\ progress[2] = PlanningCompleted(planning)
  /\ \A i \in 1..Len(tool_outcomes) : progress[i + 2] = ToolCallCompleted(tool_outcomes[i])
  /\ progress[Len(tool_outcomes) + 3] = RecommendationStarted

(* The progress is that of a plan refused or executed, or of none.          *)
ToldSoFar ==
  /\ planning = None => progress = IF stage = "not_started" THEN <<>> ELSE <<PlanningStarted>>
  /\ planning # None /\ phase = "idle" =>
       /\ progress = <<PlanningStarted, PlanningCompleted(planning)>>
       /\ Len(planning.calls) > MaxToolCalls
  /\ phase # "idle" =>
       /\ Len(planning.calls) <= MaxToolCalls
       /\ tool_outcomes = ExecuteToolCalls(planning.calls)
       /\ ToldInFull

AgentInv == RetryInv /\ StagesAgree /\ EndsAgree /\ DeadlineAgrees /\ ToldSoFar

-----------------------------------------------------------------------------
(* Every class the run fails with is a class recommend can fail with, and   *)
(* neither a class nor a status is None.                                    *)
LEMMA FailuresAreClasses ==
  /\ {"InvalidOutput", "Timeout", "Unexpected"} \subseteq ErrorClasses
  /\ \A c \in DOMAIN PlannerError : PlannerError[c] \in ErrorClasses
  /\ None \notin ErrorClasses
  /\ \A outcomes : RunStatus(outcomes) # None
BY AbsenceAssumption, StatusAssumption
DEF ErrorClasses, TransientError, FatalError, PlannerError, RunStatus

(* A usable reply is a plan with one call per requested tool call, and the  *)
(* calls it marks have arguments that suit no tool.                         *)
LEMMA PlanShape ==
  ASSUME NEW reply \in Replies, IsUsable(reply)
  PROVE  LET plan == ToolPlan(reply) IN
         /\ plan \in Plans /\ plan # None
         /\ Len(plan.calls) \in Nat
         /\ plan.malformed \subseteq 1..Len(plan.calls)
         /\ \A i \in plan.malformed : plan.calls[i].arguments = [malformed_arguments |-> TRUE]
         /\ Len(plan.calls) <= MaxToolCalls => ExecuteToolCalls(plan.calls) \in OutcomeLists
<1> DEFINE plan == ToolPlan(reply)
           n == Len(reply.tool_calls)
<1>1. plan \in Plans /\ plan # None
  BY StatusAssumption DEF Plans
<1>2. n \in Nat /\ DOMAIN reply.tool_calls = 1..n
  BY ReplyAssumption
<1>3. plan.calls = [i \in 1..n |-> ParseToolCall(reply.tool_calls[i])]
  BY <1>2 DEF ToolPlan
<1>4. Len(plan.calls) = n
  BY <1>2, <1>3
<1>5. plan.malformed = {i \in 1..n : reply.tool_calls[i].arguments = Malformed}
  BY <1>2 DEF ToolPlan
<1>6. \A i \in plan.malformed : plan.calls[i].arguments = [malformed_arguments |-> TRUE]
  BY <1>3, <1>5 DEF ParseToolCall, ParsedArguments
<1>7. n <= MaxToolCalls => ExecuteToolCalls(plan.calls) \in OutcomeLists
  BY ReplyAssumption
<1>8. QED BY <1>1, <1>2, <1>4, <1>5, <1>6, <1>7

(* The same, of a plan.                                                     *)
LEMMA EveryPlanIsWellFormed ==
  ASSUME NEW plan \in Plans
  PROVE  /\ plan # None
         /\ Len(plan.calls) \in Nat
         /\ plan.malformed \subseteq 1..Len(plan.calls)
         /\ \A i \in plan.malformed : plan.calls[i].arguments = [malformed_arguments |-> TRUE]
BY PlanShape DEF Plans

-----------------------------------------------------------------------------
LEMMA AgentInitEstablishesInv == AgentInit => AgentInv
<1> SUFFICES ASSUME AgentInit PROVE AgentInv
  OBVIOUS
<1>1. RetryInv
  BY InitEstablishesInv DEF AgentInit
<1>2. StagesAgree /\ EndsAgree /\ DeadlineAgrees
  BY DEF AgentInit, RecommendInit, StagesAgree, EndsAgree, DeadlineAgrees, Stages, Deadlines,
         IsActive
<1>3. ToldSoFar
  BY DEF AgentInit, RecommendInit, ToldSoFar
<1>4. QED BY <1>1, <1>2, <1>3 DEF AgentInv

(* Concatenation: the one sequence, and then the other.                     *)
LEMMA ConcatByParts ==
  ASSUME NEW S, NEW s \in Seq(S), NEW t \in Seq(S)
  PROVE  /\ s \o t \in Seq(S) /\ Len(s \o t) = Len(s) + Len(t)
         /\ \A i \in 1..Len(s) : (s \o t)[i] = s[i]
         /\ \A i \in 1..Len(t) : (s \o t)[i + Len(s)] = t[i]
<1>1. /\ s \o t \in Seq(S) /\ Len(s \o t) = Len(s) + Len(t)
      /\ \A i \in 1..(Len(s) + Len(t)) :
           (s \o t)[i] = IF i <= Len(s) THEN s[i] ELSE t[i - Len(s)]
      /\ Len(s) \in Nat /\ Len(t) \in Nat
  BY ConcatProperties, LenProperties
<1>2. ASSUME NEW i \in 1..Len(t) PROVE (s \o t)[i + Len(s)] = t[i]
  <2>1. /\ i + Len(s) \in 1..(Len(s) + Len(t)) /\ ~(i + Len(s) <= Len(s))
        /\ (i + Len(s)) - Len(s) = i
    BY <1>1
  <2>2. QED BY <1>1, <2>1
<1>3. QED BY <1>1, <1>2

(* The report of an executed plan, one progress value per outcome.          *)
LEMMA ReportInFull ==
  ASSUME NEW plan, NEW outcomes, NEW n \in Nat, DOMAIN outcomes = 1..n,
         NEW V, PlanningStarted \in V, PlanningCompleted(plan) \in V, RecommendationStarted \in V,
         \A i \in 1..n : ToolCallCompleted(outcomes[i]) \in V,
         NEW told, told = <<PlanningStarted>> \o <<PlanningCompleted(plan)>>
                            \o [i \in DOMAIN outcomes |-> ToolCallCompleted(outcomes[i])]
                            \o <<RecommendationStarted>>
  PROVE  /\ told \in Seq(V) /\ DOMAIN told = 1..(n + 3)
         /\ told[1] = PlanningStarted
         /\ told[2] = PlanningCompleted(plan)
         /\ \A i \in 1..n : told[i + 2] = ToolCallCompleted(outcomes[i])
         /\ told[n + 3] = RecommendationStarted
<1> DEFINE reports == [i \in 1..n |-> ToolCallCompleted(outcomes[i])]
           head == <<PlanningStarted>> \o <<PlanningCompleted(plan)>>
           front == head \o reports
           end == <<RecommendationStarted>>
<1>1. reports \in Seq(V) /\ Len(reports) = n
  OBVIOUS
<1>2. /\ <<PlanningStarted>> \in Seq(V) /\ <<PlanningCompleted(plan)>> \in Seq(V)
      /\ end \in Seq(V) /\ Len(end) = 1 /\ end[1] = RecommendationStarted
  OBVIOUS
<1>3. told = front \o end
  OBVIOUS
<1>4. /\ head \in Seq(V) /\ Len(head) = 2
      /\ head[1] = PlanningStarted /\ head[2] = PlanningCompleted(plan)
  BY <1>2, ConcatProperties
<1> HIDE DEF reports, head, end
<1>5. /\ front \in Seq(V) /\ Len(front) = n + 2
      /\ \A i \in 1..2 : front[i] = head[i]
      /\ \A i \in 1..n : front[i + 2] = reports[i]
  <2>0. head \in Seq(V) /\ reports \in Seq(V)
    BY <1>1, <1>4
  <2>1. /\ front \in Seq(V) /\ Len(front) = Len(head) + Len(reports)
        /\ \A i \in 1..Len(head) : front[i] = head[i]
        /\ \A i \in 1..Len(reports) : front[i + Len(head)] = reports[i]
    BY <2>0, ConcatByParts
  <2>2. QED BY <1>1, <1>4, <2>1
<1> HIDE DEF front
<1>6. /\ told \in Seq(V) /\ Len(told) = n + 3
      /\ \A i \in 1..(n + 2) : told[i] = front[i]
      /\ told[n + 3] = RecommendationStarted
  <2>0. front \in Seq(V) /\ end \in Seq(V)
    BY <1>2, <1>5
  <2>1. /\ front \o end \in Seq(V) /\ Len(front \o end) = Len(front) + Len(end)
        /\ \A i \in 1..Len(front) : (front \o end)[i] = front[i]
        /\ \A i \in 1..Len(end) : (front \o end)[i + Len(front)] = end[i]
    BY ONLY <2>0, ConcatByParts
  <2>2. Len(front) = n + 2 /\ Len(end) = 1 /\ 1 \in 1..Len(end) /\ 1 + (n + 2) = n + 3
    BY <1>2, <1>5
  <2>3. (front \o end)[1 + (n + 2)] = end[1]
    BY <2>1, <2>2
  <2>4. (front \o end)[n + 3] = RecommendationStarted
    BY <1>2, <2>2, <2>3
  <2>5. Len(front \o end) = n + 3 /\ \A i \in 1..(n + 2) : (front \o end)[i] = front[i]
    BY <2>1, <2>2
  <2>6. QED BY ONLY <1>3, <2>1, <2>4, <2>5
<1>7. DOMAIN told = 1..(n + 3)
  BY <1>6
<1>8. told[1] = PlanningStarted /\ told[2] = PlanningCompleted(plan)
  BY <1>4, <1>5, <1>6
<1>9. ASSUME NEW i \in 1..n PROVE told[i + 2] = ToolCallCompleted(outcomes[i])
  <2>1. i + 2 \in 1..(n + 2)
    OBVIOUS
  <2>2. QED BY <1>5, <1>6, <2>1 DEF reports
<1>10. QED BY <1>6, <1>7, <1>8, <1>9

-----------------------------------------------------------------------------
(* A step that leaves recommend, its plan and the progress alone.           *)
LEMMA TellingNothingKeepsTold ==
  ASSUME ToldSoFar, UNCHANGED <<tool_outcomes, phase, planning, progress>>,
         stage # "not_started", stage' # "not_started"
  PROVE  ToldSoFar'
BY DEF ToldSoFar, ToldInFull

(* Two values, the one after the other.                                     *)
LEMMA AppendToOne ==
  ASSUME NEW a, NEW b
  PROVE  Append(<<a>>, b) = <<a, b>>
<1> DEFINE l == Append(<<a>>, b)
           r == <<a, b>>
<1>1. <<a>> \in Seq({a, b}) /\ Len(<<a>>) = 1 /\ <<a>>[1] = a
  OBVIOUS
<1>2. l \in Seq({a, b}) /\ Len(l) = 2 /\ l[1] = a /\ l[2] = b
  BY <1>1, AppendProperties
<1>3. r \in Seq({a, b}) /\ Len(r) = 2 /\ r[1] = a /\ r[2] = b
  OBVIOUS
<1> HIDE DEF l, r
<1>4. \A i \in 1..Len(l) : l[i] = r[i]
  BY <1>2, <1>3
<1>5. l = r
  BY <1>2, <1>3, <1>4, SeqEqual
<1>6. QED BY <1>5 DEF l, r

LEMMA StartRunKeepsInv ==
  ASSUME AgentInv, StartRun
  PROVE  AgentInv'
<1>1. RetryInv'
  BY NextKeepsInv DEF AgentInv, StartRun
<1>2. StagesAgree' /\ EndsAgree' /\ DeadlineAgrees'
  BY DEF AgentInv, StartRun, StagesAgree, EndsAgree, DeadlineAgrees, recommendVars, Stages,
         Deadlines, IsActive
<1>3. ToldSoFar'
  BY DEF AgentInv, StartRun, StagesAgree, ToldSoFar, recommendVars
<1>4. QED BY <1>1, <1>2, <1>3 DEF AgentInv

LEMMA RefusePlanKeepsInv ==
  ASSUME AgentInv, NEW plan \in Plans, RefusePlan(plan)
  PROVE  AgentInv'
<1>0. /\ stage = "planning" /\ phase = "idle" /\ planning' = plan /\ plan # None
      /\ progress' = <<PlanningStarted, PlanningCompleted(plan)>>
      /\ stage' = "raised" /\ failure' = "InvalidOutput" /\ deadline' = "exited"
      /\ run_status = None
      /\ UNCHANGED <<cancel_requested, run_status>> /\ UNCHANGED recommendVars
  <2>1. stage = "planning" /\ progress = <<PlanningStarted>>
    BY DEF AgentInv, StagesAgree, ToldSoFar, RefusePlan, PlannerAnswersWith
  <2>2. progress' = <<PlanningStarted, PlanningCompleted(plan)>>
    <3>1. progress' = Append(<<PlanningStarted>>, PlanningCompleted(plan))
      BY <2>1 DEF RefusePlan
    <3>2. QED BY <3>1, AppendToOne
  <2>3. QED BY <2>1, <2>2, StatusAssumption
        DEF AgentInv, StagesAgree, EndsAgree, RefusePlan, PlannerAnswersWith, Fail
<1>1. RetryInv'
  BY <1>0, NextKeepsInv DEF AgentInv
<1>2. StagesAgree' /\ EndsAgree' /\ DeadlineAgrees'
  BY <1>0, FailuresAreClasses
  DEF AgentInv, StagesAgree, EndsAgree, DeadlineAgrees, recommendVars, Stages, Deadlines, IsActive
<1>3. ToldSoFar'
  BY <1>0 DEF ToldSoFar, recommendVars, RefusePlan
<1>4. QED BY <1>1, <1>2, <1>3 DEF AgentInv

LEMMA ExecutePlanKeepsInv ==
  ASSUME AgentInv, NEW plan \in Plans, ExecutePlan(plan),
         ExecuteToolCalls(plan.calls) \in OutcomeLists
  PROVE  AgentInv'
<1> DEFINE outcomes == ExecuteToolCalls(plan.calls)
<1>0. /\ stage = "planning" /\ progress = <<PlanningStarted>>
      /\ planning' = plan /\ plan # None
      /\ BeginRecommend(outcomes) /\ stage' = "recommending"
      /\ UNCHANGED <<deadline, cancel_requested, run_status, failure>>
  BY StatusAssumption DEF AgentInv, StagesAgree, ToldSoFar, ExecutePlan, PlannerAnswersWith
<1>1. RetryInv'
  BY <1>0, BeginKeepsInv DEF AgentInv
<1>2. phase' = "requesting" /\ tool_outcomes' = outcomes
  BY <1>0 DEF BeginRecommend, SendRequest
<1>3. StagesAgree' /\ EndsAgree' /\ DeadlineAgrees'
  BY <1>0, <1>2
  DEF AgentInv, StagesAgree, EndsAgree, DeadlineAgrees, Stages, IsActive
<1>4. /\ Len(plan.calls) \in Nat /\ DOMAIN outcomes = 1..Len(plan.calls)
      /\ Len(outcomes) = Len(plan.calls)
  BY EveryPlanIsWellFormed, AnswersShape
<1>5. /\ progress' \in Seq(ProgressValues) /\ DOMAIN progress' = 1..(Len(plan.calls) + 3)
      /\ progress'[1] = PlanningStarted /\ progress'[2] = PlanningCompleted(plan)
      /\ \A i \in 1..Len(plan.calls) : progress'[i + 2] = ToolCallCompleted(outcomes[i])
      /\ progress'[Len(plan.calls) + 3] = RecommendationStarted
  <2>1. progress' = <<PlanningStarted>> \o <<PlanningCompleted(plan)>>
                      \o [i \in DOMAIN outcomes |-> ToolCallCompleted(outcomes[i])]
                      \o <<RecommendationStarted>>
    BY <1>0 DEF ExecutePlan
  <2>2. /\ PlanningStarted \in ProgressValues /\ RecommendationStarted \in ProgressValues
        /\ PlanningCompleted(plan) \in ProgressValues
        /\ \A i \in 1..Len(plan.calls) : ToolCallCompleted(outcomes[i]) \in ProgressValues
    <3>1. \A i \in 1..Len(plan.calls) : /\ outcomes[i] \in Range(outcomes)
                                        /\ outcomes[i].status \in {"completed", "rejected"}
      BY <1>4, EveryPlanIsWellFormed, AnswersShape DEF Range, IsOutcomeOf
    <3>2. QED BY <3>1 DEF ProgressValues
  <2>3. QED BY <1>4, <2>1, <2>2, ReportInFull
<1>6. ToldSoFar'
  BY <1>0, <1>2, <1>4, <1>5 DEF ToldSoFar, ToldInFull, ExecutePlan
<1>7. QED BY <1>1, <1>3, <1>6 DEF AgentInv

LEMMA FailPlanningKeepsInv ==
  ASSUME AgentInv, NEW class \in ErrorClasses, FailPlanning(class)
  PROVE  AgentInv'
<1>0. /\ stage = "planning" /\ stage' = "raised" /\ failure' = class /\ class # None
      /\ deadline' = "exited"
      /\ UNCHANGED <<cancel_requested, run_status, planning, progress>> /\ UNCHANGED recommendVars
  BY FailuresAreClasses DEF FailPlanning, Fail
<1>1. RetryInv'
  BY <1>0, NextKeepsInv DEF AgentInv
<1>2. StagesAgree' /\ EndsAgree' /\ DeadlineAgrees'
  BY <1>0
  DEF AgentInv, StagesAgree, EndsAgree, DeadlineAgrees, recommendVars, Stages, Deadlines, IsActive
<1>3. ToldSoFar'
  BY <1>0, TellingNothingKeepsTold DEF AgentInv, recommendVars
<1>4. QED BY <1>1, <1>2, <1>3 DEF AgentInv

(* A step of recommend itself works on the outcomes it was called with.     *)
LEMMA RecommendKeepsOutcomes ==
  ASSUME ProviderAnswers \/ WakeUp
  PROVE  tool_outcomes' = tool_outcomes /\ phase \in {"requesting", "sleeping"}
BY DEF ProviderAnswers, WakeUp, ReturnGrounded, RejectUngrounded, RejectOutput, FailFatally,
       FailTransiently, RaiseOrRetryOutput, Raise, Sleep

LEMMA FollowKeepsInv ==
  ASSUME AgentInv, ProviderAnswers \/ WakeUp, FollowRecommend
  PROVE  AgentInv'
<1>1. RetryInv'
  BY NextKeepsInv DEF AgentInv, RecommendNext
<1>2. /\ tool_outcomes' = tool_outcomes /\ phase \in {"requesting", "sleeping"}
      /\ stage = "recommending" /\ planning \in Plans /\ run_status = None /\ failure = None
      /\ UNCHANGED <<planning, progress, cancel_requested>>
  BY RecommendKeepsOutcomes, FailuresAreClasses
  DEF AgentInv, StagesAgree, EndsAgree, FollowRecommend, Fail
<1>3. phase' = "raised" => error' \in ErrorClasses
  BY <1>1 DEF RetryInv, RecommendTypeOK
<1>4. CASE /\ phase' \in {"requesting", "sleeping"}
           /\ UNCHANGED <<stage, deadline, cancel_requested, run_status, failure>>
  <2>1. StagesAgree' /\ EndsAgree' /\ DeadlineAgrees'
    BY <1>2, <1>4 DEF AgentInv, StagesAgree, EndsAgree, DeadlineAgrees, Stages, IsActive
  <2>2. ToldSoFar'
    BY <1>2, <1>4 DEF AgentInv, ToldSoFar, ToldInFull
  <2>3. QED BY <1>1, <2>1, <2>2 DEF AgentInv
<1>5. CASE /\ phase' = "returned" /\ stage' = "returned"
           /\ run_status' = RunStatus(tool_outcomes) /\ deadline' = "exited"
           /\ UNCHANGED <<cancel_requested, failure>>
  <2>1. StagesAgree' /\ EndsAgree' /\ DeadlineAgrees'
    BY <1>2, <1>5
    DEF AgentInv, StagesAgree, EndsAgree, DeadlineAgrees, Stages, Deadlines, IsActive
  <2>2. ToldSoFar'
    BY <1>2, <1>5 DEF AgentInv, ToldSoFar, ToldInFull
  <2>3. QED BY <1>1, <2>1, <2>2 DEF AgentInv
<1>6. CASE phase' = "raised" /\ Fail(error')
  <2>1. /\ stage' = "raised" /\ failure' = error' /\ deadline' = "exited"
        /\ error' \in ErrorClasses /\ error' # None /\ run_status' = None
    BY <1>2, <1>3, <1>6, FailuresAreClasses DEF Fail
  <2>2. StagesAgree' /\ EndsAgree' /\ DeadlineAgrees'
    BY <1>2, <1>6, <2>1
    DEF AgentInv, StagesAgree, EndsAgree, DeadlineAgrees, Stages, Deadlines, IsActive
  <2>3. ToldSoFar'
    BY <1>2, <1>6, <2>1 DEF AgentInv, ToldSoFar, ToldInFull
  <2>4. QED BY <1>1, <2>2, <2>3 DEF AgentInv
<1>7. QED BY <1>4, <1>5, <1>6 DEF FollowRecommend

LEMMA UnwindKeepsInv ==
  ASSUME AgentInv, Unwind
  PROVE  AgentInv'
<1>1. RetryInv'
  BY NextKeepsInv DEF AgentInv, Unwind, RecommendNext
<1>2. /\ IsActive /\ run_status = None /\ failure = None
      /\ UNCHANGED <<planning, progress, cancel_requested, run_status, tool_outcomes>>
      /\ IF stage = "recommending" THEN phase # "idle" /\ phase' = "cancelled"
         ELSE stage = "planning" /\ phase = "idle" /\ phase' = "idle"
      /\ \/ cancel_requested /\ stage' = "cancelled" /\ failure' = None
         \/ ~cancel_requested /\ stage' = "raised" /\ failure' = "Timeout"
      /\ deadline' \in {"expired", "exited"}
  BY FailuresAreClasses DEF AgentInv, StagesAgree, EndsAgree, Unwind, IsActive, CancelRecommend,
                            recommendVars
<1>3. StagesAgree' /\ EndsAgree' /\ DeadlineAgrees'
  BY <1>2, FailuresAreClasses
  DEF AgentInv, StagesAgree, EndsAgree, DeadlineAgrees, Stages, Deadlines, IsActive
<1>4. ToldSoFar'
  BY <1>2 DEF AgentInv, StagesAgree, ToldSoFar, ToldInFull
<1>5. QED BY <1>1, <1>3, <1>4 DEF AgentInv

LEMMA InterruptionKeepsInv ==
  ASSUME AgentInv, FireDeadline \/ CancelRun
  PROVE  AgentInv'
<1>1. RetryInv'
  BY NextKeepsInv DEF AgentInv, FireDeadline, CancelRun
<1>2. /\ UNCHANGED <<stage, planning, progress, run_status, failure>> /\ UNCHANGED recommendVars
      /\ IsActive /\ cancel_requested' \in BOOLEAN /\ deadline' \in {"armed", "expiring"}
  BY DEF AgentInv, DeadlineAgrees, FireDeadline, CancelRun
<1>3. StagesAgree' /\ EndsAgree' /\ DeadlineAgrees'
  BY <1>2 DEF AgentInv, StagesAgree, EndsAgree, DeadlineAgrees, Deadlines, IsActive, recommendVars
<1>4. ToldSoFar'
  BY <1>2, TellingNothingKeepsTold DEF AgentInv, IsActive, recommendVars
<1>5. QED BY <1>1, <1>3, <1>4 DEF AgentInv

LEMMA PlannerAnswersKeepsInv ==
  ASSUME AgentInv, PlannerAnswers
  PROVE  AgentInv'
<1>1. CASE \E cause \in DOMAIN PlannerError : FailPlanning(PlannerError[cause])
  BY <1>1, FailuresAreClasses, FailPlanningKeepsInv
<1>2. ASSUME NEW reply \in Replies, IsUsable(reply),
             RefusePlan(ToolPlan(reply)) \/ ExecutePlan(ToolPlan(reply))
      PROVE  AgentInv'
  <2>1. /\ ToolPlan(reply) \in Plans
        /\ Len(ToolPlan(reply).calls) <= MaxToolCalls =>
             ExecuteToolCalls(ToolPlan(reply).calls) \in OutcomeLists
    BY <1>2, PlanShape
  <2>2. CASE RefusePlan(ToolPlan(reply))
    BY <2>1, <2>2, RefusePlanKeepsInv
  <2>3. CASE ExecutePlan(ToolPlan(reply))
    <3>1. Len(ToolPlan(reply).calls) <= MaxToolCalls
      BY <2>3 DEF ExecutePlan
    <3>2. QED BY <2>1, <2>3, <3>1, ExecutePlanKeepsInv
  <2>4. QED BY <1>2, <2>2, <2>3
<1>3. CASE FailPlanning("Unexpected")
  BY <1>3, FailuresAreClasses, FailPlanningKeepsInv
<1>4. QED BY <1>1, <1>2, <1>3 DEF PlannerAnswers

LEMMA AgentNextKeepsInv == AgentInv /\ [AgentNext]_agentVars => AgentInv'
<1> SUFFICES ASSUME AgentInv, [AgentNext]_agentVars PROVE AgentInv'
  OBVIOUS
<1>1. CASE AgentStep
  BY <1>1, StartRunKeepsInv, PlannerAnswersKeepsInv, FollowKeepsInv, UnwindKeepsInv
  DEF AgentStep, RecommendationAnswers, RecommendationWakesUp
<1>2. CASE FireDeadline \/ CancelRun
  BY <1>2, InterruptionKeepsInv
<1>3. CASE UNCHANGED agentVars
  <2>1. RetryInv'
    BY <1>3, NextKeepsInv DEF AgentInv, agentVars
  <2>2. StagesAgree' /\ EndsAgree' /\ DeadlineAgrees' /\ ToldSoFar'
    BY <1>3 DEF agentVars, recommendVars, AgentInv, StagesAgree, EndsAgree, DeadlineAgrees,
                IsActive, ToldSoFar, ToldInFull
  <2>3. QED BY <2>1, <2>2 DEF AgentInv
<1>4. QED BY <1>1, <1>2, <1>3 DEF AgentNext

(* The run keeps its invariant for ever.                                    *)
THEOREM AgentInvariant == AgentSpec => []AgentInv
BY AgentInitEstablishesInv, AgentNextKeepsInv, PTL DEF AgentSpec

-----------------------------------------------------------------------------
(* How many reports come up to the k-th progress value, the first of them   *)
(* being the third.                                                         *)
LEMMA CardinalityFromThree ==
  ASSUME NEW k \in Int, k >= 2
  PROVE  Cardinality(3..k) = k - 2
<1>1. Cardinality(3..k) = IF 3 > k THEN 0 ELSE k - 3 + 1
  BY FS_Interval
<1>2. QED BY <1>1

(* The reports among the progress values are the outcomes of the calls, in  *)
(* the order of the calls.                                                  *)
LEMMA ReportsAreOutcomes ==
  ASSUME AgentInv, phase # "idle"
  PROVE  /\ Len(planning.calls) \in Nat
         /\ Len(tool_outcomes) = Len(planning.calls)
         /\ ReportedOutcomes = [i \in 1..Len(planning.calls) |-> tool_outcomes[i]]
         /\ \A i \in 1..Len(planning.calls) : IsOutcomeOf(tool_outcomes[i], planning.calls[i])
<1> DEFINE n == Len(planning.calls)
<1>1. planning \in Plans /\ tool_outcomes = ExecuteToolCalls(planning.calls) /\ ToldInFull
  BY DEF AgentInv, StagesAgree, ToldSoFar
<1>2. /\ n \in Nat /\ Len(tool_outcomes) = n
      /\ \A i \in 1..n : IsOutcomeOf(tool_outcomes[i], planning.calls[i])
  BY <1>1, EveryPlanIsWellFormed, AnswersShape
<1>3. /\ DOMAIN progress = 1..(n + 3)
      /\ progress[1] = PlanningStarted /\ progress[2] = PlanningCompleted(planning)
      /\ progress[n + 3] = RecommendationStarted
      /\ \A i \in 1..n : progress[i + 2] = ToolCallCompleted(tool_outcomes[i])
  BY <1>1, <1>2 DEF ToldInFull
<1>4. ToolReports = 3..(n + 2)
  <2>1. /\ PlanningStarted.stage # "tool_call_completed"
        /\ PlanningCompleted(planning).stage # "tool_call_completed"
        /\ RecommendationStarted.stage # "tool_call_completed"
        /\ \A o : ToolCallCompleted(o).stage = "tool_call_completed"
    BY DEF PlanningStarted, PlanningCompleted, ToolCallCompleted, RecommendationStarted
  <2>2. ASSUME NEW k \in 3..(n + 2) PROVE progress[k].stage = "tool_call_completed"
    <3>1. k - 2 \in 1..n /\ (k - 2) + 2 = k
      BY <1>2, <2>2
    <3>2. progress[(k - 2) + 2] = ToolCallCompleted(tool_outcomes[k - 2])
      BY <1>3, <3>1
    <3>3. QED BY <2>1, <3>1, <3>2
  <2>3. ASSUME NEW k \in DOMAIN progress, k \notin 3..(n + 2)
        PROVE  progress[k].stage # "tool_call_completed"
    <3>1. k \in {1, 2, n + 3}
      BY <1>2, <1>3, <2>3
    <3>2. QED BY <1>3, <2>1, <3>1
  <2>4. 3..(n + 2) \subseteq DOMAIN progress
    BY <1>2, <1>3
  <2>5. QED BY <2>2, <2>3, <2>4 DEF ToolReports
<1>5. Cardinality(ToolReports) = n
  <2>1. n + 2 \in Int /\ n + 2 >= 2
    BY <1>2
  <2>2. Cardinality(3..(n + 2)) = (n + 2) - 2
    BY ONLY <2>1, CardinalityFromThree, Zenon
  <2>3. QED BY <1>2, <1>4, <2>2
<1>6. ASSUME NEW k \in ToolReports
      PROVE  Cardinality({m \in ToolReports : m <= k}) = k - 2
  <2>1. k \in Int /\ k >= 3 /\ {m \in ToolReports : m <= k} = 3..k
    BY <1>2, <1>4, <1>6
  <2>2. k >= 2
    BY <2>1
  <2>3. Cardinality(3..k) = k - 2
    BY ONLY <2>1, <2>2, CardinalityFromThree, Zenon
  <2>4. QED BY <2>1, <2>3
<1>7. ASSUME NEW i \in 1..n PROVE ReportOf(i) = i + 2
  <2>1. i + 2 \in ToolReports /\ \A k \in ToolReports : k - 2 = i <=> k = i + 2
    BY <1>2, <1>4, <1>7
  <2>2. \A k \in ToolReports : Cardinality({m \in ToolReports : m <= k}) = i <=> k = i + 2
    BY <1>6, <2>1
  <2>3. QED BY <2>1, <2>2 DEF ReportOf
<1>8. ASSUME NEW i \in 1..n PROVE progress[ReportOf(i)].tool_outcome = tool_outcomes[i]
  <2>1. progress[ReportOf(i)] = progress[i + 2]
    BY <1>7, <1>8
  <2>2. progress[i + 2] = ToolCallCompleted(tool_outcomes[i])
    BY <1>3, <1>8
  <2>3. QED BY <2>1, <2>2 DEF ToolCallCompleted
<1>9. ReportedOutcomes = [i \in 1..n |-> tool_outcomes[i]]
  BY <1>5, <1>8 DEF ReportedOutcomes
<1>10. QED BY <1>2, <1>9

(* A run that executed no plan has reported no outcome.                     *)
LEMMA NothingReported ==
  ASSUME AgentInv, phase = "idle"
  PROVE  ReportedOutcomes = <<>>
<1>1. \A k \in DOMAIN progress : progress[k].stage # "tool_call_completed"
  <2>1. \/ progress = <<>> \/ progress = <<PlanningStarted>>
        \/ progress = <<PlanningStarted, PlanningCompleted(planning)>>
    BY DEF AgentInv, ToldSoFar
  <2>2. QED BY <2>1 DEF PlanningStarted, PlanningCompleted
<1>2. ToolReports = {}
  BY <1>1 DEF ToolReports
<1>3. Cardinality(ToolReports) = 0
  BY <1>2, FS_EmptySet
<1>4. QED BY <1>3 DEF ReportedOutcomes

LEMMA AgentInvIsTyped == AgentInv => AgentTypeOK
BY FailuresAreClasses
DEF AgentInv, RetryInv, StagesAgree, EndsAgree, DeadlineAgrees, AgentTypeOK

(* The shape of the run's state.                                            *)
THEOREM AgentTypeCorrect == AgentSpec => []AgentTypeOK
BY AgentInvIsTyped, AgentInvariant, PTL

(* The i-th report is the i-th outcome, which is what the citations of the  *)
(* result were checked against.                                             *)
LEMMA ResultsWereReported == AgentInv => ResultAgreesWithProgress
<1> SUFFICES ASSUME AgentInv, stage = "returned"
             PROVE  /\ Len(ReportedOutcomes) = Len(planning.calls)
                    /\ run_status = "partial"
                         <=> \E i \in DOMAIN ReportedOutcomes :
                               ReportedOutcomes[i].error_code # None
                    /\ \A e \in result.recommendation.evidence : e.source = "tool_result" =>
                         \E i \in DOMAIN ReportedOutcomes :
                           /\ ReportedOutcomes[i].call_id = e.source_id
                           /\ ReportedOutcomes[i].status = "completed"
  BY DEF ResultAgreesWithProgress
<1> DEFINE n == Len(planning.calls)
<1>1. phase = "returned" /\ run_status = RunStatus(tool_outcomes)
  BY DEF AgentInv, StagesAgree, EndsAgree
<1>2. /\ n \in Nat /\ DOMAIN ReportedOutcomes = 1..n /\ DOMAIN tool_outcomes = 1..n
      /\ Len(ReportedOutcomes) = n
      /\ \A i \in 1..n : /\ ReportedOutcomes[i] = tool_outcomes[i]
                         /\ tool_outcomes[i].status = "rejected"
                              <=> tool_outcomes[i].error_code # None
  <2>1. /\ n \in Nat /\ ReportedOutcomes = [i \in 1..n |-> tool_outcomes[i]]
        /\ \A i \in 1..n : IsOutcomeOf(tool_outcomes[i], planning.calls[i])
    BY <1>1, ReportsAreOutcomes
  <2>2. DOMAIN tool_outcomes = 1..n
    BY <1>1, <2>1 DEF AgentInv, ToldSoFar, ExecuteToolCalls
  <2>3. QED BY <2>1, <2>2 DEF IsOutcomeOf
<1>3. run_status = "partial" <=> \E i \in 1..n : tool_outcomes[i].error_code # None
  BY <1>1, <1>2 DEF RunStatus, Range
<1>4. ASSUME NEW e \in result.recommendation.evidence, e.source = "tool_result"
      PROVE  \E i \in 1..n : /\ tool_outcomes[i].call_id = e.source_id
                             /\ tool_outcomes[i].status = "completed"
  <2>1. e.source_id \in AllowedToolSourceIds(tool_outcomes)
    BY <1>1, <1>4 DEF AgentInv, RetryInv, ResultAgrees, IsGrounded
  <2>2. QED BY <1>2, <2>1 DEF AllowedToolSourceIds, Range
<1>5. QED BY <1>2, <1>3, <1>4

LEMMA MarkedCallsWereRejected == AgentInv => MalformedCallsGatherNothing
<1> SUFFICES ASSUME AgentInv, planning # None, ReportedOutcomes # <<>>,
                    NEW i \in planning.malformed
             PROVE  ReportedOutcomes[i].status = "rejected"
  BY DEF MalformedCallsGatherNothing
<1>1. phase # "idle"
  BY NothingReported
<1>2. /\ planning \in Plans /\ tool_outcomes = ExecuteToolCalls(planning.calls)
      /\ Len(planning.calls) \in Nat
      /\ i \in 1..Len(planning.calls)
      /\ planning.calls[i].arguments = [malformed_arguments |-> TRUE]
  BY <1>1, EveryPlanIsWellFormed DEF AgentInv, StagesAgree, ToldSoFar
<1>3. tool_outcomes[i].status = "rejected"
  BY <1>2, MarkedArgumentsAreRejected
<1>4. QED BY <1>1, <1>2, <1>3, ReportsAreOutcomes

(* What the invariant promises of a run, in whatever it is embedded.        *)
LEMMA RunsKeepTheirPromises ==
  AgentInv => /\ ResultAgreesWithProgress /\ MalformedCallsGatherNothing /\ ExpiredRunTimesOut
              /\ RequestBudget /\ ReturnedIsBacked
              /\ ReportedRetriesHappened /\ NoPrematureFailure
<1>1. AgentInv => ExpiredRunTimesOut
  BY DEF AgentInv, EndsAgree, DeadlineAgrees, IsActive, ExpiredRunTimesOut
<1>2. QED BY <1>1, ResultsWereReported, MarkedCallsWereRejected, LoopsKeepTheirPromises DEF AgentInv

(* What a result cites, and whether it is partial, is what was reported.    *)
THEOREM ResultsAgreeWithProgress == AgentSpec => []ResultAgreesWithProgress
BY RunsKeepTheirPromises, AgentInvariant, PTL

(* Arguments that were no JSON object gather nothing, whatever the tool.    *)
THEOREM MalformedCallsAreRejected == AgentSpec => []MalformedCallsGatherNothing
BY RunsKeepTheirPromises, AgentInvariant, PTL

(* The deadline's word is final.                                            *)
THEOREM ExpiredRunsTimeOut == AgentSpec => []ExpiredRunTimesOut
BY RunsKeepTheirPromises, AgentInvariant, PTL

(* Deadlines and cancellations disturb no promise of the two loops: a run   *)
(* stays in the budget, its result is backed and counts no retry that did   *)
(* not happen, and no failure of the provider surfaces prematurely.         *)
THEOREM RunsKeepTheLoopsPromises ==
  AgentSpec => [](/\ RequestBudget /\ ReturnedIsBacked
                  /\ ReportedRetriesHappened /\ NoPrematureFailure)
BY RunsKeepTheirPromises, AgentInvariant, PTL

(* An interruption stops the requests at once, not only when it is seen.    *)
THEOREM InterruptedRunsAreSilent == AgentSpec => NoRequestOnceInterrupted
<1>1. [AgentNext]_agentVars => [Interrupted => requests' = requests]_agentVars
  <2> SUFFICES ASSUME AgentNext, Interrupted PROVE requests' = requests
    BY DEF agentVars
  <2>1. ~PlannerAnswersWith(planning') /\ ~RecommendationAnswers /\ ~RecommendationWakesUp
    BY DEF PlannerAnswersWith, RecommendationAnswers, RecommendationWakesUp
  <2>2. ~PlannerAnswers
    BY DEF PlannerAnswers, PlannerAnswersWith, RefusePlan, ExecutePlan, FailPlanning
  <2>3. CASE StartRun \/ FireDeadline \/ CancelRun
    BY <2>3 DEF StartRun, FireDeadline, CancelRun, recommendVars
  <2>4. CASE Unwind
    BY <2>4 DEF Unwind, CancelRecommend, recommendVars
  <2>5. QED BY <2>1, <2>2, <2>3, <2>4 DEF AgentNext, AgentStep
<1>2. QED BY <1>1, PTL DEF AgentSpec, NoRequestOnceInterrupted

-----------------------------------------------------------------------------
(* A run never does with recommend what recommend alone would not do.       *)
LEMMA StepsOfTheLoops == AgentInv /\ [AgentNext]_agentVars => [RecommendNext]_recommendVars
<1> SUFFICES ASSUME AgentInv, AgentNext PROVE RecommendNext \/ UNCHANGED recommendVars
  BY DEF agentVars
<1>1. CASE PlannerAnswers
  <2>1. CASE \E cause \in DOMAIN PlannerError : FailPlanning(PlannerError[cause])
    BY <2>1 DEF FailPlanning
  <2>2. ASSUME NEW reply \in Replies, IsUsable(reply), ExecutePlan(ToolPlan(reply))
        PROVE  RecommendNext
    BY <2>2, PlanShape DEF ExecutePlan, RecommendNext
  <2>3. QED BY <1>1, <2>1, <2>2 DEF PlannerAnswers, RefusePlan, FailPlanning
<1>2. CASE StartRun \/ FireDeadline \/ CancelRun
  BY <1>2 DEF StartRun, FireDeadline, CancelRun
<1>3. CASE RecommendationAnswers \/ RecommendationWakesUp \/ Unwind
  BY <1>3 DEF RecommendationAnswers, RecommendationWakesUp, Unwind, RecommendNext
<1>4. QED BY <1>1, <1>2, <1>3 DEF AgentNext, AgentStep

(* The run implements the specification of recommend, up to its fairness:   *)
(* inside a run it is the deadline that ends a request nobody answers.      *)
THEOREM RunsFollowTheLoops ==
  AgentSpec => RecommendInit /\ [][RecommendNext]_recommendVars
<1>1. AgentInit => RecommendInit
  BY DEF AgentInit
<1>2. QED BY <1>1, StepsOfTheLoops, AgentInvariant, PTL DEF AgentSpec

-----------------------------------------------------------------------------
(* At most this many steps are left to a run: to start, to have a plan, to  *)
(* see the deadline fire and to be cancelled, and those of recommend.       *)
RunStepsLeft ==
  IF IsOver THEN 0
  ELSE 1 + (CASE stage = "not_started" -> 2 [] stage = "planning" -> 1 [] OTHER -> 0)
         + (IF deadline \in {"unset", "armed"} THEN 1 ELSE 0)
         + (IF cancel_requested THEN 0 ELSE 1)
         + StepsLeft

(* Their number is one.                                                     *)
LEMMA RunStepsAreCounted == AgentInv => RunStepsLeft \in Nat
<1> SUFFICES ASSUME AgentInv PROVE RunStepsLeft \in Nat
  OBVIOUS
<1>1. StepsLeft \in Nat
  BY StepsAreCounted DEF AgentInv
<1>2. QED BY <1>1 DEF RunStepsLeft

LEMMA RunStepsAreUsedUp ==
  ASSUME AgentInv, AgentInv', AgentNext
  PROVE  RunStepsLeft' < RunStepsLeft
<1>1. StepsLeft \in Nat /\ StepsLeft' \in Nat
  <2>1. (RetryInv => StepsLeft \in Nat) /\ (RetryInv => StepsLeft \in Nat)'
    BY StepsAreCounted, PTL
  <2>2. QED BY <2>1 DEF AgentInv
<1>2. ~IsOver
  BY DEF AgentNext, AgentStep, StartRun, PlannerAnswers, RefusePlan, ExecutePlan, FailPlanning,
         PlannerAnswersWith, RecommendationAnswers, RecommendationWakesUp, FollowRecommend, Unwind,
         FireDeadline, CancelRun, IsActive, IsOver
<1>3. CASE IsOver'
  BY <1>1, <1>2, <1>3 DEF RunStepsLeft
<1>4. UNCHANGED recommendVars => StepsLeft' = StepsLeft
  BY DEF recommendVars, StepsLeft, RequestsLeft
<1>5. CASE StartRun
  <2>1. deadline = "unset"
    BY <1>5 DEF StartRun, AgentInv, DeadlineAgrees
  <2>2. QED BY <1>1, <1>2, <1>4, <1>5, <2>1 DEF StartRun, RunStepsLeft, IsOver
<1>6. CASE \E plan \in Plans : ExecutePlan(plan) /\ RecommendNext
  <2>1. StepsLeft' < StepsLeft
    BY <1>6, StepsAreUsedUp DEF AgentInv
  <2>2. /\ stage = "planning" /\ stage' = "recommending"
        /\ UNCHANGED <<deadline, cancel_requested>>
    BY <1>6 DEF ExecutePlan, PlannerAnswersWith
  <2>3. QED BY <1>1, <1>2, <2>1, <2>2 DEF RunStepsLeft, IsOver
<1>7. CASE (ProviderAnswers \/ WakeUp) /\ FollowRecommend /\ ~IsOver'
  <2>1. StepsLeft' < StepsLeft
    BY <1>7, StepsAreUsedUp DEF AgentInv, RecommendNext
  <2>2. UNCHANGED <<stage, deadline, cancel_requested>>
    BY <1>7 DEF FollowRecommend, Fail, IsOver
  <2>3. QED BY <1>1, <1>2, <2>1, <2>2 DEF RunStepsLeft, IsOver
<1>8. CASE FireDeadline \/ CancelRun
  BY <1>1, <1>2, <1>4, <1>8 DEF FireDeadline, CancelRun, RunStepsLeft, IsOver, IsActive
<1>9. CASE PlannerAnswers
  <2>1. \/ IsOver'
        \/ \E reply \in Replies : IsUsable(reply) /\ ExecutePlan(ToolPlan(reply))
    BY <1>9 DEF PlannerAnswers, RefusePlan, FailPlanning, Fail, IsOver
  <2>2. ASSUME NEW reply \in Replies, IsUsable(reply), ExecutePlan(ToolPlan(reply))
        PROVE  \E plan \in Plans : ExecutePlan(plan) /\ RecommendNext
    <3>1. ToolPlan(reply) \in Plans
      BY <2>2, PlanShape
    <3>2. RecommendNext
      BY <2>2, PlanShape DEF ExecutePlan, RecommendNext
    <3>3. QED BY <2>2, <3>1, <3>2
  <2>3. QED BY <1>3, <1>6, <2>1, <2>2
<1>10. CASE Unwind
  BY <1>3, <1>10 DEF Unwind, IsOver
<1>11. QED BY <1>3, <1>5, <1>7, <1>8, <1>9, <1>10
       DEF AgentNext, AgentStep, RecommendationAnswers, RecommendationWakesUp

(* A run cannot go on for ever, however many of its requests are answered   *)
(* late, badly or never: a natural number falls with every step, so that a  *)
(* run ends as soon as it cannot stand still.                               *)
THEOREM RunsMakeProgress ==
  AgentSpec => [](RunStepsLeft \in Nat) /\ [][RunStepsLeft' < RunStepsLeft]_agentVars
<1>1. AgentInv /\ AgentInv' /\ [AgentNext]_agentVars => [RunStepsLeft' < RunStepsLeft]_agentVars
  BY RunStepsAreUsedUp
<1>2. QED BY <1>1, RunStepsAreCounted, AgentInvariant, PTL DEF AgentSpec
===============================================================================
