---------------------- MODULE InvestigationStreamProofs ----------------------
(***************************************************************************)
(* The stream for every set of planning replies and recommendations, every  *)
(* limit, and every way the response can be cut short.  What the worker has *)
(* published is a function of how far its run has come, and it only grows;  *)
(* the queue, the event the generator holds and what the client received    *)
(* are consecutive pieces of it.                                            *)
(***************************************************************************)
EXTENDS InvestigationStream, InvestigationAgentProofs

Leaving == generator \in {"joining", "closed"}

(* The worker runs while its run is active; a cancelled one was cancelled   *)
(* by the generator, and only then may it not have run at all.              *)
WorkerAgrees ==
  /\ worker \in Workers
  /\ worker \in {"absent", "scheduled"} => stage = "not_started"
  /\ worker = "running" <=> IsActive
  /\ worker = "crashed" => stage = "returned" /\ ~BuildsResponse
  /\ worker = "finished" /\ stage = "returned" => BuildsResponse
  /\ worker = "finished" /\ stage = "not_started" => cancel_requested
  /\ stage = "cancelled" => cancel_requested

(* The generator cancels on leaving whatever is not done, waits for it, and *)
(* only then is the response over, unless it was abandoned.                 *)
GeneratorAgrees ==
  /\ generator \in Generators /\ cut \in Cuts /\ connected \in BOOLEAN
  /\ clients \in {"open", "planner_closed", "closed"}
  /\ generator = "new" => worker = "absent"
  /\ worker = "absent" => generator \in {"new", "closed"}
  /\ cancel_requested => Leaving
  /\ Leaving => cancel_requested \/ WorkerIsDone
  /\ generator = "closed" => WorkerIsDone
  /\ clients # "open" => ResponseIsOver
  /\ cut = "no" => generator # "abandoned"
  /\ cut # "no" => Leaving \/ generator = "abandoned"

(* The n-th event of the investigation as it has come so far, and how many  *)
(* there are: one for the start, one for each progress value, and one for   *)
(* the end if it has one.                                                   *)
Body(n) ==
  IF n = 1 THEN [kind |-> "started"]
  ELSE IF n <= Len(progress) + 1 THEN ProgressEvent(progress[n - 1])
  ELSE TerminalEvents[1]

Event(n) == [id |-> n, data |-> Body(n)]

Published ==
  IF stage = "not_started" THEN 0 ELSE 1 + Len(progress) + Len(TerminalEvents)

(* The events not taken from the queue yet, which the end marker follows.   *)
Waiting == Len(queue) - (IF IsOver THEN 1 ELSE 0)

Taken == sequence - Waiting

(* The queue holds the events from where the generator stands to the last.  *)
QueueAgrees ==
  /\ sequence = Published
  /\ queue \in Seq(Events \cup {STREAM_END})
  /\ ~Leaving =>
       /\ Waiting \in 0..sequence
       /\ \A n \in (Taken + 1)..sequence : queue[n - Taken] = Event(n)
       /\ IsOver => queue[Waiting + 1] = STREAM_END

(* The client has received the first events, all that were taken but the    *)
(* one on its way if it stayed.                                             *)
ClientAgrees ==
  /\ delivered \in Seq(Events)
  /\ Len(delivered) <= sequence
  /\ \A n \in 1..Len(delivered) : delivered[n] = Event(n)
  /\ IF generator \in {"yielding", "abandoned"}
     THEN \E n \in 1..sequence : n = Taken /\ holding = Event(n) /\ Len(delivered) < n
     ELSE holding = None
  /\ ~Leaving => Len(delivered) <= Taken
  /\ ~Leaving /\ connected =>
       Taken = IF holding = None THEN Len(delivered) ELSE Len(delivered) + 1
  /\ Leaving /\ connected /\ cut = "no" =>
       Len(delivered) = sequence /\ IsOver /\ ~cancel_requested

StreamInv == AgentInv /\ WorkerAgrees /\ GeneratorAgrees /\ QueueAgrees /\ ClientAgrees

-----------------------------------------------------------------------------
(* A task may be cancelled before its run has started, too.                 *)
LEMMA FinallyKeepsAgentInv ==
  ASSUME AgentInv, WorkerAgrees, EnterFinally
  PROVE  /\ AgentInv'
         /\ UNCHANGED <<progress, stage, failure, run_status, planning, result>>
<1>1. /\ UNCHANGED <<stage, planning, progress, deadline, run_status, failure>>
      /\ UNCHANGED recommendVars
      /\ cancel_requested' \in BOOLEAN
      /\ deadline = "expired" => cancel_requested' = cancel_requested
  BY DEF AgentInv, DeadlineAgrees, WorkerAgrees, EnterFinally, IsActive, WorkerIsDone, Workers
<1>2. RetryInv'
  BY <1>1, NextKeepsInv DEF AgentInv
<1>3. StagesAgree' /\ EndsAgree' /\ DeadlineAgrees' /\ ToldSoFar'
  BY <1>1 DEF AgentInv, recommendVars, StagesAgree, EndsAgree, DeadlineAgrees, IsActive,
              ToldSoFar, ToldInFull
<1>4. QED BY <1>1, <1>2, <1>3 DEF AgentInv, recommendVars

(* The steps of the worker and of its timer are steps of the run.           *)
LEMMA WorkerStepsOfTheRun ==
  WorkerNext \/ DeadlineFires => [AgentNext]_agentVars
BY DEF WorkerNext, WorkerStarts, WorkerNeverRuns, WorkerSteps, DeadlineFires, AgentNext, AgentStep

LEMMA StreamInitEstablishesInv == StreamInit => StreamInv
<1> SUFFICES ASSUME StreamInit PROVE StreamInv
  OBVIOUS
<1>1. AgentInv
  BY AgentInitEstablishesInv DEF StreamInit
<1>2. WorkerAgrees /\ GeneratorAgrees
  BY DEF StreamInit, AgentInit, WorkerAgrees, GeneratorAgrees, Workers, Generators, Cuts, IsActive,
         Leaving, WorkerIsDone
<1>3. QueueAgrees /\ ClientAgrees
  <2>1. /\ stage = "not_started" /\ queue = <<>> /\ sequence = 0 /\ delivered = <<>>
        /\ generator = "new" /\ holding = None /\ Len(queue) = 0
    BY DEF StreamInit, AgentInit
  <2>2. ~IsOver /\ ~Leaving /\ Published = 0 /\ Waiting = 0 /\ Taken = 0
    <3>1. ~IsOver /\ ~Leaving /\ Published = 0
      BY <2>1 DEF IsOver, Leaving, Published
    <3>2. Waiting = 0
      BY <2>1, <3>1 DEF Waiting
    <3>3. QED BY <2>1, <3>1, <3>2 DEF Taken
  <2>3. QED BY <2>1, <2>2 DEF QueueAgrees, ClientAgrees
<1>4. QED BY <1>1, <1>2, <1>3 DEF StreamInv

(* How worker and generator stand together, step by step.                   *)
LEMMA WorkerKeepsAgreement ==
  ASSUME StreamInv, WorkerNext \/ DeadlineFires
  PROVE  AgentInv' /\ WorkerAgrees' /\ GeneratorAgrees'
<1>1. AgentInv'
  BY WorkerStepsOfTheRun, AgentNextKeepsInv DEF StreamInv
<1>2. UNCHANGED <<generator, connected, cut, clients, cancel_requested>>
  BY DEF WorkerNext, WorkerStarts, WorkerNeverRuns, WorkerSteps, DeadlineFires, consumerVars,
         StartRun, PlannerAnswers, RefusePlan, ExecutePlan, FailPlanning, Fail,
         RecommendationAnswers, RecommendationWakesUp, FollowRecommend, Unwind, FireDeadline,
         agentVars
<1>3. /\ WorkerAgrees'
      /\ \/ UNCHANGED worker
         \/ worker \in {"scheduled", "running"} /\ worker' # "absent"
  <2>1. CASE WorkerStarts
    BY <1>2, <2>1 DEF StreamInv, WorkerStarts, StartRun, WorkerAgrees, Workers, IsActive
  <2>2. CASE WorkerNeverRuns
    BY <1>2, <2>2 DEF StreamInv, WorkerNeverRuns, WorkerAgrees, Workers, agentVars, IsActive
  <2>3. CASE WorkerSteps
    <3>1. /\ stage' \in Stages /\ stage' # "not_started"
          /\ stage' = "cancelled" => cancel_requested
      BY <1>1, <2>3
      DEF AgentInv, StagesAgree, WorkerSteps, PlannerAnswers, RefusePlan, ExecutePlan,
          PlannerAnswersWith, FailPlanning, Fail, RecommendationAnswers, RecommendationWakesUp,
          FollowRecommend, Unwind
    <3>2. /\ worker = "running"
          /\ worker' = IF ~IsOver' THEN "running"
                       ELSE IF stage' = "returned" /\ ~BuildsResponse' THEN "crashed"
                       ELSE "finished"
      BY <2>3 DEF WorkerSteps
    <3>3. WorkerAgrees'
      BY <1>2, <3>1, <3>2 DEF WorkerAgrees, Workers, Stages, IsActive, IsOver
    <3>4. QED BY <3>2, <3>3 DEF IsOver
  <2>4. CASE DeadlineFires
    BY <1>2, <2>4 DEF StreamInv, DeadlineFires, FireDeadline, WorkerAgrees, IsActive, BuildsResponse
  <2>5. QED BY <2>1, <2>2, <2>3, <2>4 DEF WorkerNext
<1>4. GeneratorAgrees'
  BY <1>2, <1>3 DEF StreamInv, WorkerAgrees, GeneratorAgrees, Workers, Leaving, WorkerIsDone, ResponseIsOver
<1>5. QED BY <1>1, <1>3, <1>4

(* The steps by which the generator enters its finally.                     *)
EntersFinally ==
  LeaveDisconnected \/ TakeStreamEnd \/ SendTimesOut \/ CancelResponse \/ FinalizeGenerator

LEMMA FinallyKeepsAgreement ==
  ASSUME StreamInv, EntersFinally
  PROVE  AgentInv' /\ WorkerAgrees' /\ GeneratorAgrees'
<1>1. EnterFinally /\ generator \in {"checking", "getting", "yielding", "abandoned"}
      /\ \/ UNCHANGED cut
         \/ cut' \in {"send_timeout", "cancelled"} /\ generator # "abandoned"
  BY DEF EntersFinally, LeaveDisconnected, TakeStreamEnd, SendTimesOut, CancelResponse,
         FinalizeGenerator
<1>2. AgentInv' /\ UNCHANGED <<stage, planning>>
  BY <1>1, FinallyKeepsAgentInv DEF StreamInv
<1>3. UNCHANGED <<worker, connected, clients>> /\ generator' = "joining"
      /\ cancel_requested' = (cancel_requested \/ ~WorkerIsDone)
  BY <1>1 DEF EnterFinally
<1>4. WorkerAgrees'
  BY <1>2, <1>3 DEF StreamInv, AgentInv, DeadlineAgrees, WorkerAgrees, IsActive, BuildsResponse
<1>5. GeneratorAgrees'
  BY <1>1, <1>3 DEF StreamInv, GeneratorAgrees, Generators, Cuts, Leaving, WorkerIsDone,
                    ResponseIsOver
<1>6. QED BY <1>2, <1>4, <1>5

(* The steps that leave the run and what it published alone.                *)
Consumes ==
  \/ StartGenerator \/ CheckConnection \/ TakeEvent \/ JoinWorker \/ SendEvent
  \/ AbandonGenerator \/ DropUnstarted \/ Disconnect \/ CloseClients

LEMMA ConsumerKeepsAgreement ==
  ASSUME StreamInv, Consumes
  PROVE  AgentInv' /\ WorkerAgrees' /\ GeneratorAgrees'
<1>1. UNCHANGED agentVars
  BY DEF Consumes, StartGenerator, CheckConnection, TakeEvent, JoinWorker, SendEvent,
         AbandonGenerator, DropUnstarted, Disconnect, CloseClients
<1>2. AgentInv'
  BY <1>1, AgentNextKeepsInv DEF StreamInv
<1>3. WorkerAgrees'
  <2>1. \/ UNCHANGED worker
        \/ worker = "absent" /\ worker' = "scheduled"
    <3>1. CASE StartGenerator
      BY <3>1 DEF StreamInv, GeneratorAgrees, StartGenerator
    <3>2. CASE ~StartGenerator
      <4>1. CASE CheckConnection \/ TakeEvent \/ JoinWorker \/ SendEvent
        BY <4>1 DEF CheckConnection, TakeEvent, JoinWorker, SendEvent
      <4>2. CASE AbandonGenerator \/ DropUnstarted \/ Disconnect \/ CloseClients
        BY <4>2 DEF AbandonGenerator, DropUnstarted, Disconnect, CloseClients
      <4>3. QED BY <3>2, <4>1, <4>2 DEF Consumes
    <3>3. QED BY <3>1, <3>2
  <2>2. QED BY <1>1, <2>1 DEF StreamInv, WorkerAgrees, agentVars, Workers, IsActive, BuildsResponse
<1>4. GeneratorAgrees'
  <2>1. UNCHANGED cancel_requested
    BY <1>1 DEF agentVars
  <2>2. CASE StartGenerator \/ CheckConnection \/ TakeEvent
    BY <2>1, <2>2 DEF StreamInv, GeneratorAgrees, StartGenerator, CheckConnection, TakeEvent,
                      Generators, Leaving, WorkerIsDone, ResponseIsOver
  <2>3. CASE JoinWorker \/ SendEvent \/ AbandonGenerator \/ DropUnstarted
    BY <2>1, <2>3 DEF StreamInv, GeneratorAgrees, JoinWorker, SendEvent, AbandonGenerator,
                      DropUnstarted, Generators, Cuts, Leaving, WorkerIsDone, ResponseIsOver
  <2>4. CASE Disconnect \/ CloseClients
    BY <2>1, <2>4 DEF StreamInv, GeneratorAgrees, Disconnect, CloseClients, Leaving, WorkerIsDone,
                      ResponseIsOver
  <2>5. QED BY <2>2, <2>3, <2>4 DEF Consumes
<1>5. QED BY <1>2, <1>3, <1>4

(* Every step is one of these.                                              *)
LEMMA StreamSteps == StreamNext => WorkerNext \/ DeadlineFires \/ EntersFinally \/ Consumes
BY DEF StreamNext, GeneratorNext, ResponseNext, EntersFinally, Consumes

-----------------------------------------------------------------------------
(* What the run can report, as a sequence.                                  *)
LEMMA ProgressIsASequence ==
  AgentInv => progress \in Seq(ProgressValues) /\ Len(progress) \in Nat
<1> SUFFICES ASSUME AgentInv PROVE progress \in Seq(ProgressValues) /\ Len(progress) \in Nat
  OBVIOUS
<1>1. PlanningStarted \in ProgressValues
  BY DEF ProgressValues
<1>2. CASE planning = None
  <2>1. progress = <<>> \/ progress = <<PlanningStarted>>
    BY <1>2 DEF AgentInv, ToldSoFar
  <2>2. <<>> \in Seq(ProgressValues) /\ <<PlanningStarted>> \in Seq(ProgressValues)
    BY <1>1
  <2>3. progress \in Seq(ProgressValues)
    BY <2>1, <2>2, Zenon
  <2>4. QED BY <2>3, LenProperties
<1>3. CASE planning # None /\ phase = "idle"
  <2>1. PlanningCompleted(planning) \in ProgressValues
    BY <1>3 DEF AgentInv, StagesAgree, ProgressValues
  <2>2. progress = <<PlanningStarted, PlanningCompleted(planning)>>
    BY <1>3 DEF AgentInv, ToldSoFar
  <2>3. QED BY <1>1, <2>1, <2>2
<1>4. CASE phase # "idle"
  BY <1>4, LenProperties DEF AgentInv, ToldSoFar, ToldInFull
<1>5. QED BY <1>2, <1>3, <1>4

(* The first report is that planning started.                               *)
LEMMA FirstReport ==
  AgentInv /\ stage # "not_started" => Len(progress) >= 1 /\ progress[1] = PlanningStarted
<1> SUFFICES ASSUME AgentInv, stage # "not_started"
             PROVE  Len(progress) >= 1 /\ progress[1] = PlanningStarted
  OBVIOUS
<1>1. CASE phase = "idle"
  <2>1. \/ progress = <<PlanningStarted>>
        \/ progress = <<PlanningStarted, PlanningCompleted(planning)>>
    BY <1>1 DEF AgentInv, ToldSoFar
  <2>2. QED BY <2>1
<1>2. CASE phase # "idle"
  <2>1. /\ progress \in Seq(ProgressValues) /\ DOMAIN progress = 1..(Len(tool_outcomes) + 3)
        /\ progress[1] = PlanningStarted
    BY <1>2 DEF AgentInv, ToldSoFar, ToldInFull
  <2>2. Len(tool_outcomes) \in Nat
    BY <1>2, ReportsAreOutcomes
  <2>3. QED BY <2>1, <2>2, LenProperties
<1>3. QED BY <1>1, <1>2

(* The reports only grow, and a run that is over changes nothing.           *)
LEMMA ProgressGrows ==
  ASSUME AgentInv, AgentInv', [AgentNext]_agentVars
  PROVE  /\ Len(progress) <= Len(progress')
         /\ \A i \in 1..Len(progress) : progress'[i] = progress[i]
         /\ IsOver => UNCHANGED <<stage, progress, planning, run_status, failure, result>>
<1>1. Len(progress) \in Nat
  BY ProgressIsASequence
<1>2. (Len(progress) \in Nat)'
  BY ProgressIsASequence, PTL
<1>3. CASE StartRun
  <2>1. progress = <<>> /\ Len(<<>>) = 0 /\ ~IsOver
    BY <1>3 DEF StartRun, AgentInv, StagesAgree, ToldSoFar, IsOver
  <2>2. QED BY <1>2, <2>1
<1>4. CASE PlannerAnswers
  <2>1. progress = <<PlanningStarted>> /\ stage' # "not_started" /\ ~IsOver
    BY <1>4
    DEF AgentInv, StagesAgree, ToldSoFar, PlannerAnswers, RefusePlan, ExecutePlan,
        PlannerAnswersWith, FailPlanning, Fail, IsOver
  <2>2. (stage # "not_started" => Len(progress) >= 1 /\ progress[1] = PlanningStarted)'
    BY FirstReport, PTL
  <2>3. Len(progress) = 1 /\ progress[1] = PlanningStarted
    BY <2>1
  <2>4. QED BY <2>1, <2>2, <2>3
<1>5. CASE UNCHANGED agentVars
  BY <1>1, <1>5 DEF agentVars, recommendVars
<1>6. CASE RecommendationAnswers \/ RecommendationWakesUp \/ Unwind \/ FireDeadline \/ CancelRun
  <2>1. UNCHANGED progress /\ ~IsOver
    BY <1>6 DEF RecommendationAnswers, RecommendationWakesUp, FollowRecommend, Unwind,
                FireDeadline, CancelRun, IsActive, IsOver
  <2>2. QED BY <1>1, <2>1
<1>7. QED BY <1>3, <1>4, <1>5, <1>6 DEF AgentNext, AgentStep

-----------------------------------------------------------------------------
(* The events published so far do not depend on what the task is told.      *)
LEMMA StoryStands ==
  ASSUME UNCHANGED <<progress, stage, failure, run_status, planning, result>>
  PROVE  /\ UNCHANGED <<Published, IsOver>>
         /\ \A n : Event(n)' = Event(n)
BY DEF Published, IsOver, Event, Body, TerminalEvents, BuildsResponse, CompletedEvent, FailedEvent

(* The end marker is no event, and nothing is None.                         *)
LEMMA EventsAreNoMarkers ==
  STREAM_END \notin Events /\ None \notin Events
<1>1. "id" \notin DOMAIN STREAM_END
  BY DEF STREAM_END
<1>2. QED BY <1>1, EventAssumption DEF Events

(* A terminal event carries what the run returned, or a public code.        *)
LEMMA TerminalData ==
  AgentInv => /\ TerminalEvents \in Seq(EventData) /\ Len(TerminalEvents) \in {0, 1}
              /\ ~IsOver => Len(TerminalEvents) = 0
<1> SUFFICES ASSUME AgentInv
             PROVE  /\ TerminalEvents \in Seq(EventData) /\ Len(TerminalEvents) \in {0, 1}
                    /\ ~IsOver => Len(TerminalEvents) = 0
  OBVIOUS
<1>1. CASE stage = "returned" /\ BuildsResponse
  <2>1. run_status \in {"completed", "partial"} /\ result.recommendation \in Recommendations
    BY <1>1 DEF AgentInv, RetryInv, RecommendTypeOK, StagesAgree, EndsAgree, RunStatus,
                ProviderResults
  <2>2. CompletedEvent \in EventData
    BY <2>1 DEF CompletedEvent, EventData
  <2>3. TerminalEvents = <<CompletedEvent>>
    BY <1>1 DEF TerminalEvents
  <2>4. QED BY <1>1, <2>2, <2>3 DEF IsOver
<1>2. CASE stage = "raised"
  <2>1. FailedEvent \in EventData
    BY DEF FailedEvent, EventData, InternalError, Public
  <2>2. TerminalEvents = <<FailedEvent>>
    BY <1>2 DEF TerminalEvents
  <2>3. QED BY <1>2, <2>1, <2>2 DEF IsOver
<1>3. CASE ~(stage = "returned" /\ BuildsResponse) /\ stage # "raised"
  <2>1. TerminalEvents = <<>>
    BY <1>3 DEF TerminalEvents
  <2>2. QED BY <2>1
<1>4. QED BY <1>1, <1>2, <1>3

(* The event of a report carries what was reported.                         *)
LEMMA ProgressData ==
  ASSUME NEW p \in ProgressValues
  PROVE  ProgressEvent(p) \in EventData
<1>1. CASE p \in {PlanningStarted, RecommendationStarted}
  BY <1>1 DEF ProgressEvent, PlanningStarted, RecommendationStarted, EventData
<1>2. ASSUME NEW plan \in Plans, p = PlanningCompleted(plan) PROVE ProgressEvent(p) \in EventData
  <2>1. Len(plan.calls) \in Nat
    BY EveryPlanIsWellFormed
  <2>2. QED BY <1>2, <2>1 DEF ProgressEvent, PlanningCompleted, EventData
<1>3. ASSUME NEW outcomes \in OutcomeLists, NEW o \in Range(outcomes),
             o.status \in {"completed", "rejected"}, p = ToolCallCompleted(o)
      PROVE  ProgressEvent(p) \in EventData
  BY <1>3 DEF ProgressEvent, ToolCallCompleted, EventData
<1>4. QED BY <1>1, <1>2, <1>3 DEF ProgressValues

(* Every event published so far is an event.                                *)
LEMMA PublishedAreEvents ==
  AgentInv => Published \in Nat /\ \A n \in 1..Published : Event(n) \in Events
<1> SUFFICES ASSUME AgentInv
             PROVE  Published \in Nat /\ \A n \in 1..Published : Event(n) \in Events
  OBVIOUS
<1>1. /\ progress \in Seq(ProgressValues) /\ Len(progress) \in Nat
      /\ TerminalEvents \in Seq(EventData) /\ Len(TerminalEvents) \in {0, 1}
  BY ProgressIsASequence, TerminalData
<1>2. Published \in Nat
  BY <1>1 DEF Published
<1>3. ASSUME NEW n \in 1..Published PROVE Body(n) \in EventData
  <2>1. n \in 1..(1 + Len(progress) + Len(TerminalEvents))
    BY <1>1, <1>3 DEF Published
  <2>2. CASE n = 1
    BY <2>2 DEF Body, EventData
  <2>3. CASE n # 1 /\ n <= Len(progress) + 1
    <3>1. n - 1 \in 1..Len(progress)
      BY <1>1, <2>1, <2>3
    <3>2. progress[n - 1] \in ProgressValues
      BY <1>1, <3>1, ElementOfSeq
    <3>3. QED BY <2>3, <3>2, ProgressData DEF Body
  <2>4. CASE n # 1 /\ ~(n <= Len(progress) + 1)
    <3>1. 1 \in 1..Len(TerminalEvents)
      BY <1>1, <2>1, <2>4
    <3>2. TerminalEvents[1] \in EventData
      BY <1>1, <3>1, ElementOfSeq
    <3>3. QED BY <2>4, <3>2 DEF Body
  <2>5. QED BY <2>2, <2>3, <2>4
<1>4. QED BY <1>2, <1>3 DEF Event, Events

(* The events of a step's reports.                                          *)
LEMMA NewProgressEvents ==
  ASSUME AgentInv, AgentInv', [AgentNext]_agentVars
  PROVE  /\ ProgressEvents \in Seq(EventData)
         /\ Len(ProgressEvents) = Len(progress') - Len(progress)
         /\ \A i \in 1..Len(ProgressEvents) :
              ProgressEvents[i] = ProgressEvent(progress'[Len(progress) + i])
<1> DEFINE m == Len(progress)
           n == Len(progress')
           new == SubSeq(progress', m + 1, n)
<1>1. m \in Nat /\ m <= n
  BY ProgressIsASequence, ProgressGrows
<1>2. (progress \in Seq(ProgressValues) /\ Len(progress) \in Nat)'
  BY ProgressIsASequence, PTL
<1>3. n \in Nat /\ \A i \in (m + 1)..n : progress'[i] \in ProgressValues
  BY <1>1, <1>2, ElementOfSeq
<1>4. /\ new \in Seq(ProgressValues) /\ Len(new) = n - m
      /\ \A i \in 1..(n - m) : new[i] = progress'[m + i]
  <2>1. m + 1 \in Int /\ n \in Int
    BY <1>1, <1>3
  <2>2. /\ new \in Seq(ProgressValues)
        /\ Len(new) = IF m + 1 <= n THEN n - (m + 1) + 1 ELSE 0
        /\ \A i \in 1..(n - (m + 1) + 1) : new[i] = progress'[(m + 1) + i - 1]
    BY <1>3, <2>1, SubSeqProperties
  <2>3. QED BY <1>1, <1>3, <2>2
<1>5. DOMAIN new = 1..(n - m)
  BY <1>4, LenProperties
<1>6. ProgressEvents = [i \in 1..(n - m) |-> ProgressEvent(new[i])]
  BY <1>5 DEF ProgressEvents
<1> HIDE DEF new, n, m
<1>7. \A i \in 1..(n - m) : ProgressEvent(new[i]) \in EventData
  BY <1>4, ElementOfSeq, ProgressData
<1>8. n - m \in Nat
  BY <1>1, <1>3
<1>9. ProgressEvents \in Seq(EventData) /\ Len(ProgressEvents) = n - m
  BY <1>6, <1>7, <1>8
<1>10. QED BY <1>4, <1>6, <1>9 DEF n, m

(* What has been published stays, and what a step publishes comes next.     *)
LEMMA StoryGrows ==
  ASSUME AgentInv, AgentInv', [AgentNext]_agentVars, ~IsOver
  PROVE  \A n \in 1..Published : Event(n)' = Event(n)
<1>1. /\ Len(progress) \in Nat /\ Len(progress) <= Len(progress')
      /\ \A i \in 1..Len(progress) : progress'[i] = progress[i]
  BY ProgressIsASequence, ProgressGrows
<1>2. (Len(progress) \in Nat)'
  BY ProgressIsASequence, PTL
<1>3. Len(TerminalEvents) = 0
  BY TerminalData
<1>4. ASSUME NEW n \in 1..Published PROVE Body(n)' = Body(n)
  <2>1. n \in 1..(Len(progress) + 1)
    BY <1>1, <1>3, <1>4 DEF Published
  <2>2. CASE n = 1
    BY <2>2 DEF Body
  <2>3. CASE n # 1
    <3>1. n - 1 \in 1..Len(progress) /\ n <= Len(progress) + 1 /\ n <= Len(progress') + 1
      BY <1>1, <1>2, <2>1, <2>3
    <3>2. Body(n) = ProgressEvent(progress[n - 1])
      BY <2>3, <3>1 DEF Body
    <3>3. Body(n)' = ProgressEvent(progress'[n - 1])
      BY <2>3, <3>1 DEF Body, ProgressEvent
    <3>4. QED BY <1>1, <3>1, <3>2, <3>3
  <2>4. QED BY <2>2, <2>3
<1>5. QED BY <1>4 DEF Event

(* A step of the running worker publishes what comes next in the story.     *)
LEMMA StepContinuesStory ==
  ASSUME AgentInv, AgentInv', [AgentNext]_agentVars, IsActive, stage' # "not_started"
  PROVE  LET events == ProgressEvents \o TerminalEvents' IN
         /\ events \in Seq(EventData)
         /\ Published' = Published + Len(events)
         /\ \A j \in 1..Len(events), n \in Nat : n = Published + j => events[j] = Body(n)'
<1> DEFINE events == ProgressEvents \o TerminalEvents'
           k == Len(ProgressEvents)
           t == Len(TerminalEvents')
<1>1. /\ Len(progress) \in Nat /\ Len(progress) <= Len(progress')
      /\ Published = 1 + Len(progress)
  BY ProgressIsASequence, ProgressGrows, TerminalData DEF IsActive, IsOver, Published
<1>2. /\ (Len(progress) \in Nat)'
      /\ (TerminalEvents \in Seq(EventData) /\ Len(TerminalEvents) \in {0, 1})'
  BY ProgressIsASequence, TerminalData, PTL
<1>3. /\ ProgressEvents \in Seq(EventData) /\ k = Len(progress') - Len(progress)
      /\ \A i \in 1..k : ProgressEvents[i] = ProgressEvent(progress'[Len(progress) + i])
  BY NewProgressEvents
<1>4. /\ events \in Seq(EventData) /\ Len(events) = k + t
      /\ \A i \in 1..k : events[i] = ProgressEvents[i]
      /\ \A i \in 1..t : events[i + k] = TerminalEvents'[i]
  <2>1. ProgressEvents \in Seq(EventData) /\ TerminalEvents' \in Seq(EventData)
    BY <1>2, <1>3
  <2>2. QED BY ONLY <2>1, ConcatByParts
<1> HIDE DEF events
<1>5. Published' = Published + Len(events)
  <2>1. Published' = 1 + Len(progress') + t
    BY DEF Published
  <2>2. k = Len(progress') - Len(progress) /\ Len(events) = k + t /\ t \in Nat
    BY <1>2, <1>3, <1>4
  <2>3. Len(progress) \in Nat /\ Len(progress') \in Nat /\ Published = 1 + Len(progress)
    BY <1>1, <1>2
  <2>4. QED BY ONLY <2>1, <2>2, <2>3
<1>6. ASSUME NEW j \in 1..Len(events), NEW n \in Nat, n = Published + j
      PROVE  events[j] = Body(n)'
  <2>1. j \in 1..(k + t) /\ k \in Nat /\ t \in {0, 1} /\ j \in Nat
    BY <1>1, <1>2, <1>3, <1>4, <1>6
  <2>2. CASE j <= k
    <3>1. j \in 1..k /\ n # 1 /\ n <= Len(progress') + 1 /\ n - 1 = Len(progress) + j
      BY <1>1, <1>2, <1>3, <1>6, <2>1, <2>2
    <3>2. Body(n)' = ProgressEvent(progress'[Len(progress) + j])
      BY <3>1 DEF Body, ProgressEvent
    <3>3. QED BY <1>3, <1>4, <3>1, <3>2
  <2>3. CASE ~(j <= k)
    <3>1. j = k + 1 /\ t = 1 /\ 1 + k = j /\ 1 \in 1..t
          /\ n # 1 /\ ~(n <= Len(progress') + 1)
      <4>1. j = k + 1 /\ t = 1
        <5>1. \A a, b, c \in Nat : c \in 1..(a + b) /\ b \in {0, 1} /\ ~(c <= a) => c = a + 1 /\ b = 1
          OBVIOUS
        <5>2. t \in Nat
          BY <2>1
        <5>3. QED BY ONLY <2>1, <2>3, <5>1, <5>2
      <4>2. k = Len(progress') - Len(progress) /\ n = 1 + Len(progress) + j
        BY <1>1, <1>3, <1>6
      <4>3. Len(progress) \in Nat /\ Len(progress') \in Nat
        BY <1>1, <1>2
      <4>4. QED BY ONLY <4>1, <4>2, <4>3, <2>1
    <3>2. Body(n)' = TerminalEvents'[1]
      BY <3>1 DEF Body
    <3>3. events[1 + k] = TerminalEvents'[1]
      BY <1>4, <3>1
    <3>4. QED BY <3>1, <3>2, <3>3
  <2>4. QED BY <2>2, <2>3
<1>7. QED BY <1>4, <1>5, <1>6 DEF events

(* Its first step publishes the beginning.                                  *)
LEMMA StartBeginsStory ==
  ASSUME AgentInv, AgentInv', StartRun
  PROVE  LET events == <<[kind |-> "started"]>> \o ProgressEvents IN
         /\ events \in Seq(EventData)
         /\ Published = 0 /\ Published' = Len(events)
         /\ \A j \in 1..Len(events) : events[j] = Body(j)'
<1> DEFINE start == <<[kind |-> "started"]>>
           events == start \o ProgressEvents
<1>1. /\ progress = <<>> /\ progress' = <<PlanningStarted>> /\ stage = "not_started"
      /\ stage' = "planning"
  BY DEF AgentInv, StagesAgree, ToldSoFar, StartRun
<1>2. Len(progress) = 0 /\ Len(progress') = 1 /\ progress'[1] = PlanningStarted
  BY <1>1
<1>3. /\ ProgressEvents \in Seq(EventData) /\ Len(ProgressEvents) = 1
      /\ ProgressEvents[1] = ProgressEvent(PlanningStarted)
  <2>1. [AgentNext]_agentVars
    BY DEF AgentNext, AgentStep
  <2>2. /\ ProgressEvents \in Seq(EventData)
        /\ Len(ProgressEvents) = Len(progress') - Len(progress)
        /\ \A i \in 1..Len(ProgressEvents) :
             ProgressEvents[i] = ProgressEvent(progress'[Len(progress) + i])
    BY <2>1, NewProgressEvents
  <2>3. Len(ProgressEvents) = 1 /\ Len(progress) + 1 = 1
    BY <1>2, <2>2
  <2>4. QED BY <1>2, <2>2, <2>3
<1>4. /\ start \in Seq(EventData) /\ Len(start) = 1 /\ start[1] = [kind |-> "started"]
  <2>1. [kind |-> "started"] \in EventData
    BY DEF EventData
  <2>2. QED BY <2>1
<1> HIDE DEF start
<1>5. /\ events \in Seq(EventData) /\ Len(events) = 2
      /\ events[1] = [kind |-> "started"] /\ events[2] = ProgressEvent(PlanningStarted)
  <2>1. start \in Seq(EventData) /\ ProgressEvents \in Seq(EventData)
    BY <1>3, <1>4
  <2>2. /\ events \in Seq(EventData) /\ Len(events) = Len(start) + Len(ProgressEvents)
        /\ \A i \in 1..Len(start) : events[i] = start[i]
        /\ \A i \in 1..Len(ProgressEvents) : events[i + Len(start)] = ProgressEvents[i]
    BY ONLY <2>1, ConcatByParts
  <2>3. events[1 + 1] = ProgressEvents[1]
    BY <1>3, <1>4, <2>2
  <2>4. QED BY <1>3, <1>4, <2>2, <2>3
<1>6. Published = 0 /\ Published' = 2
  <2>1. (~IsOver => Len(TerminalEvents) = 0)'
    BY TerminalData, PTL
  <2>2. QED BY <1>1, <1>2, <2>1 DEF Published, IsOver
<1>7. Body(1)' = [kind |-> "started"] /\ Body(2)' = ProgressEvent(PlanningStarted)
  BY <1>2 DEF Body, ProgressEvent
<1> HIDE DEF events
<1>8. \A j \in 1..Len(events) : j = 1 \/ j = 2
  BY <1>5
<1>9. \A j \in 1..Len(events) : events[j] = Body(j)'
  BY <1>5, <1>7, <1>8
<1>10. QED BY <1>4, <1>5, <1>6, <1>9 DEF events, start

-----------------------------------------------------------------------------
(* What publish does to the queue.                                          *)
LEMMA PublishAppends ==
  ASSUME NEW Q, Events \subseteq Q, STREAM_END \in Q, queue \in Seq(Q), sequence \in Nat,
         NEW events \in Seq(EventData), Publish(events)
  PROVE  /\ sequence' = sequence + Len(events)
         /\ queue' \in Seq(Q)
         /\ Len(queue') = Len(queue) + Len(events) + IF IsOver' THEN 1 ELSE 0
         /\ \A i \in 1..Len(queue) : queue'[i] = queue[i]
         /\ \A j \in 1..Len(events) :
              queue'[Len(queue) + j] = [id |-> sequence + j, data |-> events[j]]
         /\ IsOver' => queue'[Len(queue) + Len(events) + 1] = STREAM_END
<1> DEFINE n == Len(events)
           front == queue \o Numbered(events)
<1>1. n \in Nat /\ DOMAIN events = 1..n
  BY LenProperties
<1>2. /\ Numbered(events) \in Seq(Q) /\ Len(Numbered(events)) = n
      /\ \A j \in 1..n : Numbered(events)[j] = [id |-> sequence + j, data |-> events[j]]
  <2>1. Numbered(events) = [j \in 1..n |-> [id |-> sequence + j, data |-> events[j]]]
    BY <1>1 DEF Numbered
  <2>2. \A j \in 1..n : [id |-> sequence + j, data |-> events[j]] \in Q
    BY ElementOfSeq DEF Events
  <2>3. QED BY <1>1, <2>1, <2>2
<1>3. EndOfStream \in Seq(Q) /\ Len(EndOfStream) = IF IsOver' THEN 1 ELSE 0
  BY DEF EndOfStream
<1>4. IsOver' => EndOfStream[1] = STREAM_END /\ Len(EndOfStream) = 1
  BY DEF EndOfStream
<1>5. /\ front \in Seq(Q) /\ Len(front) = Len(queue) + Len(Numbered(events))
      /\ \A i \in 1..Len(queue) : front[i] = queue[i]
      /\ \A i \in 1..Len(Numbered(events)) : front[i + Len(queue)] = Numbered(events)[i]
  <2>1. Numbered(events) \in Seq(Q)
    BY <1>2
  <2>2. QED BY ONLY <2>1, queue \in Seq(Q), ConcatByParts
<1> HIDE DEF front
<1>6. /\ front \o EndOfStream \in Seq(Q)
      /\ Len(front \o EndOfStream) = Len(front) + Len(EndOfStream)
      /\ \A i \in 1..Len(front) : (front \o EndOfStream)[i] = front[i]
      /\ \A i \in 1..Len(EndOfStream) : (front \o EndOfStream)[i + Len(front)] = EndOfStream[i]
  <2>1. front \in Seq(Q) /\ EndOfStream \in Seq(Q)
    BY <1>3, <1>5
  <2>2. QED BY ONLY <2>1, ConcatByParts
<1>7. queue' = front \o EndOfStream /\ sequence' = sequence + n
  BY DEF Publish, front
<1>8. Len(queue) \in Nat /\ Len(front) = Len(queue) + n
  BY <1>2, <1>5, LenProperties
<1>9. \A i \in 1..Len(queue) : queue'[i] = queue[i]
  BY <1>1, <1>5, <1>6, <1>7, <1>8
<1>10. ASSUME NEW j \in 1..n
       PROVE  queue'[Len(queue) + j] = [id |-> sequence + j, data |-> events[j]]
  <2>1. Len(queue) + j \in 1..Len(front) /\ j + Len(queue) = Len(queue) + j
    BY <1>1, <1>8
  <2>2. front[j + Len(queue)] = Numbered(events)[j]
    BY <1>2, <1>5
  <2>3. QED BY <1>2, <1>6, <1>7, <2>1, <2>2
<1>11. ASSUME IsOver' PROVE queue'[Len(queue) + n + 1] = STREAM_END
  <2>1. 1 + Len(front) = Len(queue) + n + 1 /\ 1 \in 1..Len(EndOfStream)
    <3>1. Len(EndOfStream) = 1
      BY <1>4, <1>11
    <3>2. n \in Nat /\ Len(queue) \in Nat /\ Len(front) = Len(queue) + n
      BY <1>1, <1>8
    <3>3. 1 + Len(front) = Len(queue) + n + 1
      BY ONLY <3>2
    <3>4. QED BY <3>1, <3>3
  <2>2. (front \o EndOfStream)[1 + Len(front)] = EndOfStream[1]
    BY <1>6, <2>1
  <2>3. QED BY <1>4, <1>7, <1>11, <2>1, <2>2
<1>12. Len(queue') = Len(queue) + n + IF IsOver' THEN 1 ELSE 0
  BY <1>3, <1>6, <1>7, <1>8
<1>13. QED BY <1>6, <1>7, <1>9, <1>10, <1>11, <1>12

(* Publishing what comes next leaves the generator where it was.            *)
LEMMA PublishingKeepsStory ==
  ASSUME StreamInv, AgentInv', ~IsOver, NEW events \in Seq(EventData), Publish(events),
         Published' = Published + Len(events),
         \A n \in 1..Published : Event(n)' = Event(n),
         \A j \in 1..Len(events), n \in Nat : n = Published + j => events[j] = Body(n)',
         UNCHANGED <<generator, holding, delivered, connected, cut, cancel_requested>>
  PROVE  QueueAgrees' /\ ClientAgrees'
<1> DEFINE Q == Events \cup {STREAM_END}
           k == Len(events)
<1>1. /\ sequence = Published /\ sequence \in Nat /\ queue \in Seq(Q) /\ k \in Nat
      /\ Len(queue) \in Nat
  BY PublishedAreEvents, LenProperties DEF StreamInv, QueueAgrees
<1>2. /\ sequence' = sequence + k
      /\ queue' \in Seq(Q)
      /\ Len(queue') = Len(queue) + k + IF IsOver' THEN 1 ELSE 0
      /\ \A i \in 1..Len(queue) : queue'[i] = queue[i]
      /\ \A j \in 1..k : queue'[Len(queue) + j] = [id |-> sequence + j, data |-> events[j]]
      /\ IsOver' => queue'[Len(queue) + k + 1] = STREAM_END
  <2>1. Events \subseteq Q /\ STREAM_END \in Q /\ queue \in Seq(Q) /\ sequence \in Nat
    BY <1>1
  <2> HIDE DEF Q
  <2>2. QED BY <2>1, PublishAppends
<1>3. Waiting = Len(queue) /\ Taken = sequence - Len(queue)
  BY <1>1 DEF Waiting, Taken
<1>4. Waiting' = Len(queue) + k /\ Taken' = Taken
  <2>1. Waiting' = Len(queue) + k
    BY <1>1, <1>2 DEF Waiting
  <2>2. Taken' = sequence' - Waiting'
    BY DEF Taken
  <2>3. QED BY <1>1, <1>2, <1>3, <2>1, <2>2
<1>5. Taken \in Int /\ Len(queue) = sequence - Taken
  BY <1>1, <1>3
<1>6. ASSUME ~Leaving, NEW n \in (Taken + 1)..(sequence + k)
      PROVE  queue'[n - Taken] = Event(n)'
  <2>1. Taken \in 0..sequence /\ n \in Nat
    BY <1>1, <1>3, <1>5, <1>6 DEF StreamInv, QueueAgrees
  <2>2. CASE n <= sequence
    <3>1. n - Taken \in 1..Len(queue) /\ n \in 1..Published /\ n \in (Taken + 1)..sequence
      BY <1>1, <1>5, <1>6, <2>1, <2>2
    <3>2. queue[n - Taken] = Event(n)
      BY <1>6, <3>1 DEF StreamInv, QueueAgrees
    <3>3. QED BY <1>2, <3>1, <3>2
  <2>3. CASE ~(n <= sequence)
    <3>1. /\ n - sequence \in 1..k /\ n = Published + (n - sequence)
          /\ n - Taken = Len(queue) + (n - sequence) /\ sequence + (n - sequence) = n
      BY <1>1, <1>5, <1>6, <2>1, <2>3
    <3>2. queue'[Len(queue) + (n - sequence)] = [id |-> n, data |-> events[n - sequence]]
      BY <1>2, <3>1
    <3>3. events[n - sequence] = Body(n)'
      BY <2>1, <3>1
    <3>4. QED BY <3>1, <3>2, <3>3 DEF Event
  <2>4. QED BY <2>2, <2>3
<1>7. QueueAgrees'
  <2>1. sequence' = Published' /\ queue' \in Seq(Q)
    BY <1>1, <1>2
  <2>2. ASSUME ~Leaving
        PROVE  Waiting' \in 0..sequence' /\ (IsOver' => queue'[Waiting' + 1] = STREAM_END)
    BY <1>1, <1>2, <1>3, <1>4, <2>2 DEF StreamInv, QueueAgrees
  <2>3. QED BY <1>2, <1>4, <1>6, <2>1, <2>2 DEF QueueAgrees, Leaving
<1>8. ClientAgrees'
  <2>1. \A n \in 1..Len(delivered) : n \in 1..Published /\ delivered'[n] = Event(n)'
    BY <1>1 DEF StreamInv, ClientAgrees
  <2>2. ASSUME generator \in {"yielding", "abandoned"}
        PROVE  \E n \in 1..sequence' : n = Taken' /\ holding' = Event(n)' /\ Len(delivered') < n
    <3>1. PICK n \in 1..sequence : n = Taken /\ holding = Event(n) /\ Len(delivered) < n
      BY <2>2 DEF StreamInv, ClientAgrees
    <3>2. n \in 1..sequence' /\ Event(n)' = Event(n)
      BY <1>1, <1>2, <3>1
    <3>3. QED BY <1>4, <3>1, <3>2
  <2>3. Len(delivered) \in Nat
    BY LenProperties DEF StreamInv, ClientAgrees
  <2>4. QED BY <1>1, <1>2, <1>4, <2>1, <2>2, <2>3 DEF StreamInv, ClientAgrees, Leaving
<1>9. QED BY <1>7, <1>8

(* A step that neither publishes nor takes anything.                        *)
LEMMA StandingKeepsStory ==
  ASSUME StreamInv, UNCHANGED <<progress, stage, failure, run_status, planning, result>>,
         UNCHANGED <<queue, sequence, generator, holding, delivered, connected, cut>>,
         UNCHANGED cancel_requested
  PROVE  QueueAgrees' /\ ClientAgrees'
<1>1. UNCHANGED <<Published, IsOver>> /\ \A n : Event(n)' = Event(n)
  BY StoryStands
<1>2. UNCHANGED <<Waiting, Taken, Leaving>>
  BY <1>1 DEF Waiting, Taken, Leaving
<1>3. QueueAgrees'
  BY <1>1, <1>2 DEF StreamInv, QueueAgrees
<1>4. ClientAgrees'
  BY <1>1, <1>2 DEF StreamInv, ClientAgrees
<1>5. QED BY <1>3, <1>4

LEMMA WorkerKeepsStory ==
  ASSUME StreamInv, WorkerNext \/ DeadlineFires
  PROVE  QueueAgrees' /\ ClientAgrees'
<1>1. AgentInv /\ AgentInv' /\ [AgentNext]_agentVars
  BY WorkerKeepsAgreement, WorkerStepsOfTheRun DEF StreamInv
<1>2. CASE WorkerStarts
  <2> DEFINE events == <<[kind |-> "started"]>> \o ProgressEvents
  <2>1. /\ StartRun /\ Publish(events) /\ ~IsOver
        /\ UNCHANGED <<generator, holding, delivered, connected, cut, cancel_requested>>
    BY <1>2 DEF WorkerStarts, StartRun, consumerVars, IsOver, agentVars
  <2>2. /\ events \in Seq(EventData) /\ Published = 0 /\ Published' = Len(events)
        /\ \A j \in 1..Len(events) : events[j] = Body(j)'
    BY <1>1, <2>1, StartBeginsStory
  <2> HIDE DEF events
  <2>3. /\ Published' = Published + Len(events)
        /\ \A n \in 1..Published : Event(n)' = Event(n)
        /\ \A j \in 1..Len(events), n \in Nat : n = Published + j => events[j] = Body(n)'
    <3>1. Len(events) \in Nat
      BY <2>2, LenProperties
    <3>2. ASSUME NEW j \in 1..Len(events), NEW n \in Nat, n = Published + j
          PROVE  events[j] = Body(n)'
      <4>1. n = j
        BY <2>2, <3>1, <3>2
      <4>2. QED BY <2>2, <4>1
    <3>3. QED BY <2>2, <3>1, <3>2
  <2>4. QED BY <1>1, <2>1, <2>2, <2>3, PublishingKeepsStory
<1>3. CASE WorkerNeverRuns \/ DeadlineFires
  BY <1>3, StandingKeepsStory
  DEF WorkerNeverRuns, DeadlineFires, FireDeadline, agentVars, recommendVars, consumerVars
<1>4. CASE WorkerSteps
  <2> DEFINE events == ProgressEvents \o TerminalEvents'
  <2>1. /\ Publish(events) /\ worker = "running"
        /\ UNCHANGED <<generator, holding, delivered, connected, cut>>
    BY <1>4 DEF WorkerSteps, consumerVars
  <2>2. IsActive /\ ~IsOver
    BY <2>1 DEF StreamInv, WorkerAgrees, IsActive, IsOver
  <2>3. stage' # "not_started" /\ UNCHANGED cancel_requested
    BY <1>1, <1>4, <2>2
    DEF AgentInv, StagesAgree, WorkerSteps, PlannerAnswers, RefusePlan, ExecutePlan,
        PlannerAnswersWith, FailPlanning, Fail, RecommendationAnswers, RecommendationWakesUp,
        FollowRecommend, Unwind, IsActive
  <2>4. \A n \in 1..Published : Event(n)' = Event(n)
    BY <1>1, <2>2, StoryGrows
  <2>5. /\ events \in Seq(EventData) /\ Published' = Published + Len(events)
        /\ \A j \in 1..Len(events), n \in Nat : n = Published + j => events[j] = Body(n)'
    BY <1>1, <2>2, <2>3, StepContinuesStory
  <2> HIDE DEF events
  <2>6. QED BY <1>1, <2>1, <2>2, <2>3, <2>4, <2>5, PublishingKeepsStory
<1>5. QED BY <1>2, <1>3, <1>4 DEF WorkerNext

(* Whoever finds the end marker at the head has taken every event.          *)
LEMMA EndMarkerIsLast ==
  ASSUME StreamInv, ~Leaving, queue # <<>>, Head(queue) = STREAM_END
  PROVE  IsOver /\ Taken = sequence /\ WorkerIsDone
<1>1. /\ queue \in Seq(Events \cup {STREAM_END}) /\ sequence = Published /\ sequence \in Nat
      /\ Waiting \in 0..sequence
      /\ \A n \in (Taken + 1)..sequence : queue[n - Taken] = Event(n)
      /\ \A n \in 1..sequence : Event(n) \in Events
  BY PublishedAreEvents DEF StreamInv, QueueAgrees
<1>2. Len(queue) \in Nat /\ Len(queue) # 0 /\ queue[1] = STREAM_END
  BY <1>1, LenProperties, EmptySeq
<1>3. Waiting = 0
  <2> SUFFICES ASSUME Waiting # 0 PROVE FALSE
    OBVIOUS
  <2>1. /\ Taken + 1 \in (Taken + 1)..sequence /\ (Taken + 1) - Taken = 1
        /\ Taken + 1 \in 1..sequence
    BY <1>1 DEF Taken
  <2>2. queue[(Taken + 1) - Taken] = Event(Taken + 1)
    BY ONLY <1>1, <2>1
  <2>3. Event(Taken + 1) \in Events
    BY ONLY <1>1, <2>1
  <2>4. Event(Taken + 1) = STREAM_END
    BY ONLY <1>2, <2>1, <2>2
  <2>5. QED BY ONLY <2>3, <2>4, EventsAreNoMarkers
<1>4. IsOver
  BY <1>2, <1>3 DEF Waiting
<1>5. Taken = sequence
  BY <1>1, <1>3 DEF Taken
<1>6. WorkerIsDone
  BY <1>4 DEF StreamInv, WorkerAgrees, Workers, WorkerIsDone, IsOver, IsActive
<1>7. QED BY <1>4, <1>5, <1>6

LEMMA FinallyKeepsStory ==
  ASSUME StreamInv, EntersFinally
  PROVE  QueueAgrees' /\ ClientAgrees'
<1>1. /\ EnterFinally /\ ~Leaving
      /\ \/ UNCHANGED queue
         \/ queue # <<>> /\ queue' = Tail(queue)
  BY DEF EntersFinally, LeaveDisconnected, TakeStreamEnd, SendTimesOut, CancelResponse,
         FinalizeGenerator, Leaving
<1>2. /\ UNCHANGED <<Published, IsOver>> /\ \A n : Event(n)' = Event(n)
      /\ UNCHANGED <<sequence, delivered, connected>>
      /\ generator' = "joining" /\ holding' = None /\ Leaving'
      /\ cancel_requested' = (cancel_requested \/ ~WorkerIsDone)
  <2>1. UNCHANGED <<progress, stage, failure, run_status, planning, result>>
    BY <1>1, FinallyKeepsAgentInv DEF StreamInv
  <2>2. UNCHANGED <<Published, IsOver>> /\ \A n : Event(n)' = Event(n)
    BY <2>1, StoryStands
  <2>3. QED BY <1>1, <2>2 DEF EnterFinally, Leaving
<1>3. QueueAgrees'
  <2>1. queue' \in Seq(Events \cup {STREAM_END})
    BY <1>1, HeadTailProperties DEF StreamInv, QueueAgrees
  <2>2. QED BY <1>2, <2>1 DEF StreamInv, QueueAgrees
<1>4. ASSUME connected, cut' = "no"
      PROVE  Len(delivered) = sequence /\ IsOver /\ ~cancel_requested /\ WorkerIsDone
  <2>1. TakeStreamEnd
    BY <1>4 DEF EntersFinally, LeaveDisconnected, SendTimesOut, CancelResponse,
                FinalizeGenerator, StreamInv, GeneratorAgrees
  <2>2. IsOver /\ Taken = sequence /\ WorkerIsDone
    BY <1>1, <2>1, EndMarkerIsLast DEF TakeStreamEnd
  <2>3. holding = None /\ Taken = Len(delivered)
    BY <1>1, <1>4, <2>1 DEF TakeStreamEnd, StreamInv, ClientAgrees
  <2>4. ~cancel_requested
    BY <1>1 DEF StreamInv, GeneratorAgrees
  <2>5. QED BY <2>2, <2>3, <2>4
<1>5. ClientAgrees'
  BY <1>2, <1>4 DEF StreamInv, ClientAgrees
<1>6. QED BY <1>3, <1>5

LEMMA TakingKeepsStory ==
  ASSUME StreamInv, TakeEvent
  PROVE  QueueAgrees' /\ ClientAgrees'
<1> DEFINE Q == Events \cup {STREAM_END}
<1>1. /\ generator = "getting" /\ generator' = "yielding" /\ ~Leaving /\ ~Leaving'
      /\ queue # <<>> /\ Head(queue) # STREAM_END
      /\ holding' = Head(queue) /\ queue' = Tail(queue)
      /\ UNCHANGED <<agentVars, sequence, delivered, connected>>
  BY DEF TakeEvent, Leaving
<1>2. UNCHANGED <<Published, IsOver>> /\ \A n : Event(n)' = Event(n)
  BY <1>1, StoryStands DEF agentVars, recommendVars
<1>3. /\ queue \in Seq(Q) /\ sequence = Published /\ sequence \in Nat
      /\ Waiting \in 0..sequence
      /\ \A n \in (Taken + 1)..sequence : queue[n - Taken] = Event(n)
      /\ IsOver => queue[Waiting + 1] = STREAM_END
  BY <1>1, PublishedAreEvents DEF StreamInv, QueueAgrees
<1>4. /\ Len(queue) \in Nat /\ Len(queue) # 0 /\ Head(queue) = queue[1]
      /\ queue' \in Seq(Q) /\ Len(queue') = Len(queue) - 1
      /\ \A i \in 1..Len(queue') : queue'[i] = queue[i + 1]
  <2>1. queue \in Seq(Q) /\ queue # <<>>
    BY <1>1, <1>3
  <2>2. /\ Len(queue) \in Nat /\ Len(queue) # 0 /\ Head(queue) = queue[1]
        /\ Tail(queue) \in Seq(Q) /\ Len(Tail(queue)) = Len(queue) - 1
        /\ \A i \in 1..Len(Tail(queue)) : Tail(queue)[i] = queue[i + 1]
    BY ONLY <2>1, HeadTailProperties, LenProperties, EmptySeq
  <2>3. QED BY <1>1, <2>2
<1>5. Waiting # 0
  <2> SUFFICES ASSUME Waiting = 0 PROVE FALSE
    OBVIOUS
  <2>1. IsOver
    BY <1>4 DEF Waiting
  <2>2. QED BY <1>1, <1>3, <1>4, <2>1
<1>6. Waiting' = Waiting - 1 /\ Taken' = Taken + 1 /\ Taken \in Nat /\ Taken = sequence - Waiting
  <2>1. Waiting' = Waiting - 1
    BY <1>2, <1>4 DEF Waiting
  <2>2. Taken' = sequence - Waiting'
    BY <1>1 DEF Taken
  <2>3. QED BY <1>3, <2>1, <2>2 DEF Taken
<1>7. ASSUME NEW n \in (Taken + 2)..sequence PROVE queue'[n - (Taken + 1)] = Event(n)
  <2>1. /\ n \in (Taken + 1)..sequence /\ n - Taken = (n - (Taken + 1)) + 1
        /\ n - (Taken + 1) \in 1..(Waiting - 1)
    BY <1>3, <1>6
  <2>2. n - (Taken + 1) \in 1..Len(queue')
    BY <1>3, <1>4, <2>1 DEF Waiting
  <2>3. QED BY <1>3, <1>4, <2>1, <2>2
<1>8. IsOver => queue'[Waiting] = STREAM_END
  BY <1>3, <1>4, <1>5 DEF Waiting
<1>9. QueueAgrees'
  <2>1. Waiting' \in 0..sequence
    BY <1>3, <1>5, <1>6
  <2>2. IsOver => queue'[Waiting' + 1] = STREAM_END
    BY <1>3, <1>6, <1>8
  <2>3. \A n \in (Taken' + 1)..sequence : queue'[n - Taken'] = Event(n)
    <3>1. Taken' = Taken + 1 /\ Taken' + 1 = Taken + 2
      BY <1>6
    <3>2. QED BY <1>7, <3>1
  <2>4. QED BY <1>1, <1>2, <1>3, <1>4, <2>1, <2>2, <2>3 DEF QueueAgrees
<1>10. ClientAgrees'
  <2>1. Taken + 1 \in (Taken + 1)..sequence /\ Taken + 1 \in 1..sequence /\ (Taken + 1) - Taken = 1
    BY <1>3, <1>5, <1>6
  <2>2. holding' = Event(Taken + 1) /\ Event(Taken + 1) \in Events
    BY <1>1, <1>3, <1>4, <2>1, PublishedAreEvents DEF StreamInv
  <2>3. /\ Len(delivered) \in Nat /\ Len(delivered) <= Taken /\ holding = None
        /\ connected => Taken = Len(delivered)
    BY <1>1, LenProperties DEF StreamInv, ClientAgrees
  <2>4. holding' # None
    BY <2>2, EventsAreNoMarkers
  <2>5. \E n \in 1..sequence' : n = Taken' /\ holding' = Event(n)' /\ Len(delivered') < n
    BY <1>1, <1>2, <1>6, <2>1, <2>2, <2>3
  <2>6. /\ Len(delivered') <= Taken'
        /\ connected' => Taken' = Len(delivered') + 1
    BY <1>1, <1>6, <2>3
  <2>7. \A n \in 1..Len(delivered') : delivered'[n] = Event(n)'
    BY <1>1, <1>2 DEF StreamInv, ClientAgrees
  <2>8. QED BY <1>1, <2>4, <2>5, <2>6, <2>7 DEF StreamInv, ClientAgrees
<1>11. QED BY <1>9, <1>10

LEMMA SendingKeepsStory ==
  ASSUME StreamInv, SendEvent
  PROVE  QueueAgrees' /\ ClientAgrees'
<1>1. /\ generator = "yielding" /\ generator' = "checking" /\ ~Leaving /\ ~Leaving'
      /\ delivered' = IF connected THEN Append(delivered, holding) ELSE delivered
      /\ holding' = None /\ UNCHANGED <<agentVars, queue, sequence, connected>>
  BY DEF SendEvent, Leaving
<1>2. UNCHANGED <<Published, IsOver>> /\ \A n : Event(n)' = Event(n)
  BY <1>1, StoryStands DEF agentVars, recommendVars
<1>3. UNCHANGED <<Waiting, Taken>>
  BY <1>1, <1>2 DEF Waiting, Taken
<1>4. QueueAgrees'
  BY <1>1, <1>2, <1>3 DEF StreamInv, QueueAgrees
<1>5. PICK n \in 1..sequence : n = Taken /\ holding = Event(n) /\ Len(delivered) < n
  BY <1>1 DEF StreamInv, ClientAgrees
<1>6. /\ holding \in Events /\ holding # None /\ sequence \in Nat
  BY <1>5, PublishedAreEvents, EventsAreNoMarkers DEF StreamInv, QueueAgrees
<1>7. /\ delivered \in Seq(Events) /\ Len(delivered) \in Nat
      /\ \A m \in 1..Len(delivered) : delivered[m] = Event(m)
      /\ connected => Taken = Len(delivered) + 1
  BY <1>1, <1>6, LenProperties DEF StreamInv, ClientAgrees
<1>8. CASE ~connected
  <2>1. Len(delivered) <= Taken /\ Len(delivered) <= sequence
    BY <1>1 DEF StreamInv, ClientAgrees
  <2>2. QED BY <1>1, <1>2, <1>3, <1>4, <1>7, <1>8, <2>1 DEF ClientAgrees
<1>9. CASE connected
  <2>1. /\ delivered' \in Seq(Events) /\ Len(delivered') = Len(delivered) + 1
        /\ \A m \in 1..Len(delivered) : delivered'[m] = delivered[m]
        /\ delivered'[Len(delivered) + 1] = holding
    BY <1>1, <1>6, <1>7, <1>9, AppendProperties
  <2>2. Len(delivered') = n /\ n = Taken /\ n <= sequence /\ delivered'[n] = Event(n)
    BY <1>5, <1>6, <1>7, <1>9, <2>1
  <2>3. \A m \in 1..Len(delivered') : delivered'[m] = Event(m)
    <3>1. ASSUME NEW m \in 1..Len(delivered') PROVE m \in 1..Len(delivered) \/ m = n
      BY <1>7, <2>1, <2>2, <3>1
    <3>2. QED BY <1>7, <2>1, <2>2, <3>1
  <2>4. QED BY <1>1, <1>2, <1>3, <1>4, <2>1, <2>2, <2>3 DEF ClientAgrees
<1>10. QED BY <1>4, <1>8, <1>9

LEMMA ConsumerKeepsStory ==
  ASSUME StreamInv, Consumes
  PROVE  QueueAgrees' /\ ClientAgrees'
<1>1. CASE TakeEvent \/ SendEvent
  BY <1>1, TakingKeepsStory, SendingKeepsStory
<1>2. CASE ~(TakeEvent \/ SendEvent)
  <2>1. /\ UNCHANGED <<agentVars, queue, sequence, holding, delivered>>
        /\ connected' => connected
    BY <1>2 DEF Consumes, StartGenerator, CheckConnection, JoinWorker, AbandonGenerator,
                DropUnstarted, Disconnect, CloseClients
  <2>2. UNCHANGED <<Published, IsOver>> /\ \A n : Event(n)' = Event(n)
    BY <2>1, StoryStands DEF agentVars, recommendVars
  <2>3. UNCHANGED <<Waiting, Taken, cancel_requested>>
    BY <2>1, <2>2 DEF Waiting, Taken, agentVars
  <2>4. /\ generator' \in {"yielding", "abandoned"} <=> generator \in {"yielding", "abandoned"}
        /\ Leaving' /\ cut' = "no" => Leaving /\ cut = "no"
        /\ ~Leaving' => ~Leaving
    <3>1. CASE StartGenerator \/ CheckConnection \/ JoinWorker
      BY <3>1 DEF StartGenerator, CheckConnection, JoinWorker, Leaving
    <3>2. CASE AbandonGenerator \/ DropUnstarted \/ Disconnect \/ CloseClients
      BY <3>2 DEF AbandonGenerator, DropUnstarted, Disconnect, CloseClients, Leaving
    <3>3. QED BY <1>2, <3>1, <3>2 DEF Consumes
  <2>5. QueueAgrees'
    BY <2>1, <2>2, <2>3, <2>4 DEF StreamInv, QueueAgrees
  <2>6. ClientAgrees'
    BY <2>1, <2>2, <2>3, <2>4 DEF StreamInv, ClientAgrees
  <2>7. QED BY <2>5, <2>6
<1>3. QED BY <1>1, <1>2

-----------------------------------------------------------------------------
LEMMA StreamNextKeepsInv == StreamInv /\ [StreamNext]_streamVars => StreamInv'
<1> SUFFICES ASSUME StreamInv, [StreamNext]_streamVars PROVE StreamInv'
  OBVIOUS
<1>1. CASE WorkerNext \/ DeadlineFires
  BY <1>1, WorkerKeepsAgreement, WorkerKeepsStory DEF StreamInv
<1>2. CASE EntersFinally
  BY <1>2, FinallyKeepsAgreement, FinallyKeepsStory DEF StreamInv
<1>3. CASE Consumes
  BY <1>3, ConsumerKeepsAgreement, ConsumerKeepsStory DEF StreamInv
<1>4. CASE UNCHANGED streamVars
  <2>1. UNCHANGED agentVars
        /\ UNCHANGED <<worker, queue, sequence, generator, holding, delivered, connected, cut,
                       clients>>
    BY <1>4 DEF streamVars, consumerVars
  <2>2. UNCHANGED <<progress, stage, failure, run_status, planning, result, cancel_requested>>
    BY <2>1 DEF agentVars, recommendVars
  <2>3. AgentInv'
    BY <2>1, AgentNextKeepsInv DEF StreamInv
  <2>4. WorkerAgrees' /\ GeneratorAgrees'
    BY <2>1, <2>2 DEF StreamInv, WorkerAgrees, GeneratorAgrees, IsActive, BuildsResponse,
                      Leaving, WorkerIsDone, ResponseIsOver
  <2>5. QueueAgrees' /\ ClientAgrees'
    BY <2>1, <2>2, StandingKeepsStory
  <2>6. QED BY <2>3, <2>4, <2>5 DEF StreamInv
<1>5. QED BY <1>1, <1>2, <1>3, <1>4, StreamSteps

(* The worker, the generator and the client always stand at consecutive     *)
(* places of one story, the run's, whatever is sent, lost, cut or cancelled.*)
THEOREM StreamInvariant == StreamSpec => []StreamInv
BY StreamInitEstablishesInv, StreamNextKeepsInv, PTL DEF StreamSpec

-----------------------------------------------------------------------------
(* The shape of the stream's state.                                         *)
THEOREM StreamTypeCorrect == StreamSpec => []StreamTypeOK
<1>1. StreamInv => StreamTypeOK
  <2> SUFFICES ASSUME StreamInv PROVE StreamTypeOK
    OBVIOUS
  <2>1. AgentTypeOK
    BY AgentInvIsTyped DEF StreamInv
  <2>2. /\ holding \in Events \cup {None}
        /\ holding # None <=> generator \in {"yielding", "abandoned"}
    <3>1. CASE generator \in {"yielding", "abandoned"}
      <4>1. PICK n \in 1..sequence : holding = Event(n)
        BY <3>1 DEF StreamInv, ClientAgrees
      <4>2. holding \in Events /\ holding # None
        BY <4>1, PublishedAreEvents, EventsAreNoMarkers DEF StreamInv, QueueAgrees
      <4>3. QED BY <3>1, <4>2
    <3>2. CASE generator \notin {"yielding", "abandoned"}
      BY <3>2 DEF StreamInv, ClientAgrees
    <3>3. QED BY <3>1, <3>2
  <2>3. QED BY <2>1, <2>2 DEF StreamInv, WorkerAgrees, GeneratorAgrees, QueueAgrees, ClientAgrees,
                              StreamTypeOK
<1>2. QED BY <1>1, StreamInvariant, PTL

(* Events, disconnection and cancellation disturb no promise of the run     *)
(* inside the worker: its result agrees with what it told, malformed calls  *)
(* gather nothing, the deadline's word is final, the requests stay in their *)
(* budget, and what is returned is backed.                                  *)
THEOREM StreamsKeepTheRunsPromises ==
  StreamSpec => [](/\ ResultAgreesWithProgress /\ MalformedCallsGatherNothing
                   /\ ExpiredRunTimesOut
                   /\ RequestBudget /\ ReturnedIsBacked
                   /\ ReportedRetriesHappened /\ NoPrematureFailure)
<1>1. StreamInv => AgentInv
  BY DEF StreamInv
<1>2. QED BY <1>1, RunsKeepTheirPromises, StreamInvariant, PTL

(* No worker is left running under closed clients.                          *)
THEOREM ClientsOutlastWorker == StreamSpec => []ClientsOutliveWorker
<1>1. StreamInv => ClientsOutliveWorker
  BY DEF StreamInv, GeneratorAgrees, ClientsOutliveWorker, ResponseIsOver
<1>2. QED BY <1>1, StreamInvariant, PTL

(* The last event of the story is the end of the run, and no other is one.  *)
LEMMA EndOfStory ==
  ASSUME AgentInv, NEW n \in 1..Published
  PROVE  IF n = Len(progress) + 2
         THEN \/ stage = "raised" /\ Body(n) = FailedEvent
              \/ stage = "returned" /\ BuildsResponse /\ Body(n) = CompletedEvent
         ELSE /\ n <= Len(progress) + 1
              /\ Body(n).kind \in {"started", "planning_started", "planning_completed", "tool_call",
                                   "recommendation_started"}
<1>1. /\ progress \in Seq(ProgressValues) /\ Len(progress) \in Nat
      /\ Len(TerminalEvents) \in {0, 1}
  BY ProgressIsASequence, TerminalData
<1>2. stage # "not_started" /\ n \in 1..(1 + Len(progress) + Len(TerminalEvents))
  BY DEF Published
<1>3. CASE n = Len(progress) + 2
  <2>1. Len(TerminalEvents) # 0 /\ n # 1 /\ ~(n <= Len(progress) + 1)
    BY <1>1, <1>2, <1>3
  <2>2. Body(n) = TerminalEvents[1]
    BY <2>1 DEF Body
  <2>3. TerminalEvents # <<>>
    BY <2>1, EmptySeq
  <2>4. QED BY <1>3, <2>2, <2>3 DEF TerminalEvents
<1>4. CASE n # Len(progress) + 2
  <2>1. n <= Len(progress) + 1 /\ n \in Nat /\ n >= 1
    <3>1. \A p \in Nat, t \in {0, 1} : \A m \in 1..(1 + p + t) :
            m # p + 2 => m <= p + 1 /\ m \in Nat /\ m >= 1
      OBVIOUS
    <3>2. QED BY ONLY <1>1, <1>2, <1>4, <3>1
  <2>2. CASE n = 1
    BY <1>4, <2>1, <2>2 DEF Body
  <2>3. CASE n # 1
    <3>1. n - 1 \in 1..Len(progress)
      BY <1>1, <2>1, <2>3
    <3>2. progress[n - 1] \in ProgressValues /\ Body(n) = ProgressEvent(progress[n - 1])
      BY <1>1, <2>1, <2>3, <3>1, ElementOfSeq DEF Body
    <3>3. \A p \in ProgressValues :
            ProgressEvent(p).kind \in {"planning_started", "planning_completed", "tool_call",
                                      "recommendation_started"}
      BY DEF ProgressValues, ProgressEvent, PlanningStarted, RecommendationStarted,
             PlanningCompleted, ToolCallCompleted
    <3>4. QED BY <1>4, <2>1, <3>2, <3>3
  <2>4. QED BY <2>2, <2>3
<1>5. QED BY <1>3, <1>4

(* A client that stays on a response nobody cuts misses nothing.            *)
THEOREM UncutStreamsAreComplete == StreamSpec => []UncutStreamIsComplete
<1>1. StreamInv => UncutStreamIsComplete
  <2> SUFFICES ASSUME StreamInv, generator = "closed", connected, cut = "no"
               PROVE  /\ Len(delivered) = sequence
                      /\ worker = "finished" => IsTerminal(Last(delivered))
    BY DEF UncutStreamIsComplete
  <2>1. Len(delivered) = sequence /\ IsOver /\ ~cancel_requested /\ sequence = Published
    BY DEF StreamInv, ClientAgrees, QueueAgrees, Leaving
  <2>2. ASSUME worker = "finished" PROVE IsTerminal(Last(delivered))
    <3>1. stage = "raised" \/ (stage = "returned" /\ BuildsResponse)
      <4>1. /\ stage \in {"returned", "raised", "cancelled"}
            /\ stage # "cancelled"
        BY <2>1 DEF StreamInv, WorkerAgrees, IsOver
      <4>2. stage = "returned" => BuildsResponse
        BY <2>2 DEF StreamInv, WorkerAgrees
      <4>3. QED BY <4>1, <4>2
    <3>2. Len(TerminalEvents) = 1
      BY <3>1 DEF TerminalEvents
    <3>3. sequence = Len(progress) + 2 /\ sequence \in 1..Published
      <4>1. Len(progress) \in Nat
        BY ProgressIsASequence DEF StreamInv
      <4>2. QED BY <2>1, <3>1, <3>2, <4>1 DEF Published
    <3>4. Last(delivered) = Event(sequence)
      BY <2>1, <3>3 DEF StreamInv, ClientAgrees, Last
    <3>5. Body(sequence) = FailedEvent \/ Body(sequence) = CompletedEvent
      BY <3>3, EndOfStory DEF StreamInv
    <3>6. QED BY <3>4, <3>5 DEF IsTerminal, Event, FailedEvent, CompletedEvent
  <2>3. QED BY <2>1, <2>2
<1>2. QED BY <1>1, StreamInvariant, PTL

(* What the two endpoints look up for a failure.                            *)
LEMMA OnePublicName ==
  ASSUME NEW class \in ErrorClasses
  PROVE  IF class \in RecommendationErrors
         THEN /\ PublicError(class) = RecommendationErrorDetails[class]
              /\ PublicError(class).status \in {429, 503, 504}
                   <=> PublicError(class).status \notin {422, 500, 502}
         ELSE PublicError(class) = InternalError /\ InternalError.status = 500
<1>1. class \notin {"RequestValidation", "HTTP_422", "HTTP_503"}
  BY DEF ErrorClasses, TransientError, FatalError
<1>2. CASE class \in RecommendationErrors
  <2>1. PublicError(class) = RecommendationErrorDetails[class]
    BY <1>1, <1>2 DEF PublicError
  <2>2. RecommendationErrorDetails[class].status \in {422, 429, 502, 503, 504}
    BY <1>2 DEF RecommendationErrors, RecommendationErrorDetails, Public
  <2>3. QED BY <1>2, <2>1, <2>2
<1>3. CASE class \notin RecommendationErrors
  BY <1>1, <1>3 DEF PublicError, InternalError, Public
<1>4. QED BY <1>2, <1>3

(* One failure has one public name, whichever endpoint tells it.            *)
THEOREM StreamsEndAsAnswers == StreamSpec => []TerminalEventIsTheJsonAnswer
<1>1. StreamInv => TerminalEventIsTheJsonAnswer
  <2> SUFFICES ASSUME StreamInv, delivered # <<>> PROVE TerminalEventIsTheJsonAnswer
    BY DEF TerminalEventIsTheJsonAnswer
  <2> DEFINE n == Len(delivered)
  <2>1. n \in 1..Published /\ Last(delivered) = Event(n)
    <3>1. delivered \in Seq(Events) /\ n <= sequence /\ sequence = Published
      BY DEF StreamInv, ClientAgrees, QueueAgrees
    <3>2. n \in Nat /\ n # 0 /\ Published \in Nat
      BY <3>1, LenProperties, EmptySeq, PublishedAreEvents DEF StreamInv
    <3>3. n \in 1..n
      BY <3>2
    <3>4. delivered[n] = Event(n)
      BY <3>3 DEF StreamInv, ClientAgrees
    <3>5. QED BY <3>1, <3>2, <3>4 DEF Last
  <2>2. Last(delivered).data = Body(n)
    BY <2>1 DEF Event
  <2> HIDE DEF n
  <2>3. CASE Body(n).kind = "completed"
    <3>1. stage = "returned" /\ BuildsResponse /\ Body(n) = CompletedEvent
      BY <2>1, <2>3, EndOfStory DEF StreamInv, FailedEvent
    <3>2. QED BY <2>2, <2>3, <3>1 DEF TerminalEventIsTheJsonAnswer, CompletedEvent, RunFailure
  <2>4. CASE Body(n).kind = "failed"
    <3>1. stage = "raised" /\ Body(n) = FailedEvent
      BY <2>1, <2>4, EndOfStory DEF StreamInv, CompletedEvent
    <3>2. RunFailure = failure /\ failure # None /\ failure \in ErrorClasses
      BY <3>1 DEF StreamInv, AgentInv, EndsAgree, RunFailure
    <3>3. /\ FailedEvent.code = PublicError(failure).code
          /\ FailedEvent.retryable <=> PublicError(failure).status \notin {422, 500, 502}
      <4>1. CASE failure \in RecommendationErrors
        <5>1. /\ FailedEvent.code = RecommendationErrorDetails[failure].code
              /\ FailedEvent.retryable
                   <=> RecommendationErrorDetails[failure].status \in {429, 503, 504}
          BY <4>1 DEF FailedEvent
        <5>2. QED BY <3>2, <4>1, <5>1, OnePublicName
      <4>2. CASE failure \notin RecommendationErrors
        <5>1. FailedEvent.code = InternalError.code /\ FailedEvent.retryable = FALSE
          BY <4>2 DEF FailedEvent
        <5>2. QED BY <3>2, <4>2, <5>1, OnePublicName
      <4>3. QED BY <4>1, <4>2
    <3>4. QED BY <2>2, <2>4, <3>1, <3>2, <3>3 DEF TerminalEventIsTheJsonAnswer
  <2>5. CASE Body(n).kind \notin {"completed", "failed"}
    BY <2>2, <2>5 DEF TerminalEventIsTheJsonAnswer
  <2>6. QED BY <2>3, <2>4, <2>5
<1>2. QED BY <1>1, StreamInvariant, PTL

(* A generator that is leaving has cancelled what could still ask.          *)
THEOREM LeavingStopsRequests == StreamSpec => NoRequestOnceLeaving
<1>1. StreamInv /\ [StreamNext]_streamVars =>
        [(generator \in {"joining", "closed"}) => UNCHANGED <<requests, planning>>]_streamVars
  <2> SUFFICES ASSUME StreamInv, StreamNext, Leaving
               PROVE  UNCHANGED <<requests, planning>>
    BY DEF Leaving
  <2>1. worker \in {"scheduled", "running"} => cancel_requested
    BY DEF StreamInv, GeneratorAgrees, WorkerIsDone
  <2>2. ~WorkerStarts
    BY <2>1 DEF WorkerStarts
  <2>3. CASE WorkerSteps
    <3>1. Interrupted
      BY <2>1, <2>3 DEF WorkerSteps, Interrupted
    <3>2. Unwind
      BY <2>3, <3>1
      DEF WorkerSteps, PlannerAnswers, RefusePlan, ExecutePlan, PlannerAnswersWith, FailPlanning,
          RecommendationAnswers, RecommendationWakesUp
    <3>3. QED BY <3>2 DEF Unwind, CancelRecommend, recommendVars
  <2>4. CASE WorkerNeverRuns \/ DeadlineFires
    BY <2>4 DEF WorkerNeverRuns, DeadlineFires, FireDeadline, agentVars, recommendVars
  <2>5. CASE EntersFinally
    BY <2>5 DEF EntersFinally, LeaveDisconnected, TakeStreamEnd, SendTimesOut, CancelResponse,
                FinalizeGenerator, EnterFinally, recommendVars
  <2>6. CASE Consumes
    BY <2>6 DEF Consumes, StartGenerator, CheckConnection, TakeEvent, JoinWorker, SendEvent,
                AbandonGenerator, DropUnstarted, Disconnect, CloseClients, agentVars, recommendVars
  <2>7. QED BY <2>2, <2>3, <2>4, <2>5, <2>6, StreamSteps DEF WorkerNext
<1>2. QED BY <1>1, StreamInvariant, PTL DEF StreamSpec, NoRequestOnceLeaving

-----------------------------------------------------------------------------
(* The story of a run without a recommendation is over at once.             *)
LEMMA RefusedStory ==
  ASSUME AgentInv, stage # "not_started", phase = "idle"
  PROVE  /\ Len(progress) \in {1, 2} /\ stage # "returned"
         /\ Body(1) = [kind |-> "started"] /\ Body(2) = [kind |-> "planning_started"]
         /\ Len(progress) = 2 =>
              /\ Body(3) = [kind |-> "planning_completed", requested |-> Len(planning.calls)]
              /\ Len(planning.calls) > MaxToolCalls
<1>1. stage # "returned"
  BY DEF AgentInv, StagesAgree
<1>2. CASE planning = None
  <2>1. progress = <<PlanningStarted>>
    BY <1>2 DEF AgentInv, ToldSoFar
  <2>2. Len(progress) = 1 /\ progress[1] = PlanningStarted
    BY <2>1
  <2>3. QED BY <1>1, <2>2 DEF Body, ProgressEvent, PlanningStarted
<1>3. CASE planning # None
  <2>1. progress = <<PlanningStarted, PlanningCompleted(planning)>>
        /\ Len(planning.calls) > MaxToolCalls
    BY <1>3 DEF AgentInv, ToldSoFar
  <2>2. /\ Len(progress) = 2 /\ progress[1] = PlanningStarted
        /\ progress[2] = PlanningCompleted(planning)
    BY <2>1
  <2>3. Body(1) = [kind |-> "started"] /\ Body(2) = ProgressEvent(PlanningStarted)
        /\ Body(3) = ProgressEvent(PlanningCompleted(planning))
    BY <2>2 DEF Body
  <2>4. QED BY <1>1, <2>1, <2>2, <2>3 DEF ProgressEvent, PlanningStarted, PlanningCompleted
<1>4. QED BY <1>2, <1>3

(* The story of a run that executed its plan.                               *)
LEMMA ExecutedStory ==
  ASSUME AgentInv, phase # "idle"
  PROVE  LET k == Len(tool_outcomes) IN
         /\ k \in Nat /\ k <= MaxToolCalls
         /\ Len(progress) = k + 3
         /\ Body(1) = [kind |-> "started"] /\ Body(2) = [kind |-> "planning_started"]
         /\ Body(3) = [kind |-> "planning_completed", requested |-> k]
         /\ \A i \in 1..k : Body(i + 3) = [kind |-> "tool_call",
                                         tool_call_id |-> tool_outcomes[i].call_id,
                                         status |-> tool_outcomes[i].status]
         /\ Body(k + 4) = [kind |-> "recommendation_started"]
<1> DEFINE k == Len(tool_outcomes)
<1>1. k \in Nat /\ k = Len(planning.calls) /\ k <= MaxToolCalls
  BY ReportsAreOutcomes DEF AgentInv, ToldSoFar
<1>2. /\ DOMAIN progress = 1..(k + 3)
      /\ progress[1] = PlanningStarted /\ progress[2] = PlanningCompleted(planning)
      /\ \A i \in 1..k : progress[i + 2] = ToolCallCompleted(tool_outcomes[i])
      /\ progress[k + 3] = RecommendationStarted
  BY DEF AgentInv, ToldSoFar, ToldInFull
<1>3. Len(progress) = k + 3
  <2>1. progress \in Seq(ProgressValues)
    BY ProgressIsASequence
  <2>2. Len(progress) \in Nat /\ 1..Len(progress) = 1..(k + 3)
    BY <1>2, <2>1, LenProperties
  <2>3. QED BY <1>1, <2>2
<1> HIDE DEF k
<1>4. Body(1) = [kind |-> "started"]
  BY DEF Body
<1>5. Body(2) = [kind |-> "planning_started"]
  <2>1. Body(2) = ProgressEvent(PlanningStarted)
    BY <1>1, <1>2, <1>3 DEF Body
  <2>2. QED BY <2>1 DEF ProgressEvent, PlanningStarted
<1>6. Body(3) = [kind |-> "planning_completed", requested |-> k]
  <2>1. Body(3) = ProgressEvent(PlanningCompleted(planning))
    BY <1>1, <1>2, <1>3 DEF Body
  <2>2. QED BY <1>1, <2>1 DEF ProgressEvent, PlanningCompleted
<1>7. ASSUME NEW i \in 1..k
      PROVE  Body(i + 3) = [kind |-> "tool_call", tool_call_id |-> tool_outcomes[i].call_id,
                            status |-> tool_outcomes[i].status]
  <2>1. i + 3 # 1 /\ i + 3 <= Len(progress) + 1 /\ (i + 3) - 1 = i + 2
    BY <1>1, <1>3
  <2>2. Body(i + 3) = ProgressEvent(progress[i + 2])
    BY <2>1 DEF Body
  <2>3. progress[i + 2] = ToolCallCompleted(tool_outcomes[i])
    BY <1>2
  <2>4. QED BY <2>2, <2>3 DEF ProgressEvent, ToolCallCompleted
<1>8. Body(k + 4) = [kind |-> "recommendation_started"]
  <2>1. k + 4 # 1 /\ k + 4 <= Len(progress) + 1 /\ (k + 4) - 1 = k + 3
    BY <1>1, <1>3
  <2>2. Body(k + 4) = ProgressEvent(RecommendationStarted)
    BY <1>2, <2>1 DEF Body
  <2>3. QED BY <2>2 DEF ProgressEvent, RecommendationStarted
<1>9. QED BY <1>1, <1>3, <1>4, <1>5, <1>6, <1>7, <1>8 DEF k

(* What was delivered is the beginning of the story.                        *)
LEMMA DeliveredStory ==
  StreamInv => /\ Len(delivered) \in Nat /\ Published \in Nat /\ sequence = Published
               /\ Len(delivered) <= Published
               /\ DOMAIN delivered = 1..Len(delivered)
               /\ \A n \in 1..Len(delivered) : delivered[n].id = n /\ delivered[n].data = Body(n)
<1> SUFFICES ASSUME StreamInv
             PROVE  /\ Len(delivered) \in Nat /\ Published \in Nat /\ sequence = Published
                    /\ Len(delivered) <= Published
                    /\ DOMAIN delivered = 1..Len(delivered)
                    /\ \A n \in 1..Len(delivered) :
                         delivered[n].id = n /\ delivered[n].data = Body(n)
  OBVIOUS
<1>1. /\ delivered \in Seq(Events) /\ Len(delivered) <= sequence /\ sequence = Published
      /\ \A n \in 1..Len(delivered) : delivered[n] = Event(n)
  BY DEF StreamInv, ClientAgrees, QueueAgrees
<1>2. Len(delivered) \in Nat /\ DOMAIN delivered = 1..Len(delivered)
  BY <1>1, LenProperties
<1>3. Published \in Nat
  BY PublishedAreEvents DEF StreamInv
<1>4. ASSUME NEW n \in 1..Len(delivered)
      PROVE  delivered[n].id = n /\ delivered[n].data = Body(n)
  <2>1. delivered[n] = Event(n)
    BY <1>1
  <2>2. QED BY <2>1 DEF Event
<1>5. QED BY <1>1, <1>2, <1>3, <1>4

(* What a completed stream cites, it has shown before.                      *)
THEOREM CitedToolsAreStreamed == StreamSpec => []CitedToolsWereStreamed
<1>1. StreamInv => CitedToolsWereStreamed
  <2> SUFFICES ASSUME StreamInv, NEW n \in DOMAIN delivered,
                      delivered[n].data.kind = "completed",
                      NEW e \in delivered[n].data.evidence, e.source = "tool_result"
               PROVE  \E m \in 1..(n - 1) :
                        /\ delivered[m].data.kind = "tool_call"
                        /\ delivered[m].data.tool_call_id = e.source_id
                        /\ delivered[m].data.status = "completed"
    BY DEF CitedToolsWereStreamed
  <2> DEFINE k == Len(tool_outcomes)
  <2>1. /\ Len(delivered) \in Nat /\ Len(delivered) <= Published /\ Published \in Nat
        /\ DOMAIN delivered = 1..Len(delivered)
        /\ \A m \in 1..Len(delivered) : delivered[m].data = Body(m)
    BY DeliveredStory
  <2>2. n \in 1..Len(delivered) /\ n \in 1..Published /\ Body(n).kind = "completed"
        /\ e \in Body(n).evidence
    BY <2>1
  <2>3. stage = "returned" /\ Body(n) = CompletedEvent /\ n = Len(progress) + 2
    BY <2>2, EndOfStory DEF StreamInv, FailedEvent
  <2>4. phase = "returned" /\ e \in result.recommendation.evidence
    BY <2>2, <2>3 DEF CompletedEvent, StreamInv, AgentInv, StagesAgree
  <2>5. /\ k \in Nat /\ n = k + 5
        /\ \A i \in 1..k : Body(i + 3) = [kind |-> "tool_call",
                                        tool_call_id |-> tool_outcomes[i].call_id,
                                        status |-> tool_outcomes[i].status]
    BY <2>3, <2>4, ExecutedStory DEF StreamInv
  <2>6. PICK i \in 1..k : tool_outcomes[i].call_id = e.source_id
                        /\ tool_outcomes[i].status = "completed"
    <3>1. e.source_id \in AllowedToolSourceIds(tool_outcomes)
      BY <2>4 DEF StreamInv, AgentInv, RetryInv, ResultAgrees, IsGrounded
    <3>2. DOMAIN tool_outcomes = 1..k
      BY <2>4, ReportsAreOutcomes DEF StreamInv, AgentInv, ToldSoFar, ExecuteToolCalls
    <3>3. QED BY <3>1, <3>2 DEF AllowedToolSourceIds, Range
  <2> HIDE DEF k
  <2>7. i + 3 \in 1..(n - 1) /\ i + 3 \in 1..Len(delivered)
    <3>1. n <= Len(delivered) /\ Len(delivered) \in Nat /\ n = k + 5 /\ k \in Nat
      BY <2>1, <2>2, <2>5
    <3>2. QED BY ONLY <3>1, <2>6
  <2>8. delivered[i + 3].data = Body(i + 3)
    BY <2>1, <2>7
  <2>9. /\ delivered[i + 3].data.kind = "tool_call"
        /\ delivered[i + 3].data.tool_call_id = e.source_id
        /\ delivered[i + 3].data.status = "completed"
    <3>1. Body(i + 3) = [kind |-> "tool_call", tool_call_id |-> tool_outcomes[i].call_id,
                         status |-> tool_outcomes[i].status]
      BY <2>5, <2>6, Zenon
    <3>2. QED BY <2>6, <2>8, <3>1
  <2>10. QED BY ONLY <2>7, <2>9
<1>2. QED BY <1>1, StreamInvariant, PTL

-----------------------------------------------------------------------------
(* What the contract looks up in what the client has received.              *)
LEMMA WhatWasHeard ==
  ASSUME StreamInv, NEW n \in 1..Published, Len(delivered) = n - 1
  PROVE  /\ n \in Nat /\ n >= 1 /\ DOMAIN delivered = 1..(n - 1)
         /\ \A m \in 1..(n - 1) : Contract!Kind(m) = Body(m).kind
         /\ n = 1 => Contract!LastKind = "nothing"
         /\ n # 1 => Contract!LastKind = Body(n - 1).kind
         /\ \A r : /\ n > 3
                   /\ Body(3) = [kind |-> "planning_completed", requested |-> r]
                   /\ \A m \in 1..(n - 1) : m # 3 => Body(m).kind # "planning_completed"
                   => Contract!Announced = r
<1>1. /\ n \in Nat /\ n >= 1 /\ DOMAIN delivered = 1..(n - 1)
      /\ \A m \in 1..(n - 1) : delivered[m].data = Body(m)
  <2>1. /\ DOMAIN delivered = 1..Len(delivered)
        /\ \A m \in 1..Len(delivered) : delivered[m].data = Body(m)
    BY DeliveredStory
  <2>2. n \in Nat /\ n >= 1
    BY DeliveredStory
  <2>3. QED BY <2>1, <2>2
<1>2. \A m \in 1..(n - 1) : Contract!Kind(m) = Body(m).kind
  BY <1>1 DEF Contract!Kind
<1>3. n = 1 => Contract!LastKind = "nothing"
  BY EmptySeq DEF Contract!LastKind, StreamInv, ClientAgrees
<1>4. ASSUME n # 1 PROVE Contract!LastKind = Body(n - 1).kind
  <2>1. n - 1 \in 1..(n - 1) /\ delivered # <<>>
    BY <1>1, <1>4
  <2>2. Contract!LastKind = Contract!Kind(n - 1)
    BY <2>1 DEF Contract!LastKind
  <2>3. QED BY <1>2, <2>1, <2>2
<1>5. ASSUME NEW r, n > 3,
             Body(3) = [kind |-> "planning_completed", requested |-> r],
             \A m \in 1..(n - 1) : m # 3 => Body(m).kind # "planning_completed"
      PROVE  Contract!Announced = r
  <2>1. 3 \in 1..(n - 1)
    BY <1>1, <1>5
  <2>2. \A m \in DOMAIN delivered : Contract!Kind(m) = "planning_completed" <=> m = 3
    BY <1>1, <1>2, <1>5, <2>1
  <2>3. (CHOOSE m \in DOMAIN delivered : Contract!Kind(m) = "planning_completed") = 3
    BY <1>1, <2>1, <2>2
  <2>4. Contract!Announced = delivered[3].data.requested
    BY <2>3 DEF Contract!Announced
  <2>5. QED BY <1>1, <1>5, <2>1, <2>4
<1>6. QED BY <1>1, <1>2, <1>3, <1>4, <1>5

(* The next event of a run that executed no plan.                           *)
LEMMA RefusedStoryIsLawful ==
  ASSUME StreamInv, NEW n \in 1..Published, Len(delivered) = n - 1, phase = "idle"
  PROVE  Contract!MayFollow(Body(n))
<1>1. /\ Len(progress) \in {1, 2} /\ stage # "returned"
      /\ Body(1) = [kind |-> "started"] /\ Body(2) = [kind |-> "planning_started"]
      /\ Len(progress) = 2 =>
           /\ Body(3) = [kind |-> "planning_completed", requested |-> Len(planning.calls)]
           /\ Len(planning.calls) > MaxToolCalls
  BY RefusedStory DEF StreamInv, Published
<1>2. /\ n = Len(progress) + 2 => Body(n).kind = "failed"
      /\ n <= Len(progress) + 2
  <2>1. n # Len(progress) + 2 => n <= Len(progress) + 1
    BY EndOfStory DEF StreamInv
  <2>2. n = Len(progress) + 2 => Body(n) = FailedEvent
    BY <1>1, EndOfStory DEF StreamInv
  <2>3. FailedEvent.kind = "failed"
    BY DEF FailedEvent
  <2>4. QED BY <1>1, <2>1, <2>2, <2>3
<1>3. n \in Nat /\ n \in {1, 2, 3, 4}
  <2>1. n \in Nat /\ n >= 1
    BY WhatWasHeard
  <2>2. Len(progress) \in {1, 2} /\ n <= Len(progress) + 2
    BY <1>1, <1>2
  <2>3. \A m \in Nat, l \in {1, 2} : m >= 1 /\ m <= l + 2 => m \in {1, 2, 3, 4}
    OBVIOUS
  <2>4. QED BY ONLY <2>1, <2>2, <2>3
<1>4. /\ n = 1 => Contract!LastKind = "nothing"
      /\ n # 1 => Contract!LastKind = Body(n - 1).kind
  BY WhatWasHeard
<1>5. CASE n = 1
  <2>1. Contract!LastKind = "nothing" /\ Body(n).kind = "started"
    BY <1>1, <1>4, <1>5
  <2>2. QED BY <2>1 DEF Contract!MayFollow
<1>6. CASE n = 2
  <2>1. n - 1 = 1 /\ n # 1
    BY <1>6
  <2>2. Contract!LastKind = "started" /\ Body(n).kind = "planning_started"
    BY <1>1, <1>4, <1>6, <2>1
  <2>3. QED BY <2>2 DEF Contract!MayFollow
<1>7. CASE n = 3
  <2>1. n - 1 = 2 /\ n # 1
    BY <1>7
  <2>2. Contract!LastKind = "planning_started"
    BY <1>1, <1>4, <2>1
  <2>3. Body(n).kind \in {"planning_completed", "failed"}
    <3>1. CASE Len(progress) = 1
      BY <1>2, <1>7, <3>1
    <3>2. CASE Len(progress) = 2
      BY <1>1, <1>7, <3>2
    <3>3. QED BY <1>1, <3>1, <3>2
  <2>4. QED BY <2>2, <2>3 DEF Contract!MayFollow
<1>8. CASE n = 4
  <2>1. n - 1 = 3 /\ n # 1 /\ n > 3 /\ Len(progress) = 2
    <3>1. Len(progress) \in {1, 2} /\ n <= Len(progress) + 2
      BY <1>1, <1>2
    <3>2. \A l \in {1, 2} : 4 <= l + 2 => l = 2
      OBVIOUS
    <3>3. Len(progress) = 2
      BY ONLY <1>8, <3>1, <3>2
    <3>4. 4 - 1 = 3 /\ 4 # 1 /\ 4 > 3
      OBVIOUS
    <3>5. QED BY ONLY <1>8, <3>3, <3>4
  <2>2. /\ Body(3) = [kind |-> "planning_completed", requested |-> Len(planning.calls)]
        /\ Len(planning.calls) > MaxToolCalls
    BY <1>1, <2>1
  <2>3. Body(n).kind = "failed"
    BY <1>2, <1>8, <2>1
  <2>4. Contract!LastKind = "planning_completed"
    BY <1>4, <2>1, <2>2
  <2>5. Contract!Announced = Len(planning.calls)
    <3>1. \A m \in 1..(n - 1) : m # 3 => Body(m).kind # "planning_completed"
      <4>1. \A m \in 1..(n - 1) : m # 3 => m = 1 \/ m = 2
        BY <2>1
      <4>2. QED BY <1>1, <4>1
    <3>2. QED BY <2>1, <2>2, <3>1, WhatWasHeard
  <2>6. QED BY <2>2, <2>3, <2>4, <2>5 DEF Contract!MayFollow
<1>9. QED BY <1>3, <1>5, <1>6, <1>7, <1>8

(* The contract counts with the same operator.                              *)
LEMMA SameCardinality == \A S : Contract!Cardinality(S) = Cardinality(S)
BY DEF Contract!Cardinality, Cardinality, Contract!IsFiniteSet, IsFiniteSet

(* The next event of a run that executed its plan.                          *)
LEMMA ExecutedStoryIsLawful ==
  ASSUME StreamInv, NEW n \in 1..Published, Len(delivered) = n - 1, phase # "idle"
  PROVE  Contract!MayFollow(Body(n))
<1> DEFINE k == Len(tool_outcomes)
<1>1. /\ k \in Nat /\ k <= MaxToolCalls /\ Len(progress) = k + 3
      /\ Body(1).kind = "started" /\ Body(2).kind = "planning_started"
      /\ Body(3) = [kind |-> "planning_completed", requested |-> k]
      /\ Body(k + 4).kind = "recommendation_started"
  BY ExecutedStory DEF StreamInv
<1>2. ASSUME NEW m \in 4..(k + 3)
      PROVE  Body(m).kind = "tool_call" /\ Body(m).status = tool_outcomes[m - 3].status
  <2>1. m - 3 \in 1..k /\ (m - 3) + 3 = m
    BY <1>1, <1>2
  <2>2. Body((m - 3) + 3) = [kind |-> "tool_call", tool_call_id |-> tool_outcomes[m - 3].call_id,
                             status |-> tool_outcomes[m - 3].status]
    BY <2>1, ExecutedStory, Zenon DEF StreamInv
  <2>3. QED BY <2>1, <2>2
<1>3. /\ n \in Nat /\ n >= 1 /\ DOMAIN delivered = 1..(n - 1)
      /\ \A m \in 1..(n - 1) : Contract!Kind(m) = Body(m).kind
      /\ n = 1 => Contract!LastKind = "nothing"
      /\ n # 1 => Contract!LastKind = Body(n - 1).kind
  BY WhatWasHeard
<1> HIDE DEF k
<1>4. n <= k + 5
  <2>1. n = Len(progress) + 2 \/ n <= Len(progress) + 1
    BY EndOfStory DEF StreamInv
  <2>2. \A a, l, b \in Nat : (a = l + 2 \/ a <= l + 1) /\ l = b + 3 => a <= b + 5
    OBVIOUS
  <2>3. Len(progress) \in Nat /\ Len(progress) = k + 3
    BY <1>1
  <2>4. QED BY ONLY <1>1, <1>3, <2>1, <2>2, <2>3
<1>5. n > 3 => Contract!Announced = k
  <2>1. ASSUME NEW m \in 1..(n - 1), m # 3 PROVE Body(m).kind # "planning_completed"
    <3>1. m = 1 \/ m = 2 \/ m \in 4..(k + 3) \/ m = k + 4
      BY ONLY <1>1, <1>3, <1>4, <2>1
    <3>2. QED BY <1>1, <1>2, <3>1
  <2>2. QED BY <1>1, <2>1, WhatWasHeard
<1>6. ASSUME n > 3
      PROVE  Contract!ToolCalls = {m \in 4..(k + 3) : m <= n - 1}
  <2>1. ASSUME NEW m \in 1..(n - 1)
        PROVE  Contract!Kind(m) = "tool_call" <=> m \in 4..(k + 3)
    <3>1. m = 1 \/ m = 2 \/ m = 3 \/ m \in 4..(k + 3) \/ m = k + 4
      BY ONLY <1>1, <1>3, <1>4, <2>1
    <3>2. 1 \notin 4..(k + 3) /\ 2 \notin 4..(k + 3) /\ 3 \notin 4..(k + 3)
          /\ k + 4 \notin 4..(k + 3)
      BY <1>1
    <3>3. Contract!Kind(m) = Body(m).kind
      BY <1>3
    <3>4. QED BY <1>1, <1>2, <3>1, <3>2, <3>3
  <2>2. \A m \in 4..(k + 3) : m <= n - 1 => m \in 1..(n - 1)
    BY <1>1, <1>3
  <2>3. \A m \in 1..(n - 1) : m <= n - 1
    BY <1>3
  <2>4. QED BY <1>3, <2>1, <2>2, <2>3 DEF Contract!ToolCalls
<1>7. CASE n = 1
  <2>1. Contract!LastKind = "nothing" /\ Body(n).kind = "started"
    BY <1>1, <1>3, <1>7
  <2>2. QED BY <2>1 DEF Contract!MayFollow
<1>8. CASE n = 2
  <2>1. n - 1 = 1 /\ n # 1
    BY <1>8
  <2>2. Contract!LastKind = "started" /\ Body(n).kind = "planning_started"
    BY <1>1, <1>3, <1>8, <2>1
  <2>3. QED BY <2>2 DEF Contract!MayFollow
<1>9. CASE n = 3
  <2>1. n - 1 = 2 /\ n # 1
    BY <1>9
  <2>2. Contract!LastKind = "planning_started" /\ Body(n).kind = "planning_completed"
    BY <1>1, <1>3, <1>9, <2>1
  <2>3. QED BY <2>2 DEF Contract!MayFollow
<1>10. ASSUME n > 3, n <= k + 4
       PROVE  /\ Contract!LastKind \in {"planning_completed", "tool_call"}
              /\ Contract!Cardinality(Contract!ToolCalls) = n - 4
  <2>1. n - 1 = 3 \/ n - 1 \in 4..(k + 3)
    BY ONLY <1>1, <1>3, <1>10
  <2>2. Contract!LastKind \in {"planning_completed", "tool_call"}
    BY <1>1, <1>2, <1>3, <1>10, <2>1
  <2>3. {m \in 4..(k + 3) : m <= n - 1} = 4..(n - 1)
    BY <1>1, <1>3, <1>10
  <2>4. Cardinality(4..(n - 1)) = n - 4
    <3>1. n - 1 \in Int /\ 4 \in Int
      BY <1>3
    <3>2. Cardinality(4..(n - 1)) = IF 4 > n - 1 THEN 0 ELSE (n - 1) - 4 + 1
      BY ONLY <3>1, FS_Interval
    <3>3. QED BY <1>3, <1>10, <3>2
  <2>5. QED BY <1>6, <1>10, <2>2, <2>3, <2>4, SameCardinality
<1>11. CASE n > 3 /\ n <= k + 3
  <2>1. n \in 4..(k + 3) /\ n <= k + 4 /\ n - 4 < k
    BY <1>1, <1>3, <1>11
  <2>2. Body(n).kind = "tool_call"
    BY <1>2, <2>1
  <2>3. QED BY <1>1, <1>5, <1>10, <1>11, <2>1, <2>2 DEF Contract!MayFollow
<1>12. CASE n = k + 4
  <2>1. n > 3 /\ n <= k + 4 /\ n - 4 = k
    BY <1>1, <1>12
  <2>2. Contract!AllToolCallsSent /\ Contract!Announced <= MaxToolCalls
    BY <1>1, <1>5, <1>10, <2>1 DEF Contract!AllToolCallsSent
  <2>3. QED BY <1>1, <1>12, <2>2 DEF Contract!MayFollow
<1>13. CASE n = k + 5
  <2>1. n > 3 /\ n # 1 /\ n - 1 = k + 4 /\ n = Len(progress) + 2
    BY <1>1, <1>13
  <2>2. Contract!LastKind = "recommendation_started"
    BY <1>1, <1>3, <2>1
  <2>3. CASE stage = "raised" /\ Body(n) = FailedEvent
    <3>1. Body(n).kind = "failed"
      BY <2>3 DEF FailedEvent
    <3>2. QED BY <2>2, <3>1 DEF Contract!MayFollow
  <2>4. CASE stage = "returned" /\ BuildsResponse /\ Body(n) = CompletedEvent
    <3>1. Body(n).kind = "completed" /\ Body(n).status = RunStatus(tool_outcomes)
      BY <2>4 DEF CompletedEvent, StreamInv, AgentInv, EndsAgree
    <3>2. Body(n).status = "partial" <=> \E i \in 1..k : tool_outcomes[i].status = "rejected"
      <4>1. DOMAIN tool_outcomes = 1..k
        BY ReportsAreOutcomes DEF StreamInv, AgentInv, ToldSoFar, ExecuteToolCalls, k
      <4>2. QED BY <3>1, <4>1 DEF RunStatus, Range
    <3>3. Contract!ToolCalls = 4..(k + 3)
      <4>1. \A m \in 4..(k + 3) : m <= n - 1
        BY <1>1, <2>1
      <4>2. QED BY <1>6, <2>1, <4>1
    <3>4. \A m \in 4..(k + 3) : delivered[m].data.status = tool_outcomes[m - 3].status
      <4>1. ASSUME NEW m \in 4..(k + 3) PROVE delivered[m].data = Body(m)
        <5>1. m \in 1..Len(delivered)
          BY <1>1, <2>1
        <5>2. QED BY <5>1, DeliveredStory
      <4>2. QED BY <1>2, <4>1
    <3>5. (\E i \in 1..k : tool_outcomes[i].status = "rejected")
            <=> \E m \in 4..(k + 3) : tool_outcomes[m - 3].status = "rejected"
      <4>1. \A i \in 1..k : i + 3 \in 4..(k + 3) /\ (i + 3) - 3 = i
        BY <1>1
      <4>2. \A m \in 4..(k + 3) : m - 3 \in 1..k
        BY <1>1
      <4>3. ASSUME NEW i \in 1..k, tool_outcomes[i].status = "rejected"
            PROVE  \E m \in 4..(k + 3) : tool_outcomes[m - 3].status = "rejected"
        <5>1. i + 3 \in 4..(k + 3) /\ tool_outcomes[(i + 3) - 3].status = "rejected"
          BY <4>1, <4>3
        <5>2. QED BY ONLY <5>1
      <4>4. QED BY ONLY <4>2, <4>3
    <3>6. Body(n).status = "partial"
            <=> \E m \in Contract!ToolCalls : delivered[m].data.status = "rejected"
      BY ONLY <3>2, <3>3, <3>4, <3>5
    <3>7. QED BY <2>2, <3>1, <3>6 DEF Contract!MayFollow
  <2>5. QED BY <2>1, <2>3, <2>4, EndOfStory DEF StreamInv
<1>14. n = 1 \/ n = 2 \/ n = 3 \/ (n > 3 /\ n <= k + 3) \/ n = k + 4 \/ n = k + 5
  BY ONLY <1>1, <1>3, <1>4
<1>15. QED BY <1>7, <1>8, <1>9, <1>11, <1>12, <1>13, <1>14

-----------------------------------------------------------------------------
(* A delivery to a client that stayed is one event of the contract.         *)
LEMMA DeliveryIsLawful ==
  ASSUME StreamInv, SendEvent, connected
  PROVE  Contract!Send
<1>1. /\ generator = "yielding" /\ generator' = "checking" /\ UNCHANGED cut
      /\ delivered' = Append(delivered, holding)
  BY DEF SendEvent
<1>2. ~ResponseIsOver /\ ~ResponseIsOver'
  BY <1>1 DEF StreamInv, GeneratorAgrees, Leaving, ResponseIsOver
<1>3. PICK n \in 1..sequence : n = Taken /\ holding = Event(n)
  BY <1>1 DEF StreamInv, ClientAgrees
<1>4. /\ holding \in Events /\ holding # None
      /\ delivered \in Seq(Events) /\ Len(delivered) \in Nat /\ n \in 1..Published
  BY <1>3, PublishedAreEvents, EventsAreNoMarkers, DeliveredStory
  DEF StreamInv, QueueAgrees, ClientAgrees
<1>5. n = Len(delivered) + 1
  BY <1>1, <1>3, <1>4 DEF StreamInv, ClientAgrees, Leaving
<1>6. /\ delivered' \in Seq(Events) /\ Len(delivered') = Len(delivered) + 1
      /\ \A m \in 1..Len(delivered) : delivered'[m] = delivered[m]
      /\ delivered'[Len(delivered) + 1] = holding
  BY <1>1, <1>4, AppendProperties
<1>7. Contract!Last(delivered') = Event(n) /\ Len(delivered') = n
  BY <1>3, <1>5, <1>6 DEF Contract!Last
<1>8. Contract!Front(delivered') = delivered
  <2> DEFINE front == SubSeq(delivered', 1, Len(delivered') - 1)
  <2>1. /\ 1 \in Int /\ Len(delivered') - 1 \in Int /\ Len(delivered') - 1 = Len(delivered)
        /\ \A m \in 1..(Len(delivered') - 1) : delivered'[m] \in Events
    BY <1>4, <1>6, ElementOfSeq
  <2>2. /\ front \in Seq(Events) /\ Len(front) = Len(delivered)
        /\ \A m \in 1..Len(delivered) : front[m] = delivered'[m]
    <3>1. /\ front \in Seq(Events)
          /\ Len(front) = IF 1 <= Len(delivered') - 1 THEN (Len(delivered') - 1) - 1 + 1 ELSE 0
          /\ \A m \in 1..((Len(delivered') - 1) - 1 + 1) : front[m] = delivered'[1 + m - 1]
      BY <2>1, SubSeqProperties
    <3>2. QED BY <1>4, <2>1, <3>1
  <2> HIDE DEF front
  <2>3. front = delivered
    BY <1>4, <1>6, <2>2, SeqEqual
  <2>4. QED BY <2>3 DEF Contract!Front, front
<1>9. Contract!MayFollow(Body(n))
  <2>1. Len(delivered) = n - 1
    BY <1>4, <1>5
  <2>2. CASE phase = "idle"
    BY <1>4, <2>1, <2>2, RefusedStoryIsLawful
  <2>3. CASE phase # "idle"
    BY <1>4, <2>1, <2>3, ExecutedStoryIsLawful
  <2>4. QED BY <2>2, <2>3
<1>10. QED BY <1>2, <1>6, <1>7, <1>8, <1>9 DEF Contract!Send, Event

(* Every other step ends the response or shows the client nothing.          *)
LEMMA StreamStepIsLawful ==
  StreamInv /\ [StreamNext]_streamVars => [Contract!Send \/ Contract!Close]_Contract!contractVars
<1> SUFFICES ASSUME StreamInv, [StreamNext]_streamVars
             PROVE  \/ Contract!Send \/ Contract!Close
                    \/ delivered' = delivered /\ ResponseIsOver' = ResponseIsOver
  BY DEF Contract!contractVars
<1>1. CASE SendEvent /\ connected
  BY <1>1, DeliveryIsLawful
<1>2. CASE ~(SendEvent /\ connected)
  <2>1. UNCHANGED delivered /\ (ResponseIsOver => ResponseIsOver')
    <3>1. CASE WorkerNext \/ DeadlineFires \/ UNCHANGED streamVars
      BY <3>1 DEF WorkerNext, WorkerStarts, WorkerNeverRuns, WorkerSteps, DeadlineFires,
                  streamVars, consumerVars, ResponseIsOver
    <3>2. CASE EntersFinally
      <4>1. UNCHANGED delivered /\ generator # "closed"
            /\ (UNCHANGED cut \/ generator # "abandoned")
        BY <3>2 DEF EntersFinally, LeaveDisconnected, TakeStreamEnd, SendTimesOut,
                    CancelResponse, FinalizeGenerator, EnterFinally
      <4>2. cut = "abandoned" => generator = "abandoned" \/ Leaving
        BY DEF StreamInv, GeneratorAgrees
      <4>3. ~Leaving
        BY <3>2 DEF EntersFinally, LeaveDisconnected, TakeStreamEnd, SendTimesOut,
                    CancelResponse, FinalizeGenerator, Leaving
      <4>4. QED BY <4>1, <4>2, <4>3 DEF ResponseIsOver
    <3>3. CASE Consumes
      <4>1. CASE StartGenerator \/ CheckConnection \/ TakeEvent \/ JoinWorker \/ SendEvent
        BY <1>2, <4>1 DEF StartGenerator, CheckConnection, TakeEvent, JoinWorker, SendEvent,
                          ResponseIsOver
      <4>2. CASE AbandonGenerator \/ Disconnect \/ CloseClients \/ DropUnstarted
        BY <4>2 DEF AbandonGenerator, DropUnstarted, Disconnect, CloseClients, ResponseIsOver
      <4>3. QED BY <3>3, <4>1, <4>2 DEF Consumes
    <3>4. QED BY <3>1, <3>2, <3>3, StreamSteps
  <2>2. CASE ~ResponseIsOver /\ ResponseIsOver'
    BY <2>1, <2>2 DEF Contract!Close
  <2>3. CASE ~(~ResponseIsOver /\ ResponseIsOver')
    <3>1. ResponseIsOver' = ResponseIsOver
      BY <2>1, <2>3 DEF ResponseIsOver
    <3>2. QED BY <2>1, <3>1
  <2>4. QED BY <2>2, <2>3
<1>3. QED BY <1>1, <1>2

(* The client receives nothing but the beginning of a lawful stream.        *)
THEOREM StreamRefinesContract == StreamSpec => ImplementsStreamContract
<1>1. StreamInit => Contract!ContractInit
  BY DEF StreamInit, Contract!ContractInit, ResponseIsOver
<1>2. QED BY <1>1, StreamStepIsLawful, StreamInvariant, PTL
          DEF StreamSpec, ImplementsStreamContract, Contract!ContractSpec

-----------------------------------------------------------------------------
(* The most events a stream can have: its start, the announcement and the   *)
(* report of a plan within the limit, and its end.                          *)
EventsAtMost == MaxToolCalls + 5

LEMMA EventsAreFew == AgentInv => Published \in 0..EventsAtMost
<1> SUFFICES ASSUME AgentInv PROVE Published \in 0..EventsAtMost
  OBVIOUS
<1>1. MaxToolCalls \in Nat /\ Len(TerminalEvents) \in 0..1
  BY LimitAssumption DEF TerminalEvents
<1>2. Len(progress) \in 0..(MaxToolCalls + 3)
  <2>1. CASE phase = "idle"
    <3>1. \/ progress = <<>>
          \/ progress = <<PlanningStarted>>
          \/ progress = <<PlanningStarted, PlanningCompleted(planning)>>
      BY <2>1 DEF AgentInv, ToldSoFar
    <3>2. Len(progress) \in 0..2
      BY <3>1
    <3>3. \A k \in 0..2 : k \in 0..(MaxToolCalls + 3)
      BY <1>1
    <3>4. QED BY <3>2, <3>3
  <2>2. CASE phase # "idle"
    <3>1. /\ progress \in Seq(ProgressValues)
          /\ DOMAIN progress = 1..(Len(tool_outcomes) + 3)
          /\ Len(planning.calls) <= MaxToolCalls
      BY <2>2 DEF AgentInv, ToldSoFar, ToldInFull
    <3>2. Len(tool_outcomes) = Len(planning.calls) /\ Len(planning.calls) \in Nat
      BY <2>2, ReportsAreOutcomes DEF AgentInv, ToldSoFar, ExecuteToolCalls
    <3>3. Len(progress) = Len(tool_outcomes) + 3
      BY <3>1, <3>2, LenProperties
    <3>4. QED BY <1>1, <3>1, <3>2, <3>3
  <2>3. QED BY <2>1, <2>2
<1>3. \A k \in 0..(MaxToolCalls + 3), l \in 0..1 :
        1 + k + l \in 0..(MaxToolCalls + 5) /\ 0 \in 0..(MaxToolCalls + 5)
  BY <1>1
<1>4. QED BY <1>1, <1>2, <1>3 DEF Published, EventsAtMost

(* The events that are still to be taken from the queue, the end marker     *)
(* included, whether they are published already or not.                     *)
ToBeTaken == (EventsAtMost - sequence) + Len(queue) + (IF IsOver THEN 0 ELSE 1)

(* For each event the generator looks at the connection, takes it, and has  *)
(* it sent.                                                                 *)
GeneratorStepsLeft ==
  CASE generator \in {"new", "yielding"} -> 4
    [] generator = "checking"            -> 3
    [] generator \in {"getting", "abandoned"} -> 2
    [] generator = "joining"             -> 1
    [] OTHER                             -> 0

(* The steps left to worker, generator, client and dependency.              *)
StreamStepsLeft ==
  RunStepsLeft + (IF worker \in {"absent", "scheduled"} THEN 1 ELSE 0)
  + 3 * ToBeTaken + GeneratorStepsLeft
  + (IF connected THEN 1 ELSE 0)
  + (CASE clients = "open" -> 2 [] clients = "planner_closed" -> 1 [] OTHER -> 0)

LEMMA StreamStepsAreCounted ==
  StreamInv => /\ RunStepsLeft \in Nat /\ ToBeTaken \in Nat /\ GeneratorStepsLeft \in Nat
               /\ StreamStepsLeft \in Nat
<1> SUFFICES ASSUME StreamInv
             PROVE  /\ RunStepsLeft \in Nat /\ ToBeTaken \in Nat /\ GeneratorStepsLeft \in Nat
                    /\ StreamStepsLeft \in Nat
  OBVIOUS
<1>1. RunStepsLeft \in Nat
  BY RunStepsAreCounted DEF StreamInv
<1>2. ToBeTaken \in Nat
  <2>1. sequence \in 0..EventsAtMost /\ EventsAtMost \in Nat
    BY EventsAreFew, LimitAssumption DEF StreamInv, QueueAgrees, EventsAtMost
  <2>2. Len(queue) \in Nat
    BY LenProperties DEF StreamInv, QueueAgrees
  <2>3. QED BY <2>1, <2>2 DEF ToBeTaken
<1>3. GeneratorStepsLeft \in Nat
  BY DEF GeneratorStepsLeft
<1>4. QED BY <1>1, <1>2, <1>3 DEF StreamStepsLeft

(* What the worker publishes is no longer to be published, and waits.       *)
LEMMA PublishedEventsWait ==
  ASSUME StreamInv, AgentInv', WorkerStarts \/ WorkerSteps
  PROVE  ToBeTaken' = ToBeTaken
<1>1. [AgentNext]_agentVars /\ AgentInv
  BY WorkerStepsOfTheRun DEF StreamInv, WorkerNext
<1>2. ~IsOver
  BY DEF StreamInv, WorkerAgrees, WorkerStarts, WorkerSteps, IsActive, IsOver
<1>3. \E events \in Seq(EventData) : Publish(events)
  <2>1. CASE WorkerStarts
    BY <1>1, <2>1, StartBeginsStory DEF WorkerStarts
  <2>2. CASE WorkerSteps
    <3>1. IsActive /\ stage' # "not_started"
      BY <2>2
      DEF StreamInv, WorkerAgrees, WorkerSteps, PlannerAnswers, RefusePlan, ExecutePlan,
          PlannerAnswersWith, FailPlanning, Fail, RecommendationAnswers, RecommendationWakesUp,
          FollowRecommend, Unwind, IsActive
    <3>2. ProgressEvents \o TerminalEvents' \in Seq(EventData)
      BY <1>1, <1>2, <3>1, StepContinuesStory
    <3>3. QED BY <2>2, <3>2 DEF WorkerSteps
  <2>3. QED BY <2>1, <2>2
<1>4. PICK events \in Seq(EventData) : Publish(events)
  BY <1>3
<1> DEFINE Q == Events \cup {STREAM_END}
<1>5. /\ sequence \in Nat /\ queue \in Seq(Q) /\ Len(queue) \in Nat /\ Len(events) \in Nat
      /\ Events \subseteq Q /\ STREAM_END \in Q
  BY EventsAreFew, LenProperties, LimitAssumption DEF StreamInv, QueueAgrees, EventsAtMost
<1> HIDE DEF Q
<1>6. /\ sequence' = sequence + Len(events)
      /\ Len(queue') = Len(queue) + Len(events) + IF IsOver' THEN 1 ELSE 0
  BY <1>4, <1>5, PublishAppends
<1>7. ToBeTaken' = (EventsAtMost - sequence') + Len(queue') + (IF IsOver' THEN 0 ELSE 1)
  BY DEF ToBeTaken, EventsAtMost
<1>8. EventsAtMost \in Nat
  BY LimitAssumption DEF EventsAtMost
<1>9. QED BY <1>2, <1>5, <1>6, <1>7, <1>8 DEF ToBeTaken

LEMMA WorkerUsesUpSteps ==
  ASSUME StreamInv, StreamInv', WorkerNext \/ DeadlineFires
  PROVE  StreamStepsLeft' < StreamStepsLeft
<1> DEFINE Rest == GeneratorStepsLeft + (IF connected THEN 1 ELSE 0)
                   + (CASE clients = "open" -> 2 [] clients = "planner_closed" -> 1 [] OTHER -> 0)
           unstarted == IF worker \in {"absent", "scheduled"} THEN 1 ELSE 0
<1>1. /\ RunStepsLeft \in Nat /\ ToBeTaken \in Nat /\ GeneratorStepsLeft \in Nat
      /\ (RunStepsLeft \in Nat)' /\ (ToBeTaken \in Nat)'
  <2>1. (StreamInv => RunStepsLeft \in Nat /\ ToBeTaken \in Nat)'
    BY StreamStepsAreCounted, PTL
  <2>2. QED BY <2>1, StreamStepsAreCounted
<1>2. UNCHANGED <<generator, connected, clients>>
  BY DEF WorkerNext, WorkerStarts, WorkerNeverRuns, WorkerSteps, DeadlineFires, consumerVars
<1>3. Rest' = Rest /\ Rest \in Nat
  BY <1>1, <1>2 DEF GeneratorStepsLeft
<1>4. unstarted \in 0..1 /\ unstarted' \in 0..1
  OBVIOUS
<1>5. /\ StreamStepsLeft = RunStepsLeft + unstarted + 3 * ToBeTaken + Rest
      /\ StreamStepsLeft' = RunStepsLeft' + unstarted' + 3 * ToBeTaken' + Rest'
  <2>1. StreamStepsLeft = RunStepsLeft + unstarted + 3 * ToBeTaken + Rest
    BY <1>1 DEF StreamStepsLeft
  <2>2. (GeneratorStepsLeft \in Nat)'
    BY DEF GeneratorStepsLeft
  <2>3. StreamStepsLeft' = RunStepsLeft' + unstarted' + 3 * ToBeTaken' + Rest'
    BY <1>1, <2>2 DEF StreamStepsLeft
  <2>4. QED BY <2>1, <2>3
<1>6. CASE WorkerStarts \/ WorkerSteps \/ DeadlineFires
  <2>1. AgentNext
    BY <1>6 DEF WorkerStarts, WorkerSteps, DeadlineFires, AgentNext, AgentStep
  <2>2. RunStepsLeft' < RunStepsLeft
    BY <2>1, RunStepsAreUsedUp DEF StreamInv
  <2>3. ToBeTaken' = ToBeTaken
    <3>1. CASE WorkerStarts \/ WorkerSteps
      BY <3>1, PublishedEventsWait DEF StreamInv
    <3>2. CASE DeadlineFires
      BY <3>2 DEF DeadlineFires, FireDeadline, ToBeTaken, IsOver
    <3>3. QED BY <1>6, <3>1, <3>2
  <2>4. unstarted' <= unstarted
    BY <1>6 DEF WorkerStarts, WorkerSteps, DeadlineFires
  <2> HIDE DEF Rest, unstarted
  <2>5. \A m, n, u, v, t, r \in Nat : n < m /\ v <= u =>
          n + v + 3 * t + r < m + u + 3 * t + r
    OBVIOUS
  <2>6. unstarted \in Nat /\ unstarted' \in Nat
    BY <1>4
  <2>7. RunStepsLeft' + unstarted' + 3 * ToBeTaken + Rest
          < RunStepsLeft + unstarted + 3 * ToBeTaken + Rest
    BY <1>1, <1>3, <2>2, <2>4, <2>5, <2>6
  <2>8. QED BY <1>3, <1>5, <2>3, <2>7
<1>7. CASE WorkerNeverRuns
  <2>1. UNCHANGED agentVars /\ UNCHANGED <<queue, sequence>> /\ unstarted = 1 /\ unstarted' = 0
    BY <1>7 DEF WorkerNeverRuns
  <2>2. RunStepsLeft' = RunStepsLeft /\ ToBeTaken' = ToBeTaken
    BY <2>1 DEF agentVars, recommendVars, RunStepsLeft, IsOver, StepsLeft, RequestsLeft, ToBeTaken
  <2> HIDE DEF Rest, unstarted
  <2>3. QED BY <1>1, <1>3, <1>5, <2>1, <2>2
<1>8. QED BY <1>6, <1>7 DEF WorkerNext

(* Taking the head of the queue leaves one less to be taken.                *)
LEMMA OneLessToBeTaken ==
  ASSUME StreamInv, queue # <<>>, queue' = Tail(queue), UNCHANGED <<sequence, stage>>
  PROVE  ToBeTaken' = ToBeTaken - 1
<1>1. queue \in Seq(Events \cup {STREAM_END})
  BY DEF StreamInv, QueueAgrees
<1>2. Len(queue') = Len(queue) - 1 /\ Len(queue) \in Nat
  BY <1>1
<1>3. UNCHANGED IsOver
  BY DEF IsOver
<1>4. ToBeTaken' = (EventsAtMost - sequence) + Len(queue') + (IF IsOver THEN 0 ELSE 1)
  BY <1>3 DEF ToBeTaken, EventsAtMost
<1>5. EventsAtMost \in Nat /\ sequence \in Nat
  BY EventsAreFew, LimitAssumption DEF StreamInv, QueueAgrees, EventsAtMost
<1>6. QED BY <1>2, <1>4, <1>5 DEF ToBeTaken

LEMMA FinallyUsesUpSteps ==
  ASSUME StreamInv, StreamInv', EntersFinally
  PROVE  StreamStepsLeft' < StreamStepsLeft
<1> DEFINE rest == (IF worker \in {"absent", "scheduled"} THEN 1 ELSE 0)
                   + (IF connected THEN 1 ELSE 0)
                   + (CASE clients = "open" -> 2 [] clients = "planner_closed" -> 1 [] OTHER -> 0)
<1>1. EnterFinally /\ generator \in {"checking", "getting", "yielding", "abandoned"}
      /\ (UNCHANGED queue \/ (queue # <<>> /\ queue' = Tail(queue)))
  BY DEF EntersFinally, LeaveDisconnected, TakeStreamEnd, SendTimesOut, CancelResponse,
         FinalizeGenerator
<1>2. /\ UNCHANGED recommendVars /\ UNCHANGED <<stage, deadline, sequence>>
      /\ UNCHANGED <<worker, connected, clients>>
      /\ generator' = "joining" /\ (cancel_requested => cancel_requested')
  BY <1>1 DEF EnterFinally
<1>3. RunStepsLeft \in Nat /\ ToBeTaken \in Nat /\ (RunStepsLeft \in Nat /\ ToBeTaken \in Nat)'
  <2>1. (StreamInv => RunStepsLeft \in Nat /\ ToBeTaken \in Nat)'
    BY StreamStepsAreCounted, PTL
  <2>2. QED BY <2>1, StreamStepsAreCounted
<1>4. RunStepsLeft' <= RunStepsLeft
  <2>1. StepsLeft' = StepsLeft /\ IsOver' = IsOver
    BY <1>2 DEF recommendVars, StepsLeft, RequestsLeft, IsOver
  <2>2. StepsLeft \in Nat
    BY StepsAreCounted DEF StreamInv, AgentInv
  <2>3. QED BY <1>2, <2>1, <2>2 DEF RunStepsLeft
<1>5. ToBeTaken' <= ToBeTaken
  <2>1. CASE UNCHANGED queue
    BY <1>2, <1>3, <2>1 DEF ToBeTaken, IsOver
  <2>2. CASE queue # <<>> /\ queue' = Tail(queue)
    BY <1>2, <1>3, <2>2, OneLessToBeTaken
  <2>3. QED BY <1>1, <2>1, <2>2
<1>6. GeneratorStepsLeft \in {2, 3, 4} /\ GeneratorStepsLeft' = 1
  BY <1>1, <1>2 DEF GeneratorStepsLeft
<1>7. rest \in Nat /\ rest' = rest
  BY <1>2
<1>8. /\ StreamStepsLeft = RunStepsLeft + 3 * ToBeTaken + GeneratorStepsLeft + rest
      /\ StreamStepsLeft' = RunStepsLeft' + 3 * ToBeTaken' + GeneratorStepsLeft' + rest'
  BY <1>3, <1>6 DEF StreamStepsLeft
<1> HIDE DEF rest
<1>9. \A m, n, t, u, r \in Nat, g \in {2, 3, 4} : n <= m /\ u <= t =>
        n + 3 * u + 1 + r < m + 3 * t + g + r
  OBVIOUS
<1>10. RunStepsLeft' + 3 * ToBeTaken' + 1 + rest
         < RunStepsLeft + 3 * ToBeTaken + GeneratorStepsLeft + rest
  BY <1>3, <1>4, <1>5, <1>6, <1>7, <1>9
<1>11. QED BY <1>6, <1>7, <1>8, <1>10

LEMMA ConsumerUsesUpSteps ==
  ASSUME StreamInv, StreamInv', Consumes
  PROVE  StreamStepsLeft' < StreamStepsLeft
<1> DEFINE unstarted == IF worker \in {"absent", "scheduled"} THEN 1 ELSE 0
           listening == IF connected THEN 1 ELSE 0
           unclosed == CASE clients = "open" -> 2 [] clients = "planner_closed" -> 1 [] OTHER -> 0
           place == unstarted + GeneratorStepsLeft + listening + unclosed
<1>1. UNCHANGED agentVars
  BY DEF Consumes, StartGenerator, CheckConnection, TakeEvent, JoinWorker, SendEvent,
         AbandonGenerator, DropUnstarted, Disconnect, CloseClients
<1>2. RunStepsLeft' = RunStepsLeft
  BY <1>1 DEF agentVars, recommendVars, RunStepsLeft, IsOver, StepsLeft, RequestsLeft
<1>3. RunStepsLeft \in Nat /\ ToBeTaken \in Nat /\ (ToBeTaken \in Nat)'
  <2>1. (StreamInv => ToBeTaken \in Nat)'
    BY StreamStepsAreCounted, PTL
  <2>2. QED BY <2>1, StreamStepsAreCounted
<1>4. place \in Nat /\ place' \in Nat
  BY DEF GeneratorStepsLeft
<1>5. /\ StreamStepsLeft = RunStepsLeft + 3 * ToBeTaken + place
      /\ StreamStepsLeft' = RunStepsLeft' + 3 * ToBeTaken' + place'
  <2>1. GeneratorStepsLeft \in Nat /\ GeneratorStepsLeft' \in Nat
    BY DEF GeneratorStepsLeft
  <2>2. QED BY <1>2, <1>3, <2>1 DEF StreamStepsLeft
<1>6. CASE TakeEvent
  <2>1. ToBeTaken' = ToBeTaken - 1
    BY <1>1, <1>6, OneLessToBeTaken DEF TakeEvent, agentVars
  <2>2. place' = place + 2
    BY <1>6 DEF TakeEvent, GeneratorStepsLeft
  <2> HIDE DEF place
  <2>3. \A m, t, r \in Nat : m + 3 * (t - 1) + (r + 2) < m + 3 * t + r
    OBVIOUS
  <2>4. RunStepsLeft + 3 * (ToBeTaken - 1) + (place + 2) < RunStepsLeft + 3 * ToBeTaken + place
    BY <1>3, <1>4, <2>3
  <2>5. QED BY <1>2, <1>5, <2>1, <2>2, <2>4
<1>7. CASE ~TakeEvent
  <2>1. ToBeTaken' = ToBeTaken
    <3>1. UNCHANGED <<queue, sequence>>
      BY <1>7 DEF Consumes, StartGenerator, CheckConnection, JoinWorker, SendEvent,
                  AbandonGenerator, DropUnstarted, Disconnect, CloseClients
    <3>2. QED BY <1>1, <3>1 DEF ToBeTaken, IsOver, agentVars
  <2>2. place' < place
    <3>1. CASE StartGenerator
      BY <3>1 DEF StreamInv, GeneratorAgrees, StartGenerator, GeneratorStepsLeft
    <3>2. CASE CheckConnection \/ JoinWorker \/ SendEvent \/ AbandonGenerator \/ DropUnstarted
      BY <3>2 DEF CheckConnection, JoinWorker, SendEvent, AbandonGenerator, DropUnstarted,
                  GeneratorStepsLeft
    <3>3. CASE Disconnect \/ CloseClients
      BY <3>3 DEF Disconnect, CloseClients, GeneratorStepsLeft
    <3>4. QED BY <1>7, <3>1, <3>2, <3>3 DEF Consumes
  <2> HIDE DEF place
  <2>3. \A m, t, n, r \in Nat : n < r => m + 3 * t + n < m + 3 * t + r
    OBVIOUS
  <2>4. RunStepsLeft + 3 * ToBeTaken + place' < RunStepsLeft + 3 * ToBeTaken + place
    BY <1>3, <1>4, <2>2, <2>3
  <2>5. QED BY <1>2, <1>5, <2>1, <2>4
<1>8. QED BY <1>6, <1>7

(* A stream cannot go round in circles, whoever drives it: every step of    *)
(* the worker, the generator, the response, the client or the dependency    *)
(* brings the end closer, so that all that releasing everything takes is    *)
(* that nobody stands still.                                                *)
THEOREM StreamsMakeProgress ==
  StreamSpec => [](StreamStepsLeft \in Nat) /\ [][StreamStepsLeft' < StreamStepsLeft]_streamVars
<1>1. StreamInv /\ StreamInv' /\ [StreamNext]_streamVars
        => [StreamStepsLeft' < StreamStepsLeft]_streamVars
  BY StreamSteps, WorkerUsesUpSteps, FinallyUsesUpSteps, ConsumerUsesUpSteps
<1>2. QED BY <1>1, StreamStepsAreCounted, StreamInvariant, PTL DEF StreamSpec
=============================================================================
