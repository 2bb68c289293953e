------------------------- MODULE VoiceRouting_proofs -------------------------
(***************************************************************************)
(* Theorems about the calls of route_to_agent that a voice session makes,  *)
(* for every number of frames, callers and texts and every set of labels:  *)
(* they do not overlap, the supervisor's counters account for them, and    *)
(* no reply is heard that is not among the executions counted.             *)
(***************************************************************************)
EXTENDS VoicePipeline_proofs, FiniteSetTheorems

USE DEF TaskQueue, Input, Vad, Asr, Filler, Bridge, Tts, Output, Sink

-----------------------------------------------------------------------------
(* What makes the properties hold, and is inductive *)

(* A turn is a text once its call has ended.                               *)
OutcomeFitsKind == \A i \in Frames : kind[i] = "text" <=> outcome[i] # "none"

(* The turn whose call runs is the next one the bridge handles.            *)
CallsRunAtHead ==
  \A i \in Frames : CallRuns(i) =>
    kind[i] = "transcription" /\ stage[i] = Bridge /\ \A j \in Frames : j < i => stage[j] > Bridge

(* A turn is heard as a reply if its call returned.                        *)
RepliesReturned ==
  \A n \in DOMAIN collected :
    collected[n].how = "reply" => outcome[collected[n].turn] = "returned"

CallsInv == OutcomeFitsKind /\ CallsRunAtHead /\ RepliesReturned

-----------------------------------------------------------------------------
(* The calls of a session *)

(* Nothing but the bridge goes on with a call, and that moves no frame.    *)
LEMMA ProgressShapes ==
  ASSUME [Next]_vars, ~UNCHANGED progress
  PROVE  \E i \in Frames : /\ Bridging(i)
                           /\ \E p : progress' = [progress EXCEPT ![i] = p]
                           /\ UNCHANGED <<kind, stage, collected, outcome>>
<1> USE DEF frameVars, asrVars, fillerVars, outputVars, outsideVars, processorVars,
            supervisorVars
<1>1. \E i \in Frames : BridgeRoutes(i)
  BY DEF Next, vars, Outside, StartRunner, InjectText, InjectEnd, InjectTimeout, AudioArrives,
       CallerHangsUp, SetText, ThresholdPasses, TaskTask, TaskPush, InputTask, InputPass, VadTask,
       VadPass, AsrTask, AsrTranscribe, AsrPass, FillerTask, FillerStep, BridgeTask, BridgeReply,
       BridgeApologise, BridgePass, TtsTask, TtsStep, OutputTask, OutputStep, Sup!Return, Sup!Raise
<1>2. PICK i \in Frames : BridgeRoutes(i)
  BY <1>1
<1>3. \E p : progress' = [progress EXCEPT ![i] = p]
  BY <1>2 DEF BridgeRoutes, Sup!Classify, Sup!Route, Sup!Execute
<1> QED
  BY <1>2, <1>3 DEF BridgeRoutes, Sup!Classify, Sup!Route, Sup!Execute

(* A frame that moves on, its own call not running, lets the others run.   *)
LEMMA MovingLetsRun ==
  ASSUME FramesTypeOK, CallsRunAtHead, NEW i \in Frames, NEW p \in 0..7, AtHead(i, p),
         stage' = Advanced(i), UNCHANGED progress, ~CallRuns(i)',
         \A j \in Frames : j # i => kind'[j] = kind[j] /\ outcome'[j] = outcome[j]
  PROVE  CallsRunAtHead'
<1> SUFFICES ASSUME NEW a \in Frames, CallRuns(a)'
             PROVE  /\ kind'[a] = "transcription" /\ stage'[a] = Bridge
                    /\ \A j \in Frames : j < a => stage'[j] > Bridge
  BY DEF CallsRunAtHead
<1>1. a # i /\ CallRuns(a)
  BY DEF CallRuns
<1>2. kind[a] = "transcription" /\ stage[a] = Bridge /\ \A j \in Frames : j < a => stage[j] > Bridge
  BY <1>1 DEF CallsRunAtHead
<1>3. \A j \in Frames : stage'[j] >= stage[j]
  BY AdvanceFacts
<1>4. \A j \in Frames : stage[j] \in Nat /\ stage'[j] \in Nat
  BY AdvanceFacts
<1>5. stage'[a] = stage[a] /\ kind'[a] = kind[a]
  BY <1>1, AdvanceFacts
<1> QED
  BY <1>2, <1>3, <1>4, <1>5

(* What is heard stays as it was while no call of it ends anew.            *)
LEMMA HeardStays ==
  ASSUME TypeOK, CollectedExactly, RepliesReturned, UNCHANGED collected,
         \A j \in Frames : kind[j] = "text" => outcome'[j] = outcome[j]
  PROVE  RepliesReturned'
<1>1. \A n \in DOMAIN collected : collected[n].turn \in Frames
  <2> DEFINE M == [turn : Frames, how : {"reply", "apology"}]
  <2>1. collected \in Seq(M) /\ \A m \in M : m.turn \in Frames
    BY DEF TypeOK, CollectedTypeOK
  <2> HIDE DEF M
  <2>2. \A n \in DOMAIN collected : collected[n] \in M
    BY <2>1
  <2> QED
    BY <2>1, <2>2
<1>2. \A n \in DOMAIN collected : kind[collected[n].turn] = "text"
  BY <1>1 DEF CollectedExactly, Answered
<1> QED
  BY <1>1, <1>2 DEF RepliesReturned

(* A reply that comes out is one that its agent has returned.              *)
LEMMA CollectStep ==
  ASSUME TypeOK, RepliesReturned, NEW i \in Frames, CollectShape(i)
  PROVE  RepliesReturned'
<1> DEFINE M == [turn : Frames, how : {"reply", "apology"}]
<1>1. UNCHANGED outcome
  BY DEF CollectShape
<1>2. collected \in Seq(M) /\ Message(i) \in M
  BY DEF TypeOK, CollectedTypeOK, Message
<1>3. Message(i).turn = i /\ (Message(i).how = "reply" => outcome[i] = "returned")
  BY DEF Message
<1>4. CASE UNCHANGED collected
  BY <1>1, <1>4 DEF RepliesReturned
<1>5. CASE collected' = Append(collected, Message(i))
  <2> DEFINE N == Len(collected)
  <2>1. /\ N \in Nat /\ DOMAIN collected = 1..N /\ DOMAIN collected' = 1..N + 1
        /\ collected'[N + 1] = Message(i)
        /\ \A n \in 1..N : collected'[n] = collected[n]
    BY <1>2, <1>5
  <2>2. \A n \in 1..N + 1 : n \in 1..N \/ n = N + 1
    BY <2>1
  <2> QED
    BY <1>1, <1>3, <2>1, <2>2 DEF RepliesReturned
<1> QED
  BY <1>4, <1>5 DEF CollectShape

(* Every step keeps the invariant.                                         *)
LEMMA CallsInvStep ==
  ASSUME TypeOK, PipelineInv, CallsInv, [Next]_vars
  PROVE  CallsInv'
<1> USE DEF CallsInv, PipelineInv
<1>1. /\ FramesTypeOK
      /\ \A j \in Frames : j \in Nat /\ stage[j] \in Nat
      /\ outcome \in [Frames -> Sup!Outcome] /\ progress \in [Frames -> Sup!Progress]
  <2>1. FramesTypeOK /\ Sup!SupervisorTypeOK
    BY DEF TypeOK
  <2>2. \A j \in Frames : j \in Nat /\ stage[j] \in Nat
    BY <2>1 DEF Frames, FramesTypeOK, Stages
  <2> QED
    BY <2>1, <2>2 DEF Sup!SupervisorTypeOK
<1>2. CASE ~UNCHANGED progress
  <2>1. PICK i \in Frames : /\ Bridging(i)
                            /\ \E p : progress' = [progress EXCEPT ![i] = p]
                            /\ UNCHANGED <<kind, stage, collected, outcome>>
    BY <1>2, ProgressShapes
  <2>2. \A j \in Frames : j # i => progress'[j] = progress[j]
    BY <1>1, <2>1
  <2>3. kind[i] = "transcription" /\ stage[i] = Bridge
        /\ \A j \in Frames : j < i => stage[j] > Bridge
    BY <2>1 DEF Bridging, AtHead
  <2>4. CallsRunAtHead'
    BY <2>1, <2>2, <2>3 DEF CallsRunAtHead, CallRuns
  <2> QED
    BY <2>1, <2>4 DEF OutcomeFitsKind, RepliesReturned
<1>3. ASSUME NEW k \in Kinds \ {"none", "text"}, QueueShape(k), UNCHANGED progress
      PROVE  CallsInv'
  <2> DEFINE n == sent + 1
  <2>1. n \in Frames /\ kind[n] = "none"
    BY <1>3, PipelineAssumption DEF QueueShape, FramesTypeOK, TypeOK, Frames, SentPrefix
  <2>2. kind'[n] # "text" /\ \A j \in Frames : j # n => kind'[j] = kind[j]
    BY <1>1, <1>3, <2>1 DEF QueueShape, FramesTypeOK
  <2>3. UNCHANGED <<stage, collected, outcome, progress>>
    BY <1>3 DEF QueueShape
  <2>4. OutcomeFitsKind' /\ RepliesReturned'
    BY <2>1, <2>2, <2>3 DEF OutcomeFitsKind, RepliesReturned
  <2>5. CallsRunAtHead'
    BY <2>1, <2>2, <2>3 DEF CallsRunAtHead, CallRuns
  <2> QED
    BY <2>4, <2>5
<1>4. ASSUME NEW i \in Frames, NEW p \in 0..7, AtHead(i, p), UNCHANGED progress,
             Moved(i) /\ UNCHANGED outcome /\ (p = Bridge => kind[i] # "transcription")
      PROVE  OutcomeFitsKind' /\ CallsRunAtHead'
  <2>1. stage[i] = p /\ ~CallRuns(i)
    BY <1>4 DEF AtHead, CallsRunAtHead
  <2>2. ~CallRuns(i)'
    BY <1>4, <2>1 DEF CallRuns
  <2>3. CallsRunAtHead'
    BY <1>1, <1>4, <2>2, MovingLetsRun DEF Moved
  <2> QED
    BY <1>4, <2>3 DEF Moved, OutcomeFitsKind
<1>5. ASSUME NEW i \in Frames, NEW p \in 0..6, MoveShape(i, p), UNCHANGED progress
      PROVE  CallsInv'
  <2>1. AtHead(i, p) /\ Moved(i) /\ UNCHANGED <<collected, outcome>>
        /\ (p = Bridge => kind[i] # "transcription")
    BY <1>5 DEF MoveShape
  <2> QED
    BY <1>4, <1>5, <2>1, HeardStays
<1>6. ASSUME NEW i \in Frames, TranscribeShape(i), UNCHANGED progress
      PROVE  CallsInv'
  <2>1. /\ AtHead(i, Asr) /\ kind[i] = "audio" /\ kind'[i] = "transcription"
        /\ stage' = Advanced(i) /\ UNCHANGED <<collected, outcome>>
        /\ \A j \in Frames : j # i => kind'[j] = kind[j]
    BY <1>1, <1>6 DEF TranscribeShape, MovedAs, FramesTypeOK
  <2>2. ~CallRuns(i)'
    BY <1>6, <2>1 DEF CallsRunAtHead, CallRuns
  <2>3. CallsRunAtHead'
    BY <1>1, <1>6, <2>1, <2>2, MovingLetsRun
  <2>4. OutcomeFitsKind'
    BY <2>1 DEF OutcomeFitsKind
  <2> QED
    BY <2>1, <2>3, <2>4, HeardStays
<1>7. ASSUME NEW i \in Frames, NEW o \in {"returned", "raised"}, AnswerShape(i, o),
             UNCHANGED progress
      PROVE  CallsInv'
  <2>1. /\ AtHead(i, Bridge) /\ kind[i] = "transcription" /\ kind'[i] = "text"
        /\ stage' = Advanced(i) /\ UNCHANGED collected
        /\ \A j \in Frames : j # i => kind'[j] = kind[j]
        /\ outcome'[i] = o /\ \A j \in Frames : j # i => outcome'[j] = outcome[j]
    BY <1>1, <1>7 DEF AnswerShape, Bridging, MovedAs, FramesTypeOK
  <2>2. ~CallRuns(i)'
    BY <2>1 DEF CallRuns
  <2>3. CallsRunAtHead'
    BY <1>1, <1>7, <2>1, <2>2, MovingLetsRun
  <2>4. OutcomeFitsKind'
    BY <2>1 DEF OutcomeFitsKind
  <2> QED
    BY <2>1, <2>3, <2>4, HeardStays
<1>8. ASSUME NEW i \in Frames, CollectShape(i), UNCHANGED progress
      PROVE  CallsInv'
  <2>1. AtHead(i, Output) /\ Moved(i) /\ UNCHANGED outcome
    BY <1>8 DEF CollectShape
  <2> QED
    BY <1>4, <1>8, <2>1, CollectStep
<1>9. CASE UNCHANGED Still /\ UNCHANGED progress
  BY <1>9 DEF Still, OutcomeFitsKind, CallsRunAtHead, CallRuns, RepliesReturned
<1> QED
  BY <1>2, <1>3, <1>5, <1>6, <1>7, <1>8, <1>9, StepShapes DEF SomeShape

(* It holds in every state, together with what it rests on.                *)
LEMMA CallsInvariant == Spec => [](TypeOK /\ PipelineInv /\ CallsInv)
<1>1. Init => CallsInv
  BY DEF Init, Sup!SupervisorInit, CallsInv, OutcomeFitsKind, CallsRunAtHead, CallRuns,
       RepliesReturned
<1>2. TypeOK /\ PipelineInv /\ CallsInv /\ [Next]_vars => CallsInv'
  BY CallsInvStep
<1> QED
  BY <1>1, <1>2, PipelineInvariant, PTL DEF Spec

(* However many turns are queued, no two calls of route_to_agent overlap:  *)
(* the one that runs is that of the turn at the bridge's head              *)
(* (agent_bridge.py:55).                                                   *)
THEOREM OneCallAtATimeAlways == Spec => []OneCallAtATime
<1>1. TypeOK /\ CallsInv => OneCallAtATime
  <2> SUFFICES ASSUME TypeOK, CallsInv, NEW i \in Frames, NEW j \in Frames,
                      CallRuns(i), CallRuns(j)
               PROVE  i = j
    BY DEF OneCallAtATime
  <2>1. i \in Nat /\ j \in Nat
    BY PipelineAssumption DEF Frames
  <2>2. ~(i < j) /\ ~(j < i)
    BY DEF CallsInv, CallsRunAtHead
  <2> QED
    BY <2>1, <2>2
<1> QED
  BY <1>1, CallsInvariant, PTL

-----------------------------------------------------------------------------
(* The supervisor inside a session: what is proved of it for calls of any  *)
(* kind holds of the calls that the bridge makes, one for each frame.      *)
Routing == INSTANCE Supervisor_proofs WITH Calls <- Frames

(* The two instances of Supervisor say the same.                           *)
LEMMA SameSupervisor ==
  /\ Sup!SupervisorInit <=> Routing!SupervisorInit
  /\ Sup!SupervisorNext <=> Routing!SupervisorNext
  /\ Sup!CountersAccountForCalls <=> Routing!CountersAccountForCalls
  /\ Sup!FunnelNarrows <=> Routing!FunnelNarrows
<1>1. /\ Sup!Intents = Routing!Intents /\ Sup!NoIntent = Routing!NoIntent
      /\ \A l : Sup!AgentFor(l) = Routing!AgentFor(l)
  BY DEF Sup!Intents, Routing!Intents, Sup!NoIntent, Routing!NoIntent, Sup!AgentFor,
         Routing!AgentFor, Sup!AgentMap, Routing!AgentMap
<1>2. Sup!SupervisorInit <=> Routing!SupervisorInit
  BY <1>1 DEF Sup!SupervisorInit, Routing!SupervisorInit
<1>3. Sup!SupervisorNext <=> Routing!SupervisorNext
  BY <1>1 DEF Sup!SupervisorNext, Routing!SupervisorNext, Sup!Classify, Routing!Classify,
       Sup!Route, Routing!Route, Sup!Execute, Routing!Execute, Sup!Return, Routing!Return,
       Sup!Raise, Routing!Raise, Sup!At, Routing!At
<1>4. \A l : /\ Sup!ClassifiedAs(l) = Routing!ClassifiedAs(l)
             /\ Sup!RoutedAs(l) = Routing!RoutedAs(l)
             /\ Sup!ExecutedBy(l) = Routing!ExecutedBy(l)
  BY <1>1 DEF Sup!ClassifiedAs, Routing!ClassifiedAs, Sup!RoutedAs, Routing!RoutedAs,
       Sup!ExecutedBy, Routing!ExecutedBy
<1>5. \A S : Sup!Cardinality(S) = Routing!Cardinality(S)
  BY Zenon DEF Sup!Cardinality, Routing!Cardinality
<1>6. Sup!CountersAccountForCalls <=> Routing!CountersAccountForCalls
  BY <1>1, <1>4, <1>5 DEF Sup!CountersAccountForCalls, Routing!CountersAccountForCalls
<1>7. Sup!FunnelNarrows <=> Routing!FunnelNarrows
  BY <1>1 DEF Sup!FunnelNarrows, Routing!FunnelNarrows
<1> QED
  BY <1>2, <1>3, <1>6, <1>7

(* A step of the session is one of the supervisor, or leaves it alone.     *)
LEMMA StepRoutes == [Next]_vars => [Sup!SupervisorNext]_supervisorVars
<1> SUFFICES ASSUME [Next]_vars, ~UNCHANGED supervisorVars
             PROVE  Sup!SupervisorNext
  OBVIOUS
<1>1. \E i \in Frames : BridgeRoutes(i) \/ BridgeReply(i) \/ BridgeApologise(i)
  BY DEF Next, vars, Outside, StartRunner, InjectText, InjectEnd, InjectTimeout, AudioArrives,
       CallerHangsUp, SetText, ThresholdPasses, TaskTask, TaskPush, InputTask, InputPass, VadTask,
       VadPass, AsrTask, AsrTranscribe, AsrPass, FillerTask, FillerStep, BridgeTask, BridgePass,
       TtsTask, TtsStep, OutputTask, OutputStep
<1> QED
  BY <1>1 DEF BridgeRoutes, BridgeReply, BridgeApologise, Sup!SupervisorNext

(* The frames of a session are finitely many, and what the supervisor's    *)
(* theorems assume holds.                                                  *)
LEMMA RoutingAssumptions ==
  /\ IsFiniteSet(Frames) /\ Routing!IsFiniteSet(Frames) /\ Sup!Intents = Routing!Intents
<1>1. IsFiniteSet(Frames)
  BY FS_Interval, PipelineAssumption DEF Frames
<1>2. Routing!IsFiniteSet(Frames)
  BY <1>1, Zenon DEF Routing!IsFiniteSet, IsFiniteSet
<1> QED
  BY <1>1, <1>2 DEF Sup!Intents, Routing!Intents

(* What the supervisor keeps, a session keeps.                             *)
LEMMA RoutingInvariant == Spec => []Routing!SupervisorInv
<1>1. Init => Routing!SupervisorInv
  BY RoutingAssumptions, SameSupervisor, Routing!SupervisorInvInit, LabelsAssumption DEF Init
<1>2. Routing!SupervisorInv /\ [Next]_vars => Routing!SupervisorInv'
  BY RoutingAssumptions, SameSupervisor, StepRoutes, Routing!SupervisorInvStep, LabelsAssumption
     DEF supervisorVars, Routing!supervisorVars
<1> QED
  BY <1>1, <1>2, PTL DEF Spec

(* Whatever raises in a session, the counters account for the calls its    *)
(* bridge has made, and form a funnel (agent_bridge.py:55, intent.py:56,   *)
(* supervisor.py:43, base.py:44).                                          *)
THEOREM TurnsAreAccountedFor == Spec => [](Sup!CountersAccountForCalls /\ Sup!FunnelNarrows)
<1>1. Routing!SupervisorInv => Routing!CountersAccountForCalls /\ Routing!FunnelNarrows
  BY RoutingAssumptions, Routing!FunnelFromInv, LabelsAssumption DEF Routing!SupervisorInv
<1>2. Routing!SupervisorInv => Sup!CountersAccountForCalls /\ Sup!FunnelNarrows
  BY <1>1, SameSupervisor
<1> QED
  BY <1>2, RoutingInvariant, PTL

(* Of each kind, no more replies are heard than executions are counted: a  *)
(* turn heard as a reply is one whose agent ran (transport.py:73,          *)
(* base.py:44).                                                            *)
THEOREM RepliesAreCountedAlways == Spec => []RepliesAreCounted
<1>1. ASSUME CallsInv, Routing!SupervisorInv
      PROVE  RepliesAreCounted
  <2> SUFFICES ASSUME NEW l \in Sup!Intents
               PROVE  Cardinality(RepliesHeard(l)) <= tool_execution_total[l]
    BY DEF RepliesAreCounted
  <2>1. \A i \in RepliesHeard(l) : i \in Frames /\ intent[i] = l /\ outcome[i] = "returned"
    BY <1>1 DEF RepliesHeard, CallsInv, RepliesReturned
  <2>2. \A i \in RepliesHeard(l) : progress[i] = "executed"
    BY <1>1, <2>1 DEF Routing!SupervisorInv, Routing!ReturnedHasExecuted
  <2>3. Sup!AgentFor(l) = l
    BY DEF Sup!AgentFor, Sup!AgentMap
  <2>4. RepliesHeard(l) \subseteq Sup!ExecutedBy(l) /\ Sup!ExecutedBy(l) \subseteq Frames
    BY <2>1, <2>2, <2>3 DEF Sup!ExecutedBy
  <2>5. Cardinality(RepliesHeard(l)) <= Cardinality(Sup!ExecutedBy(l))
    BY <2>4, RoutingAssumptions, FS_Subset
  <2>6. tool_execution_total[l] = Sup!Cardinality(Sup!ExecutedBy(l))
    BY <1>1, SameSupervisor DEF Routing!SupervisorInv, Sup!CountersAccountForCalls
  <2>7. \A S : Cardinality(S) = Sup!Cardinality(S)
    BY Zenon DEF Cardinality, Sup!Cardinality
  <2> QED
    BY <2>5, <2>6, <2>7
<1> QED
  BY <1>1, CallsInvariant, RoutingInvariant, PTL

=============================================================================
