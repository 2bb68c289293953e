------------------------ MODULE VoicePipeline_proofs ------------------------
(***************************************************************************)
(* Theorems about VoicePipeline, for every number of frames, callers and   *)
(* preloaded texts and every set of labels.                                *)
(***************************************************************************)
EXTENDS VoicePipeline, TLAPS

USE DEF TaskQueue, Input, Vad, Asr, Filler, Bridge, Tts, Output, Sink

-----------------------------------------------------------------------------
(* Type correctness *)

(* What a step leaves alone keeps its type. *)
LEMMA UnchangedTypes ==
  ASSUME TypeOK
  PROVE  /\ UNCHANGED <<sent, heard, frameVars>> => FramesTypeOK'
         /\ UNCHANGED <<pipelineReady, pendingText, fillerVars, lastClassification,
                        responseReady, samples>> => ProcessorsTypeOK'
         /\ UNCHANGED collected => CollectedTypeOK'
         /\ UNCHANGED <<caller, textsSet>> => OutsideTypeOK'
         /\ UNCHANGED supervisorVars => (Sup!SupervisorTypeOK)'
<1>1. UNCHANGED <<sent, heard, frameVars>> => FramesTypeOK'
  BY DEF TypeOK, FramesTypeOK, frameVars
<1>2. UNCHANGED <<pipelineReady, pendingText, fillerVars, lastClassification,
                  responseReady, samples>> => ProcessorsTypeOK'
  BY DEF TypeOK, ProcessorsTypeOK, fillerVars
<1>3. UNCHANGED collected => CollectedTypeOK'
  BY DEF TypeOK, CollectedTypeOK
<1>4. UNCHANGED <<caller, textsSet>> => OutsideTypeOK'
  BY DEF TypeOK, OutsideTypeOK
<1>5. UNCHANGED supervisorVars => (Sup!SupervisorTypeOK)'
  BY DEF TypeOK, supervisorVars, Sup!SupervisorTypeOK
<1> QED BY <1>1, <1>2, <1>3, <1>4, <1>5

(* A frame that is queued is well typed. *)
LEMMA QueueType ==
  ASSUME TypeOK, NEW k \in Kinds, NEW text \in {NoText, Injected}, Queue(k, text)
  PROVE  FramesTypeOK'
BY PipelineAssumption DEF TypeOK, FramesTypeOK, Queue, Frames

(* So is one that moves a stage on, changed or not, or is refused there. *)
LEMMA AdvanceType ==
  ASSUME TypeOK, NEW i \in Frames, NEW p \in 0..7, AtHead(i, p), sent' = sent,
         heard' \in [Frames -> Texts \cup {NoText, Canned, Injected}],
         Moved(i) \/ PassOn(i) \/ \E k \in Kinds : Become(i, k)
  PROVE  FramesTypeOK'
<1> USE DEF TypeOK, FramesTypeOK
<1>1. CASE Moved(i) \/ \E k \in Kinds : MovedAs(i, k)
  <2>1. stage' \in [Frames -> Stages]
    BY <1>1 DEF AtHead, Moved, MovedAs, Advanced, Stages
  <2>2. kind' \in [Frames -> Kinds]
    BY <1>1 DEF Moved, MovedAs
  <2> QED BY <2>1, <2>2
<1>2. CASE UNCHANGED frameVars
  BY <1>2 DEF frameVars
<1> QED BY <1>1, <1>2 DEF PassOn, Become

(* Incrementing one cell of a function into Nat leaves it one. *)
LEMMA CounterType ==
  ASSUME NEW S, NEW f \in [S -> Nat], NEW x
  PROVE  [f EXCEPT ![x] = @ + 1] \in [S -> Nat]
<1>1. CASE x \in S
  BY <1>1
<1>2. CASE x \notin S
  <2>1. \A y \in S : [f EXCEPT ![x] = @ + 1][y] = f[y]
    BY <1>2
  <2> QED BY <2>1
<1> QED BY <1>1, <1>2

(* The steps of a call keep the supervisor's variables well typed. *)
LEMMA SupervisorTypeStep ==
  ASSUME Sup!SupervisorTypeOK, NEW i \in Frames,
         \/ \E l \in Classifiable : Sup!Classify(i, l)
         \/ Sup!Route(i) \/ Sup!Execute(i) \/ Sup!Return(i) \/ Sup!Raise(i)
  PROVE  (Sup!SupervisorTypeOK)'
<1> USE DEF Sup!SupervisorTypeOK, Sup!Progress, Sup!Outcome
<1>1. ASSUME NEW l \in Classifiable, Sup!Classify(i, l)
      PROVE  (Sup!SupervisorTypeOK)'
  BY <1>1, LabelsAssumption DEF Sup!Classify
<1>2. CASE Sup!Route(i)
  <2>1. agent_routing_total' \in [Sup!Intents -> Nat]
    BY <1>2, CounterType DEF Sup!Route
  <2> QED BY <1>2, <2>1 DEF Sup!Route
<1>3. CASE Sup!Execute(i)
  <2>1. tool_execution_total' \in [Sup!Intents -> Nat]
    BY <1>3, CounterType DEF Sup!Execute
  <2> QED BY <1>3, <2>1 DEF Sup!Execute
<1>4. CASE Sup!Return(i)
  BY <1>4 DEF Sup!Return
<1>5. CASE Sup!Raise(i)
  BY <1>5 DEF Sup!Raise
<1> QED BY <1>1, <1>2, <1>3, <1>4, <1>5

(* Initially every variable has its type. *)
LEMMA TypeInit == Init => TypeOK
<1> SUFFICES ASSUME Init PROVE TypeOK
  OBVIOUS
<1> USE PipelineAssumption
<1>1. FramesTypeOK
  BY DEF Init, FramesTypeOK, Stages, Kinds
<1>2. ProcessorsTypeOK
  BY DEF Init, ProcessorsTypeOK
<1>5. OutsideTypeOK
  BY DEF Init, OutsideTypeOK
<1>3. CollectedTypeOK
  BY DEF Init, CollectedTypeOK
<1>4. Sup!SupervisorTypeOK
  BY DEF Init, Sup!SupervisorInit, Sup!SupervisorTypeOK, Sup!Progress, Sup!Outcome
<1> QED BY <1>1, <1>2, <1>3, <1>4, <1>5 DEF TypeOK

(* Every action keeps every type. *)
LEMMA TypeStep == TypeOK /\ [Next]_vars => TypeOK'
<1> SUFFICES ASSUME TypeOK, [Next]_vars
             PROVE  TypeOK'
  OBVIOUS
<1> USE UnchangedTypes DEF TypeOK, frameVars, asrVars, fillerVars, outputVars, outsideVars,
                           processorVars
<1>1. CASE StartRunner
  BY <1>1, "start" \in Kinds, QueueType DEF StartRunner, Kinds
<1>2. ASSUME NEW c \in Callers, InjectText(c)
      PROVE  TypeOK'
  <2>1. FramesTypeOK'
    BY <1>2, QueueType DEF InjectText, Kinds
  <2>2. OutsideTypeOK'
    BY <1>2 DEF InjectText, OutsideTypeOK
  <2> QED BY <1>2, <2>1, <2>2 DEF InjectText
<1>3. ASSUME NEW c \in Callers, InjectEnd(c)
      PROVE  TypeOK'
  <2>1. FramesTypeOK'
    BY <1>3, QueueType DEF InjectEnd, Kinds
  <2>2. OutsideTypeOK'
    BY <1>3 DEF InjectEnd, OutsideTypeOK
  <2> QED BY <1>3, <2>1, <2>2 DEF InjectEnd
<1>4. ASSUME NEW c \in Callers, InjectTimeout(c)
      PROVE  TypeOK'
  <2>1. OutsideTypeOK'
    BY <1>4 DEF InjectTimeout, OutsideTypeOK
  <2> QED BY <1>4, <2>1 DEF InjectTimeout
<1>5. CASE AudioArrives
  BY <1>5, QueueType DEF AudioArrives, Kinds
<1>6. CASE CallerHangsUp
  BY <1>6, QueueType DEF CallerHangsUp, Kinds
<1>7. CASE SetText
  <2>1. OutsideTypeOK' /\ ProcessorsTypeOK'
    BY <1>7, PipelineAssumption DEF SetText, OutsideTypeOK, ProcessorsTypeOK, Texts
  <2> QED BY <1>7, <2>1 DEF SetText
<1>8. CASE ThresholdPasses
  <2>1. ProcessorsTypeOK'
    BY <1>8 DEF ThresholdPasses, ProcessorsTypeOK
  <2> QED BY <1>8, <2>1 DEF ThresholdPasses
<1>9. ASSUME NEW i \in Frames, TaskPush(i)
      PROVE  TypeOK'
  BY <1>9, AdvanceType DEF TaskPush, FramesTypeOK
<1>10. ASSUME NEW i \in Frames, InputPass(i)
       PROVE  TypeOK'
  <2>1. FramesTypeOK'
    BY <1>10, AdvanceType DEF InputPass, FramesTypeOK
  <2>2. ProcessorsTypeOK'
    BY <1>10 DEF InputPass, ProcessorsTypeOK
  <2> QED BY <1>10, <2>1, <2>2 DEF InputPass
<1>11. ASSUME NEW i \in Frames, VadPass(i)
       PROVE  TypeOK'
  BY <1>11, AdvanceType DEF VadPass, FramesTypeOK
<1>12. ASSUME NEW i \in Frames, AsrTranscribe(i)
       PROVE  TypeOK'
  <2>1. TextToHear \in Texts \cup {NoText, Canned, Injected}
    BY DEF TextToHear
  <2>2. FramesTypeOK'
    BY <1>12, <2>1, AdvanceType DEF AsrTranscribe, FramesTypeOK, Kinds
  <2>3. ProcessorsTypeOK'
    BY <1>12 DEF AsrTranscribe, ProcessorsTypeOK
  <2> QED BY <1>12, <2>2, <2>3 DEF AsrTranscribe
<1>13. ASSUME NEW i \in Frames, AsrPass(i)
       PROVE  TypeOK'
  BY <1>13, AdvanceType DEF AsrPass, FramesTypeOK
<1>14. ASSUME NEW i \in Frames, FillerStep(i)
       PROVE  TypeOK'
  <2>1. FramesTypeOK'
    BY <1>14, AdvanceType DEF FillerStep, FramesTypeOK
  <2>2. ProcessorsTypeOK'
    BY <1>14 DEF FillerStep, ProcessorsTypeOK
  <2> QED BY <1>14, <2>1, <2>2 DEF FillerStep
<1>15. ASSUME NEW i \in Frames, BridgeRoutes(i)
       PROVE  TypeOK'
  <2>1. (Sup!SupervisorTypeOK)'
    BY <1>15, SupervisorTypeStep DEF BridgeRoutes
  <2> QED BY <1>15, <2>1 DEF BridgeRoutes
<1>16. ASSUME NEW i \in Frames, BridgeReply(i)
       PROVE  TypeOK'
  <2>1. FramesTypeOK'
    BY <1>16, AdvanceType DEF BridgeReply, Bridging, FramesTypeOK, Kinds
  <2>2. ProcessorsTypeOK'
    BY <1>16 DEF BridgeReply, ProcessorsTypeOK
  <2>3. (Sup!SupervisorTypeOK)'
    BY <1>16, SupervisorTypeStep DEF BridgeReply
  <2> QED BY <1>16, <2>1, <2>2, <2>3 DEF BridgeReply
<1>17. ASSUME NEW i \in Frames, BridgeApologise(i)
       PROVE  TypeOK'
  <2>1. FramesTypeOK'
    BY <1>17, AdvanceType DEF BridgeApologise, Bridging, FramesTypeOK, Kinds
  <2>2. (Sup!SupervisorTypeOK)'
    BY <1>17, SupervisorTypeStep DEF BridgeApologise
  <2> QED BY <1>17, <2>1, <2>2 DEF BridgeApologise
<1>18. ASSUME NEW i \in Frames, BridgePass(i)
       PROVE  TypeOK'
  BY <1>18, AdvanceType DEF BridgePass, FramesTypeOK
<1>19. ASSUME NEW i \in Frames, TtsStep(i)
       PROVE  TypeOK'
  <2>1. FramesTypeOK'
    BY <1>19, AdvanceType DEF TtsStep, FramesTypeOK
  <2>2. ProcessorsTypeOK'
    BY <1>19 DEF TtsStep, ProcessorsTypeOK
  <2> QED BY <1>19, <2>1, <2>2 DEF TtsStep
<1>20. ASSUME NEW i \in Frames, OutputStep(i)
       PROVE  TypeOK'
  <2>1. FramesTypeOK'
    BY <1>20, AdvanceType DEF OutputStep, FramesTypeOK
  <2>2. ProcessorsTypeOK'
    BY <1>20 DEF OutputStep, ProcessorsTypeOK
  <2>3. CollectedTypeOK'
    <3> DEFINE M == [turn : Frames, how : {"reply", "apology"}]
    <3>1. Message(i) \in M
      BY DEF Message
    <3>2. collected \in Seq(M)
      BY DEF CollectedTypeOK
    <3> HIDE DEF M
    <3>3. Append(collected, Message(i)) \in Seq(M)
      BY <3>1, <3>2
    <3>4. collected' \in Seq(M)
      BY <1>20, <3>2, <3>3 DEF OutputStep
    <3> QED BY <3>4 DEF CollectedTypeOK, M
  <2> QED BY <1>20, <2>1, <2>2, <2>3 DEF OutputStep
<1>21. CASE UNCHANGED vars
  BY <1>21 DEF vars
<1> QED
  BY <1>1, <1>2, <1>3, <1>4, <1>5, <1>6, <1>7, <1>8, <1>9, <1>10, <1>11, <1>12, <1>13,
     <1>14, <1>15, <1>16, <1>17, <1>18, <1>19, <1>20, <1>21
     DEF Next, Outside, TaskTask, InputTask, VadTask, AsrTask, FillerTask, BridgeTask,
         TtsTask, OutputTask

(* Every variable keeps its type: frames stay within the pipeline, the     *)
(* latency counts are natural numbers, the calls of route_to_agent well    *)
(* formed, the messages collected are replies or apologies to frames.      *)
THEOREM TypeCorrect == Spec => []TypeOK
BY TypeInit, TypeStep, PTL DEF Spec

-----------------------------------------------------------------------------
(* The shapes a step can have, as far as frames and answers are concerned *)

QueueShape(k) ==
  /\ sent < MaxFrames
  /\ sent' = sent + 1
  /\ kind' = [kind EXCEPT ![sent + 1] = k]
  /\ UNCHANGED <<stage, collected, lastClassification, outcome>>
  /\ k = "start" => sent = 0

MoveShape(i, p) ==
  /\ AtHead(i, p)
  /\ Moved(i)
  /\ p = Asr => kind[i] # "audio"
  /\ p = Bridge => kind[i] # "transcription"
  /\ p = TaskQueue => \A j \in Frames : j < i => kind[j] # "end"
  /\ p = Input => ~ChecksStarted
  /\ UNCHANGED <<sent, collected, lastClassification, outcome>>

TranscribeShape(i) ==
  /\ AtHead(i, Asr)
  /\ kind[i] = "audio"
  /\ MovedAs(i, "transcription")
  /\ UNCHANGED <<sent, collected, lastClassification, outcome>>

AnswerShape(i, o) ==
  /\ Bridging(i)
  /\ MovedAs(i, "text")
  /\ outcome' = [outcome EXCEPT ![i] = o]
  /\ lastClassification' = IF o = "returned" THEN i ELSE lastClassification
  /\ UNCHANGED <<sent, collected>>

CollectShape(i) ==
  /\ AtHead(i, Output)
  /\ Moved(i)
  /\ collected' = IF kind[i] = "text" THEN Append(collected, Message(i)) ELSE collected
  /\ UNCHANGED <<sent, lastClassification, outcome>>

Still == <<sent, kind, stage, collected, lastClassification, outcome>>

SomeShape ==
  \/ \E k \in Kinds \ {"none", "text"} : QueueShape(k)
  \/ \E i \in Frames, p \in 0..6 : MoveShape(i, p)
  \/ \E i \in Frames : TranscribeShape(i)
  \/ \E i \in Frames, o \in {"returned", "raised"} : AnswerShape(i, o)
  \/ \E i \in Frames : CollectShape(i)
  \/ UNCHANGED Still

(* Where a frame is past the first processor, what is pushed goes on. *)
LEMMA PushGoesOn ==
  ASSUME RefusedAtInput, NEW i \in Frames, NEW p \in 2..7, AtHead(i, p)
  PROVE  /\ ~ChecksStarted
         /\ PassOn(i) => Moved(i)
         /\ \A k : Become(i, k) => MovedAs(i, k)
<1>1. ~(stage[i] <= Input)
  BY DEF AtHead
<1>2. ~ChecksStarted
  BY <1>1 DEF RefusedAtInput
<1> QED BY <1>2 DEF PassOn, Become

(* Every step of the specification has one of these shapes. *)
LEMMA StepShapes ==
  ASSUME RefusedAtInput, [Next]_vars
  PROVE  SomeShape
<1> USE DEF frameVars, asrVars, fillerVars, outputVars, outsideVars, processorVars,
            supervisorVars
<1>1. ASSUME StartRunner \/ AudioArrives \/ CallerHangsUp
             \/ \E c \in Callers : InjectText(c) \/ InjectEnd(c)
      PROVE  \E k \in Kinds \ {"none", "text"} : QueueShape(k)
  <2>1. StartRunner => QueueShape("start")
    BY DEF StartRunner, Queue, QueueShape
  <2>2. AudioArrives => QueueShape("audio")
    BY DEF AudioArrives, Queue, QueueShape
  <2>3. CallerHangsUp => QueueShape("end")
    BY DEF CallerHangsUp, Queue, QueueShape
  <2>4. \A c \in Callers : InjectText(c) => QueueShape("transcription")
    BY DEF InjectText, Queue, QueueShape
  <2>5. \A c \in Callers : InjectEnd(c) => QueueShape("end")
    BY DEF InjectEnd, Queue, QueueShape
  <2> QED BY <1>1, <2>1, <2>2, <2>3, <2>4, <2>5 DEF Kinds
<1>2. ASSUME SetText \/ ThresholdPasses \/ UNCHANGED vars
             \/ \E c \in Callers : InjectTimeout(c)
      PROVE  UNCHANGED Still
  BY <1>2 DEF SetText, ThresholdPasses, InjectTimeout, Still, vars
<1>3. ASSUME NEW i \in Frames,
             TaskPush(i) \/ InputPass(i) \/ VadPass(i) \/ AsrPass(i) \/ FillerStep(i)
             \/ BridgePass(i) \/ TtsStep(i)
      PROVE  UNCHANGED Still \/ \E p \in 0..6 : MoveShape(i, p)
  <2>1. TaskPush(i) => MoveShape(i, TaskQueue)
    BY DEF TaskPush, MoveShape
  <2>2. InputPass(i) => UNCHANGED Still \/ MoveShape(i, Input)
    BY DEF InputPass, PassOn, MoveShape, Still
  <2>3. VadPass(i) => MoveShape(i, Vad)
    BY DEF VadPass, MoveShape
  <2>4. AsrPass(i) => MoveShape(i, Asr)
    BY PushGoesOn DEF AsrPass, MoveShape
  <2>5. FillerStep(i) => MoveShape(i, Filler)
    BY PushGoesOn DEF FillerStep, MoveShape
  <2>6. BridgePass(i) => MoveShape(i, Bridge)
    BY PushGoesOn DEF BridgePass, MoveShape
  <2>7. TtsStep(i) => MoveShape(i, Tts)
    BY PushGoesOn DEF TtsStep, MoveShape
  <2> QED BY <1>3, <2>1, <2>2, <2>3, <2>4, <2>5, <2>6, <2>7
<1>4. ASSUME NEW i \in Frames, AsrTranscribe(i)
      PROVE  TranscribeShape(i)
  BY <1>4, PushGoesOn DEF AsrTranscribe, TranscribeShape
<1>5. ASSUME NEW i \in Frames, BridgeReply(i)
      PROVE  AnswerShape(i, "returned")
  BY <1>5, PushGoesOn DEF BridgeReply, Bridging, Sup!Return, AnswerShape
<1>6. ASSUME NEW i \in Frames, BridgeApologise(i)
      PROVE  AnswerShape(i, "raised")
  BY <1>6, PushGoesOn DEF BridgeApologise, Bridging, Sup!Raise, AnswerShape
<1>7. ASSUME NEW i \in Frames, BridgeRoutes(i)
      PROVE  UNCHANGED Still
  BY <1>7 DEF BridgeRoutes, Sup!Classify, Sup!Route, Sup!Execute, Still
<1>8. ASSUME NEW i \in Frames, OutputStep(i)
      PROVE  CollectShape(i)
  BY <1>8, PushGoesOn DEF OutputStep, CollectShape
<1>9. CASE Outside \/ UNCHANGED vars
  BY <1>1, <1>2, <1>9 DEF SomeShape, Outside
<1>10. CASE TaskTask \/ InputTask \/ VadTask
  BY <1>3, <1>10 DEF SomeShape, TaskTask, InputTask, VadTask
<1>11. CASE AsrTask \/ FillerTask \/ TtsTask
  BY <1>3, <1>4, <1>11 DEF SomeShape, AsrTask, FillerTask, TtsTask
<1>12. CASE BridgeTask
  BY <1>3, <1>5, <1>6, <1>7, <1>12 DEF SomeShape, BridgeTask
<1>13. CASE OutputTask
  BY <1>8, <1>13 DEF SomeShape, OutputTask
<1> QED BY <1>9, <1>10, <1>11, <1>12, <1>13 DEF Next

-----------------------------------------------------------------------------
(* The inductive invariant *)

(* The frame at the head of a stage moves one stage on and the others stay *)
(* where they are, so that no frame is overtaken.                          *)
LEMMA AdvanceFacts ==
  ASSUME FramesTypeOK, NEW i \in Frames, NEW p \in 0..7, AtHead(i, p), stage' = Advanced(i)
  PROVE  /\ i \in Nat /\ stage[i] = p /\ stage'[i] = p + 1
         /\ \A j \in Frames : j # i => stage'[j] = stage[j]
         /\ \A j \in Frames : j \in Nat /\ stage[j] \in Nat /\ stage'[j] \in Nat
<1>1. \A j \in Frames : j \in Nat /\ stage[j] \in 0..8
  BY PipelineAssumption DEF FramesTypeOK, Stages, Frames
<1>2. /\ stage[i] = p /\ stage'[i] = p + 1
      /\ \A j \in Frames : j # i => stage'[j] = stage[j]
  BY DEF FramesTypeOK, AtHead, Advanced
<1>3. \A j \in Frames : stage'[j] \in Nat
  BY <1>1, <1>2
<1> QED BY <1>1, <1>2, <1>3

(* So the frames stay in the order they were queued in. *)
LEMMA AdvanceKeepsOrder ==
  ASSUME FramesTypeOK, QueueOrder,
         NEW i \in Frames, NEW p \in 0..7, AtHead(i, p), stage' = Advanced(i)
  PROVE  QueueOrder'
<1> SUFFICES ASSUME NEW a \in Frames, NEW b \in Frames, a < b
             PROVE  stage'[b] <= stage'[a]
  BY DEF QueueOrder
<1>1. stage[b] <= stage[a]
  BY DEF QueueOrder
<1>2. a < i => stage[a] > p
  BY DEF AtHead
<1> QED BY <1>1, <1>2, AdvanceFacts

(* A step that moves frame i, and gives it the kind k, keeps the frames    *)
(* queued, blocked and placed as the invariant says.                       *)
LEMMA AdvanceKeepsFrames ==
  ASSUME FramesTypeOK, SentPrefix, UnsentWaits, EndBlocks, KindAtStage, sent' = sent,
         NEW i \in Frames, NEW p \in 0..7, NEW k \in Kinds,
         AtHead(i, p), stage' = Advanced(i), kind' = [kind EXCEPT ![i] = k],
         k = kind[i] \/ (kind[i] = "audio" /\ k = "transcription" /\ p = Asr)
                     \/ (kind[i] = "transcription" /\ k = "text" /\ p = Bridge),
         p = Asr => kind[i] # "audio" \/ k # "audio",
         p = Bridge => kind[i] # "transcription" \/ k # "transcription",
         p = TaskQueue => \A j \in Frames : j < i => kind[j] # "end"
  PROVE  SentPrefix' /\ UnsentWaits' /\ EndBlocks' /\ KindAtStage'
<1>1. /\ kind'[i] = k
      /\ \A j \in Frames : j # i => kind'[j] = kind[j]
  BY DEF FramesTypeOK
<1>2. i <= sent /\ sent \in Nat
  BY DEF AtHead, FramesTypeOK
<1>3. SentPrefix'
  BY <1>1, <1>2, AdvanceFacts DEF SentPrefix
<1>4. UnsentWaits'
  BY <1>2, AdvanceFacts DEF UnsentWaits
<1>5. EndBlocks'
  <2> SUFFICES ASSUME NEW a \in Frames, NEW b \in Frames, b < a, kind'[b] = "end"
               PROVE  stage'[a] = TaskQueue
    BY DEF EndBlocks
  <2>1. kind[b] = "end"
    BY <1>1
  <2>2. stage[a] = TaskQueue
    BY <2>1 DEF EndBlocks
  <2> QED BY <2>1, <2>2, AdvanceFacts
<1>6. KindAtStage'
  BY <1>1, AdvanceFacts DEF KindAtStage
<1> QED BY <1>3, <1>4, <1>5, <1>6

(* The order, the bounds and the kinds of the frames need nothing but each *)
(* other.                                                                  *)
FrameInv == QueueOrder /\ SentPrefix /\ UnsentWaits /\ EndBlocks /\ KindAtStage

(* Where pushes are refused, no step takes a frame past the first          *)
(* processor.                                                              *)
LEMMA RefusedStep ==
  ASSUME FramesTypeOK, RefusedAtInput, SomeShape
  PROVE  RefusedAtInput'
<1>1. ASSUME NEW i \in Frames, NEW p \in 0..7, AtHead(i, p), stage' = Advanced(i),
             p = Input => ~ChecksStarted
      PROVE  RefusedAtInput'
  BY <1>1, AdvanceFacts DEF RefusedAtInput
<1>2. ASSUME UNCHANGED stage
      PROVE  RefusedAtInput'
  BY <1>2 DEF RefusedAtInput
<1>3. ASSUME NEW i \in Frames, NEW p \in 0..6, MoveShape(i, p)
      PROVE  RefusedAtInput'
  BY <1>1, <1>3 DEF MoveShape, Moved
<1>4. ASSUME NEW i \in Frames,
             \/ TranscribeShape(i)
             \/ \E o \in {"returned", "raised"} : AnswerShape(i, o)
             \/ CollectShape(i)
      PROVE  RefusedAtInput'
  <2>1. /\ AtHead(i, Asr) \/ AtHead(i, Bridge) \/ AtHead(i, Output)
        /\ stage' = Advanced(i)
    BY <1>4 DEF TranscribeShape, AnswerShape, CollectShape, Bridging, Moved, MovedAs
  <2> QED BY <2>1, <1>1
<1> QED BY <1>2, <1>3, <1>4 DEF SomeShape, QueueShape, Still

(* Every step keeps the frames in order, blocked and placed. *)
LEMMA FrameInvStep ==
  ASSUME FramesTypeOK, FrameInv, SomeShape
  PROVE  FrameInv'
<1> USE DEF FrameInv
<1>1. ASSUME NEW k \in Kinds \ {"none", "text"}, QueueShape(k)
      PROVE  FrameInv'
  <2>1. /\ sent \in Nat /\ sent + 1 \in Frames /\ sent' = sent + 1
        /\ kind'[sent + 1] = k /\ stage[sent + 1] = 0
        /\ \A j \in Frames : j \in Nat /\ (j # sent + 1 => kind'[j] = kind[j])
        /\ UNCHANGED stage
    BY <1>1, PipelineAssumption DEF QueueShape, FramesTypeOK, Frames, UnsentWaits
  <2>2. QueueOrder'
    BY <2>1 DEF QueueOrder
  <2>3. SentPrefix' /\ UnsentWaits'
    BY <2>1, <1>1 DEF SentPrefix, UnsentWaits
  <2>4. EndBlocks'
    BY <2>1 DEF EndBlocks, UnsentWaits
  <2>5. KindAtStage'
    BY <2>1 DEF KindAtStage
  <2> QED BY <2>2, <2>3, <2>4, <2>5
<1>2. ASSUME NEW i \in Frames, NEW p \in 0..7, AtHead(i, p), Moved(i), sent' = sent,
             p = Asr => kind[i] # "audio",
             p = Bridge => kind[i] # "transcription",
             p = TaskQueue => \A j \in Frames : j < i => kind[j] # "end"
      PROVE  FrameInv'
  <2>1. kind[i] \in Kinds /\ kind' = [kind EXCEPT ![i] = kind[i]]
    BY <1>2 DEF Moved, FramesTypeOK
  <2> QED BY <1>2, <2>1, AdvanceKeepsOrder, AdvanceKeepsFrames DEF Moved
<1>3. ASSUME NEW i \in Frames, TranscribeShape(i)
      PROVE  FrameInv'
  <2>1. /\ AtHead(i, Asr) /\ stage' = Advanced(i) /\ sent' = sent /\ kind[i] = "audio"
        /\ kind' = [kind EXCEPT ![i] = "transcription"]
        /\ "transcription" \in Kinds /\ Asr \in 0..7 /\ Asr # Bridge /\ Asr # TaskQueue
    BY <1>3 DEF TranscribeShape, MovedAs, Kinds
  <2>2. QueueOrder'
    BY <2>1, AdvanceKeepsOrder
  <2>3. SentPrefix' /\ UnsentWaits' /\ EndBlocks' /\ KindAtStage'
    BY <2>1, AdvanceKeepsFrames
  <2> QED BY <2>2, <2>3
<1>4. ASSUME NEW i \in Frames, NEW o \in {"returned", "raised"}, AnswerShape(i, o)
      PROVE  FrameInv'
  <2>1. /\ AtHead(i, Bridge) /\ stage' = Advanced(i) /\ sent' = sent
        /\ kind[i] = "transcription" /\ kind' = [kind EXCEPT ![i] = "text"]
        /\ "text" \in Kinds /\ Bridge \in 0..7 /\ Bridge # Asr /\ Bridge # TaskQueue
    BY <1>4 DEF AnswerShape, Bridging, MovedAs, Kinds
  <2>2. QueueOrder'
    BY <2>1, AdvanceKeepsOrder
  <2>3. SentPrefix' /\ UnsentWaits' /\ EndBlocks' /\ KindAtStage'
    BY <2>1, AdvanceKeepsFrames
  <2> QED BY <2>2, <2>3
<1>5. CASE UNCHANGED Still
  BY <1>5 DEF Still, QueueOrder, SentPrefix, UnsentWaits, EndBlocks, KindAtStage
<1>6. ASSUME NEW i \in Frames, NEW p \in 0..6, MoveShape(i, p)
      PROVE  FrameInv'
  BY <1>6, <1>2 DEF MoveShape
<1>7. ASSUME NEW i \in Frames, CollectShape(i)
      PROVE  FrameInv'
  BY <1>7, <1>2 DEF CollectShape
<1> QED BY <1>1, <1>3, <1>4, <1>5, <1>6, <1>7 DEF SomeShape

(* What has been collected grows by the text that leaves the pipeline, and *)
(* that text comes after all the others.                                   *)
LEMMA CollectedStep ==
  ASSUME FramesTypeOK, CollectedTypeOK, FrameInv, FrameInv', CollectedExactly, CollectedInOrder,
         SomeShape
  PROVE  CollectedExactly' /\ CollectedInOrder'
<1> DEFINE M == [turn : Frames, how : {"reply", "apology"}]
<1>1. ASSUME UNCHANGED collected,
             \A j \in Frames : (kind[j] = "text" /\ stage[j] = Sink)
                                <=> (kind'[j] = "text" /\ stage'[j] = Sink)
      PROVE  CollectedExactly' /\ CollectedInOrder'
  BY <1>1 DEF CollectedExactly, CollectedInOrder, Answered
<1>2. ASSUME NEW k \in Kinds \ {"none", "text"}, QueueShape(k)
      PROVE  CollectedExactly' /\ CollectedInOrder'
  <2>1. /\ sent + 1 \in Frames /\ kind[sent + 1] = "none" /\ kind'[sent + 1] # "text"
        /\ \A j \in Frames : j # sent + 1 => kind'[j] = kind[j]
        /\ UNCHANGED stage
    BY <1>2, PipelineAssumption DEF QueueShape, FramesTypeOK, Frames, FrameInv, SentPrefix
  <2> QED BY <2>1, <1>1, <1>2 DEF QueueShape
<1>3. ASSUME NEW i \in Frames, NEW p \in 0..6, AtHead(i, p), stage' = Advanced(i),
             \A j \in Frames : j # i => kind'[j] = kind[j], UNCHANGED collected
      PROVE  CollectedExactly' /\ CollectedInOrder'
  <2>1. stage[i] # Sink /\ stage'[i] # Sink /\ \A j \in Frames : j # i => stage'[j] = stage[j]
    BY <1>3, AdvanceFacts
  <2> QED BY <2>1, <1>1, <1>3
<1>4. ASSUME NEW i \in Frames, NEW p \in 0..6, MoveShape(i, p)
      PROVE  CollectedExactly' /\ CollectedInOrder'
  BY <1>3, <1>4 DEF MoveShape, Moved
<1>5. ASSUME NEW i \in Frames,
             TranscribeShape(i) \/ \E o \in {"returned", "raised"} : AnswerShape(i, o)
      PROVE  CollectedExactly' /\ CollectedInOrder'
  <2>1. /\ AtHead(i, Asr) \/ AtHead(i, Bridge)
        /\ stage' = Advanced(i)
        /\ \A j \in Frames : j # i => kind'[j] = kind[j]
        /\ UNCHANGED collected
    BY <1>5 DEF TranscribeShape, AnswerShape, Bridging, MovedAs, FramesTypeOK
  <2> QED BY <2>1, <1>3
<1>6. ASSUME NEW i \in Frames, CollectShape(i), kind[i] = "text"
      PROVE  CollectedExactly' /\ CollectedInOrder'
  <2> DEFINE N == Len(collected)
  <2>1. collected \in Seq(M) /\ Message(i) \in M /\ Message(i).turn = i
    BY DEF CollectedTypeOK, Message
  <2>2. collected' = Append(collected, Message(i))
    BY <1>6 DEF CollectShape
  <2>3. /\ N \in Nat
        /\ DOMAIN collected = 1..N
        /\ DOMAIN collected' = 1..(N + 1)
        /\ \A n \in 1..N : collected'[n] = collected[n]
        /\ collected'[N + 1] = Message(i)
    <3> HIDE DEF M
    <3> QED BY <2>1, <2>2
  <2>4. /\ i \in Nat /\ stage[i] = Output /\ stage'[i] = Sink
        /\ \A j \in Frames : j \in Nat /\ (j # i => stage'[j] = stage[j])
        /\ UNCHANGED kind
    BY <1>6, AdvanceFacts DEF CollectShape, Moved
  <2>5. \A n \in 1..N : /\ collected[n].turn \in Frames
                        /\ stage[collected[n].turn] = Sink
                        /\ collected[n].turn < i
    <3> SUFFICES ASSUME NEW n \in 1..N
                 PROVE  /\ collected[n].turn \in Frames
                        /\ stage[collected[n].turn] = Sink
                        /\ collected[n].turn < i
      OBVIOUS
    <3> DEFINE t == collected[n].turn
    <3>1. collected[n] \in M
      <4> HIDE DEF M
      <4> QED BY <2>1, <2>3
    <3>2. t \in Frames
      BY <3>1
    <3>3. stage[t] = Sink
      <4>1. n \in DOMAIN collected /\ collected[n].turn = t
        BY <2>3
      <4> HIDE DEF t
      <4>2. Answered(t)
        BY <4>1 DEF Answered
      <4> QED BY <3>2, <4>2 DEF CollectedExactly
    <3>4. ~(i < t) /\ t # i
      <4> HIDE DEF t
      <4>1. stage[i] = Output /\ Output # Sink /\ ~(Sink <= Output)
        BY <2>4
      <4>2. i < t => stage[t] <= stage[i]
        BY <3>2 DEF FrameInv, QueueOrder
      <4> QED BY <3>3, <4>1, <4>2
    <3>5. t < i
      <4>1. t \in Nat /\ i \in Nat
        BY <3>2, <2>4
      <4> HIDE DEF t
      <4> QED BY <4>1, <3>4
    <3> QED BY <3>2, <3>3, <3>5
  <2>6. CollectedInOrder'
    <3> SUFFICES ASSUME NEW m \in 1..(N + 1), NEW n \in 1..(N + 1), m < n
                 PROVE  collected'[m].turn < collected'[n].turn
      BY <2>3 DEF CollectedInOrder
    <3>1. CASE n \in 1..N
      BY <3>1, <2>3 DEF CollectedInOrder
    <3>2. CASE n = N + 1
      BY <3>2, <2>1, <2>3, <2>5
    <3> QED BY <2>3, <3>1, <3>2
  <2>7. CollectedExactly'
    <3> SUFFICES ASSUME NEW j \in Frames
                 PROVE  (\E n \in 1..(N + 1) : collected'[n].turn = j)
                          <=> (kind'[j] = "text" /\ stage'[j] = Sink)
      BY <2>3 DEF CollectedExactly, Answered
    <3>1. CASE j = i
      BY <3>1, <2>1, <2>3, <2>4, <1>6
    <3>2. CASE j # i
      <4>1. (\E n \in 1..(N + 1) : collected'[n].turn = j)
              <=> (\E n \in 1..N : collected[n].turn = j)
        BY <3>2, <2>1, <2>3
      <4> QED BY <4>1, <3>2, <2>3, <2>4 DEF CollectedExactly, Answered
    <3> QED BY <3>1, <3>2
  <2> QED BY <2>6, <2>7
<1>7. ASSUME NEW i \in Frames, CollectShape(i), kind[i] # "text"
      PROVE  CollectedExactly' /\ CollectedInOrder'
  <2>1. /\ \A j \in Frames : j # i => stage'[j] = stage[j]
        /\ UNCHANGED <<kind, collected>>
    BY <1>7, AdvanceFacts DEF CollectShape, Moved
  <2> QED BY <2>1, <1>1, <1>7
<1>8. CASE UNCHANGED Still
  BY <1>1, <1>8 DEF Still
<1> QED BY <1>2, <1>4, <1>5, <1>6, <1>7, <1>8 DEF SomeShape

(* The bridge remembers the turn it replied to last: the replies it made   *)
(* before are ahead of it in the pipeline, so they are to earlier turns.   *)
LEMMA ClassificationStep ==
  ASSUME FramesTypeOK, FrameInv, LastClassificationIsLastReply, SomeShape,
         lastClassification \in Frames \cup {0}, outcome \in [Frames -> Sup!Outcome]
  PROVE  LastClassificationIsLastReply'
<1> USE DEF LastClassificationIsLastReply, Replied
<1>1. ASSUME UNCHANGED <<lastClassification, outcome>>,
             \A j \in Frames : kind[j] = "text" <=> kind'[j] = "text"
      PROVE  LastClassificationIsLastReply'
  BY <1>1
<1>2. ASSUME NEW k \in Kinds \ {"none", "text"}, QueueShape(k)
      PROVE  LastClassificationIsLastReply'
  <2>1. /\ sent + 1 \in Frames /\ kind[sent + 1] = "none" /\ kind'[sent + 1] # "text"
        /\ \A j \in Frames : j # sent + 1 => kind'[j] = kind[j]
    BY <1>2, PipelineAssumption DEF QueueShape, FramesTypeOK, Frames, FrameInv, SentPrefix
  <2> QED BY <2>1, <1>1, <1>2 DEF QueueShape
<1>3. ASSUME NEW i \in Frames, TranscribeShape(i)
      PROVE  LastClassificationIsLastReply'
  <2>1. \A j \in Frames : kind[j] = "text" <=> kind'[j] = "text"
    BY <1>3 DEF TranscribeShape, MovedAs, FramesTypeOK
  <2> QED BY <2>1, <1>1, <1>3 DEF TranscribeShape
<1>4. ASSUME NEW i \in Frames, NEW o \in {"returned", "raised"}, AnswerShape(i, o)
      PROVE  LastClassificationIsLastReply'
  <2>1. /\ stage[i] = Bridge /\ kind[i] = "transcription" /\ kind'[i] = "text"
        /\ outcome'[i] = o
        /\ \A j \in Frames : j # i => kind'[j] = kind[j] /\ outcome'[j] = outcome[j]
        /\ \A j \in Frames : j \in Nat
    BY <1>4, PipelineAssumption DEF AnswerShape, Bridging, AtHead, MovedAs, FramesTypeOK, Frames
  <2>2. \A j \in Frames : kind[j] = "text" => j < i
    <3> SUFFICES ASSUME NEW j \in Frames, kind[j] = "text"
                 PROVE  j < i
      OBVIOUS
    <3>1. stage[j] > Bridge /\ j # i
      BY <2>1 DEF FrameInv, KindAtStage
    <3>2. ~(i < j)
      BY <2>1, <3>1, AdvanceFacts DEF FrameInv, QueueOrder, FramesTypeOK, Stages
    <3> QED BY <3>1, <3>2, <2>1
  <2>3. CASE o = "returned"
    <3>1. lastClassification' = i /\ i # 0
      BY <2>3, <1>4, PipelineAssumption DEF AnswerShape, Frames
    <3> QED BY <2>1, <2>2, <2>3, <3>1
  <2>4. CASE o = "raised"
    <3>1. lastClassification' = lastClassification
      BY <2>4, <1>4 DEF AnswerShape
    <3> QED BY <2>1, <2>4, <3>1
  <2> QED BY <2>3, <2>4
<1>5. ASSUME NEW i \in Frames, CollectShape(i) \/ \E p \in 0..6 : MoveShape(i, p)
      PROVE  LastClassificationIsLastReply'
  BY <1>1, <1>5 DEF CollectShape, MoveShape, Moved
<1>6. CASE UNCHANGED Still
  BY <1>1, <1>6 DEF Still
<1> QED BY <1>2, <1>3, <1>4, <1>5, <1>6 DEF SomeShape

(* PipelineInv is inductive relative to TypeOK. *)
LEMMA PipelineInvInit == Init => PipelineInv
<1> SUFFICES ASSUME Init PROVE PipelineInv
  OBVIOUS
<1> USE PipelineAssumption DEF Init
<1>1. QueueOrder /\ SentPrefix /\ UnsentWaits /\ EndBlocks /\ KindAtStage
  BY DEF QueueOrder, SentPrefix, UnsentWaits, EndBlocks, KindAtStage, Frames
<1>2. CollectedExactly /\ CollectedInOrder
  BY DEF CollectedExactly, CollectedInOrder, Answered
<1>3. LastClassificationIsLastReply
  BY DEF LastClassificationIsLastReply, Replied
<1>4. RefusedAtInput
  BY DEF RefusedAtInput
<1> QED BY <1>1, <1>2, <1>3, <1>4 DEF PipelineInv

(* Every step keeps it. *)
LEMMA PipelineInvStep == TypeOK /\ PipelineInv /\ [Next]_vars => PipelineInv'
<1> SUFFICES ASSUME TypeOK, PipelineInv, [Next]_vars
             PROVE  PipelineInv'
  OBVIOUS
<1>1. SomeShape
  BY StepShapes DEF PipelineInv
<1>2. FrameInv /\ FrameInv'
  BY <1>1, FrameInvStep DEF TypeOK, PipelineInv, FrameInv
<1>3. CollectedExactly' /\ CollectedInOrder'
  BY <1>1, <1>2, CollectedStep DEF TypeOK, PipelineInv
<1>4. LastClassificationIsLastReply'
  BY <1>1, <1>2, ClassificationStep
     DEF TypeOK, PipelineInv, ProcessorsTypeOK, Sup!SupervisorTypeOK
<1>5. RefusedAtInput'
  BY <1>1, RefusedStep DEF TypeOK, PipelineInv
<1> QED BY <1>2, <1>3, <1>4, <1>5 DEF PipelineInv, FrameInv

(* So it holds in every state, together with the types. *)
LEMMA PipelineInvariant == Spec => [](TypeOK /\ PipelineInv)
<1>1. Init => TypeOK /\ PipelineInv
  BY TypeInit, PipelineInvInit
<1>2. TypeOK /\ PipelineInv /\ [Next]_vars => (TypeOK /\ PipelineInv)'
  BY TypeStep, PipelineInvStep
<1> QED BY <1>1, <1>2, PTL DEF Spec

-----------------------------------------------------------------------------
(* What a caller can rely on *)

(* The invariant implies the safety properties the runs check. *)
LEMMA PipelineInvMeans ==
  ASSUME TypeOK, PipelineInv
  PROVE  /\ ClosedSessionAnsweredAll
         /\ AnswersOnceInOrder
         /\ LastClassificationIsLastReply
<1>1. ASSUME NEW e \in Frames, kind[e] = "end", stage[e] = Sink,
             NEW i \in AskedTurns
      PROVE  Answered(i)
  <2>1. i \in Frames /\ Turn(i) /\ ~(e < i) /\ i # e
    BY <1>1 DEF AskedTurns, Turn
  <2>2. i < e
    BY <2>1, PipelineAssumption DEF Frames
  <2>3. stage[i] = Sink
    BY <1>1, <2>1, <2>2 DEF PipelineInv, QueueOrder, TypeOK, FramesTypeOK, Stages
  <2>4. kind[i] = "text"
    BY <2>1, <2>3 DEF Turn, PipelineInv, KindAtStage
  <2> QED BY <2>1, <2>3, <2>4 DEF PipelineInv, CollectedExactly
<1>2. ASSUME NEW n \in DOMAIN collected
      PROVE  collected[n].turn \in AskedTurns
  <2> DEFINE t == collected[n].turn
  <2>1. t \in Frames
    <3> DEFINE M == [turn : Frames, how : {"reply", "apology"}]
    <3>1. collected \in Seq(M)
      BY DEF TypeOK, CollectedTypeOK
    <3> HIDE DEF M
    <3>2. collected[n] \in M
      BY <3>1, <1>2
    <3> QED BY <3>2 DEF M
  <2>2. kind[t] = "text" /\ stage[t] = Sink
    BY <2>1, <1>2 DEF PipelineInv, CollectedExactly, Answered
  <2>3. \A j \in Frames : j < t => kind[j] # "end"
    BY <2>1, <2>2 DEF PipelineInv, EndBlocks
  <2> QED BY <2>1, <2>2, <2>3 DEF AskedTurns, Turn
<1> QED
  BY <1>1, <1>2
     DEF ClosedSessionAnsweredAll, Closed, AnswersOnceInOrder, PipelineInv, CollectedInOrder

(* No hang-up, wherever it falls and whatever the agents do, lets the      *)
(* session end with a turn of its caller unanswered.                       *)
THEOREM ClosedSessionsAnswered == Spec => []ClosedSessionAnsweredAll
BY PipelineInvariant, PipelineInvMeans, PTL

(* The caller hears at most one answer for each turn, in the order asked,  *)
(* and none for what was said behind the hang-up.                          *)
THEOREM AnswersOnceInOrderAlways == Spec => []AnswersOnceInOrder
BY PipelineInvariant, PipelineInvMeans, PTL

(* last_classification is that of the latest turn the bridge replied to.   *)
THEOREM LastClassificationCorrect == Spec => []LastClassificationIsLastReply
BY PipelineInvariant, PipelineInvMeans, PTL

-----------------------------------------------------------------------------
(* The session takes turns: VoicePipeline implements TurnTaking *)

(* A new session has asked, answered and closed nothing. *)
LEMMA TurnsInit == Init => Turns!TurnInit
<1> SUFFICES ASSUME Init PROVE Turns!TurnInit
  OBVIOUS
<1>1. AskedTurns = {} /\ HungUp = FALSE /\ Closed = FALSE
  BY DEF Init, AskedTurns, Turn, HungUp, Closed
<1> QED BY <1>1 DEF Init, Turns!TurnInit

(* Queuing a frame asks a turn, hangs up, or, behind a hang-up and for the *)
(* StartFrame, does nothing the caller could notice.                       *)
LEMMA QueueRefines ==
  ASSUME TypeOK, PipelineInv, NEW k \in Kinds \ {"none", "text"}, QueueShape(k)
  PROVE  Turns!TurnNext \/ UNCHANGED Turns!turnVars
<1> DEFINE n == sent + 1
<1>1. /\ n \in Frames /\ n \in Nat /\ kind'[n] = k /\ kind[n] = "none" /\ stage[n] = 0
      /\ \A j \in Frames : /\ j \in Nat
                           /\ j # n => kind'[j] = kind[j]
                           /\ n < j => kind[j] = "none"
      /\ UNCHANGED <<stage, collected>>
  BY PipelineAssumption
     DEF QueueShape, TypeOK, FramesTypeOK, Frames, PipelineInv, SentPrefix, UnsentWaits
<1> HIDE DEF n
<1>2. Closed' = Closed
  BY <1>1 DEF Closed
<1>3. \A i \in AskedTurns : i < n
  BY <1>1 DEF AskedTurns, Turn
<1>4. AskedTurns \subseteq AskedTurns'
  BY <1>1, <1>3 DEF AskedTurns, Turn
<1>5. AskedTurns' \subseteq AskedTurns \cup {n}
  BY <1>1 DEF AskedTurns, Turn
<1>6. CASE HungUp
  <2>1. HungUp'
    BY <1>6, <1>1 DEF HungUp
  <2>2. n \notin AskedTurns'
    BY <1>6, <1>1 DEF HungUp, AskedTurns
  <2> QED BY <2>1, <2>2, <1>1, <1>2, <1>4, <1>5, <1>6 DEF Turns!turnVars, HungUp
<1>7. CASE ~HungUp /\ k = "end"
  <2>1. HungUp' = TRUE /\ HungUp = FALSE
    BY <1>7, <1>1 DEF HungUp
  <2>2. AskedTurns' = AskedTurns
    BY <1>7, <1>1, <1>4, <1>5 DEF AskedTurns, Turn
  <2>3. Turns!HangUp
    BY <2>1, <2>2, <1>1, <1>2 DEF Turns!HangUp
  <2> QED BY <2>3 DEF Turns!TurnNext
<1>8. CASE ~HungUp /\ k = "start"
  <2>1. HungUp' = HungUp
    BY <1>8, <1>1 DEF HungUp
  <2>2. AskedTurns' = AskedTurns
    BY <1>8, <1>1, <1>4, <1>5 DEF AskedTurns, Turn
  <2> QED BY <2>1, <2>2, <1>1, <1>2 DEF Turns!turnVars
<1>9. CASE ~HungUp /\ k \in {"audio", "transcription"}
  <2>1. HungUp' = FALSE /\ HungUp = FALSE
    BY <1>9, <1>1 DEF HungUp
  <2>2. n \in AskedTurns'
    BY <1>9, <1>1 DEF AskedTurns, Turn, HungUp
  <2>3. AskedTurns' = AskedTurns \cup {n}
    BY <2>2, <1>4, <1>5
  <2>4. Turns!Ask(n)
    BY <2>1, <2>3, <1>1, <1>2, <1>3 DEF Turns!Ask
  <2> QED BY <2>4, <1>1 DEF Turns!TurnNext
<1> QED BY <1>6, <1>7, <1>8, <1>9 DEF Kinds

(* A step that neither queues nor collects leaves the turns as they are.   *)
LEMMA QuietRefines ==
  ASSUME UNCHANGED collected,
         \A i \in Frames : Turn(i)' = Turn(i) /\ (kind'[i] = "end" <=> kind[i] = "end"),
         \A i \in Frames : kind[i] = "end" => (stage'[i] = Sink <=> stage[i] = Sink)
  PROVE  UNCHANGED Turns!turnVars
<1>1. AskedTurns' = AskedTurns
  BY DEF AskedTurns
<1>2. HungUp' = HungUp
  BY DEF HungUp
<1>3. Closed' = Closed
  BY DEF Closed
<1> QED BY <1>1, <1>2, <1>3 DEF Turns!turnVars

(* Collecting a text answers a turn; the EndFrame coming out closes.       *)
LEMMA CollectRefines ==
  ASSUME TypeOK, PipelineInv, NEW i \in Frames, CollectShape(i)
  PROVE  Turns!TurnNext \/ UNCHANGED Turns!turnVars
<1>1. /\ i \in Nat /\ stage[i] = Output /\ stage'[i] = Sink
      /\ \A j \in Frames : j \in Nat /\ (j # i => stage'[j] = stage[j])
      /\ UNCHANGED <<kind, outcome>>
  BY AdvanceFacts DEF CollectShape, Moved, TypeOK
<1>2. AskedTurns' = AskedTurns /\ HungUp' = HungUp
  BY <1>1 DEF AskedTurns, HungUp, Turn
<1>3. ~Closed
  <2> SUFFICES ASSUME NEW e \in Frames, kind[e] = "end", stage[e] = Sink
               PROVE  FALSE
    BY DEF Closed
  <2>1. ~(e < i)
    BY <1>1 DEF PipelineInv, EndBlocks
  <2>2. ~(i < e)
    BY <1>1 DEF PipelineInv, QueueOrder
  <2> QED BY <1>1, <2>1, <2>2
<1>4. \A j \in Frames : j < i /\ Turn(j) => Answered(j)
  <2> SUFFICES ASSUME NEW j \in Frames, j < i, Turn(j)
               PROVE  Answered(j)
    OBVIOUS
  <2>1. stage[j] = Sink
    BY <1>1 DEF CollectShape, AtHead, TypeOK, FramesTypeOK, Stages
  <2>2. kind[j] = "text"
    BY <2>1 DEF Turn, PipelineInv, KindAtStage
  <2> QED BY <2>1, <2>2 DEF PipelineInv, CollectedExactly
<1>5. CASE kind[i] = "text"
  <2>1. i \in AskedTurns
    BY <1>1, <1>5 DEF AskedTurns, Turn, PipelineInv, EndBlocks
  <2>2. ~Answered(i)
    BY <1>1 DEF PipelineInv, CollectedExactly
  <2>3. PICK h \in Turns!How : collected' = Append(collected, [turn |-> i, how |-> h])
    BY <1>5 DEF CollectShape, Message, Turns!How
  <2>4. Closed' = Closed
    BY <1>1, <1>5 DEF Closed
  <2>5. Turns!Answer(i, h)
    BY <1>2, <1>3, <1>4, <2>1, <2>2, <2>3, <2>4
       DEF Turns!Answer, Turns!Answered, Answered, AskedTurns
  <2> QED BY <2>5, <2>3 DEF Turns!TurnNext
<1>6. CASE kind[i] = "end"
  <2>1. Closed' = TRUE /\ collected' = collected /\ HungUp
    BY <1>1, <1>6 DEF Closed, HungUp, CollectShape
  <2>2. \A t \in AskedTurns : Answered(t)
    <3> SUFFICES ASSUME NEW t \in AskedTurns
                 PROVE  Answered(t)
      OBVIOUS
    <3>1. t \in Frames /\ Turn(t) /\ t # i /\ ~(i < t)
      BY <1>6 DEF AskedTurns, Turn
    <3> QED BY <3>1, <1>1, <1>4
  <2>3. Turns!Close
    BY <1>2, <1>3, <2>1, <2>2 DEF Turns!Close, Turns!Answered, Answered
  <2> QED BY <2>3 DEF Turns!TurnNext
<1>7. CASE kind[i] \notin {"text", "end"}
  BY <1>1, <1>7, QuietRefines DEF CollectShape, Turn
<1> QED BY <1>5, <1>6, <1>7

(* Every step of a session is a step of TurnTaking, or none. *)
LEMMA TurnsStep ==
  TypeOK /\ PipelineInv /\ [Next]_vars => [Turns!TurnNext]_Turns!turnVars
<1> SUFFICES ASSUME TypeOK, PipelineInv, [Next]_vars
             PROVE  Turns!TurnNext \/ UNCHANGED Turns!turnVars
  OBVIOUS
<1>1. SomeShape
  BY StepShapes DEF PipelineInv
<1>2. ASSUME NEW i \in Frames, NEW p \in 0..6, AtHead(i, p), stage' = Advanced(i),
             UNCHANGED collected,
             \A j \in Frames : Turn(j)' = Turn(j) /\ (kind'[j] = "end" <=> kind[j] = "end")
      PROVE  UNCHANGED Turns!turnVars
  <2>1. stage[i] # Sink /\ stage'[i] # Sink /\ \A j \in Frames : j # i => stage'[j] = stage[j]
    BY <1>2, AdvanceFacts DEF TypeOK
  <2> QED BY <2>1, <1>2, QuietRefines
<1>3. ASSUME NEW i \in Frames, NEW p \in 0..6, MoveShape(i, p)
      PROVE  UNCHANGED Turns!turnVars
  BY <1>2, <1>3 DEF MoveShape, Moved, Turn
<1>4. ASSUME NEW i \in Frames,
             TranscribeShape(i) \/ \E o \in {"returned", "raised"} : AnswerShape(i, o)
      PROVE  UNCHANGED Turns!turnVars
  <2>1. /\ AtHead(i, Asr) \/ AtHead(i, Bridge)
        /\ stage' = Advanced(i)
        /\ UNCHANGED collected
        /\ kind[i] \in {"audio", "transcription"} /\ kind'[i] \in {"transcription", "text"}
        /\ \A j \in Frames : j # i => kind'[j] = kind[j]
    BY <1>4 DEF TranscribeShape, AnswerShape, Bridging, MovedAs, TypeOK, FramesTypeOK
  <2>2. \A j \in Frames : Turn(j)' = Turn(j) /\ (kind'[j] = "end" <=> kind[j] = "end")
    BY <2>1 DEF Turn
  <2> QED BY <2>1, <2>2, <1>2
<1>5. CASE UNCHANGED Still
  BY <1>5, QuietRefines DEF Still, Turn
<1> QED
  BY <1>1, <1>3, <1>4, <1>5, QueueRefines, CollectRefines DEF SomeShape

(* Seen through its turns, its answers and its end, a voice session is the *)
(* turn-taking of TurnTaking, whatever its processors and callers do.      *)
THEOREM PipelineRefinesTurnTaking == Spec => PipelineTakesTurns
<1>1. Init => Turns!TurnInit
  BY TurnsInit
<1>2. TypeOK /\ PipelineInv /\ [Next]_vars => [Turns!TurnNext]_Turns!turnVars
  BY TurnsStep
<1> QED
  BY <1>1, <1>2, PipelineInvariant, PTL DEF Spec, PipelineTakesTurns, Turns!TurnSpec

=============================================================================
