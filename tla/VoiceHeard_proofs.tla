-------------------------- MODULE VoiceHeard_proofs --------------------------
(***************************************************************************)
(* Theorems about what a voice session hears and what it measures, for     *)
(* every number of frames, callers and preloaded texts: each text that was *)
(* preloaded is heard once at most and the last one is not lost, and each  *)
(* histogram holds one sample for each turn.                               *)
(***************************************************************************)
EXTENDS VoicePipeline_proofs, FiniteSetTheorems

USE DEF TaskQueue, Input, Vad, Asr, Filler, Bridge, Tts, Output, Sink

-----------------------------------------------------------------------------
(* What makes the properties hold, and is inductive *)

(* Texts are numbered as they are set, and the frame that was heard as one *)
(* has left the ASR.                                                       *)
TextsNumbered ==
  /\ pendingText <= textsSet
  /\ \A i \in Frames : heard[i] \in Texts => heard[i] <= textsSet /\ stage[i] > Asr

(* Nothing is heard in a frame before the ASR has transcribed it.          *)
SilentUntilTranscribed ==
  \A i \in Frames : kind[i] \in {"none", "audio"} => heard[i] = NoText

HeardInv ==
  TextsNumbered /\ SilentUntilTranscribed /\ PreloadedTextsHeardOnce /\ LatestTextIsHeard

(* The turns that each histogram has a sample of.                          *)
Transcribed == {i \in Frames : heard[i] \in Texts \cup {Canned}}
RepliedTo   == {i \in Frames : outcome[i] = "returned"}
Spoken      == {i \in Frames : kind[i] = "text" /\ stage[i] > Tts}

-----------------------------------------------------------------------------
(* What a step does to what is heard *)

(* A frame is queued with nothing to be heard in it, or an injected text.  *)
QueueHears ==
  /\ \E k \in Kinds \ {"none", "text"}, text \in {NoText, Injected} :
       Queue(k, text) /\ (k = "audio" => text = NoText)
  /\ UNCHANGED <<pendingText, textsSet>>

(* Nothing is heard and no text set; frames may move on and become others. *)
NothingHeard ==
  /\ UNCHANGED <<heard, pendingText, textsSet>>
  /\ \A j \in Frames : /\ stage[j] <= stage'[j]
                       /\ kind'[j] \in {"none", "audio"} => kind'[j] = kind[j]

(* A step that hears nothing leaves a frame where it is or moves it on,    *)
(* where pushes are refused and where they are not.                        *)
MovesQuietly(i) == UNCHANGED frameVars \/ Moved(i) \/ MovedAs(i, "text")

(* Every step queues a frame, sets a text, transcribes, or none of these.  *)
LEMMA HearingShapes ==
  ASSUME TypeOK, [Next]_vars
  PROVE  \/ QueueHears
         \/ SetText
         \/ \E i \in Frames : AsrTranscribe(i)
         \/ NothingHeard
<1> USE DEF frameVars, asrVars, fillerVars, outputVars, outsideVars, processorVars
<1>1. \A j \in Frames : stage[j] \in Nat
  BY DEF TypeOK, FramesTypeOK, Stages
<1>2. CASE StartRunner \/ AudioArrives \/ CallerHangsUp
  BY <1>2 DEF StartRunner, AudioArrives, CallerHangsUp, QueueHears, Kinds
<1>3. ASSUME NEW c \in Callers, InjectText(c) \/ InjectEnd(c)
      PROVE  QueueHears
  BY <1>3 DEF InjectText, InjectEnd, QueueHears, Kinds
<1>4. ASSUME ThresholdPasses \/ UNCHANGED vars \/ (\E c \in Callers : InjectTimeout(c))
                \/ \E i \in Frames : BridgeRoutes(i)
      PROVE  NothingHeard
  <2>1. UNCHANGED <<heard, pendingText, textsSet, stage, kind>>
    BY <1>4 DEF ThresholdPasses, InjectTimeout, BridgeRoutes, vars
  <2> QED
    BY <1>1, <2>1 DEF NothingHeard
<1>5. ASSUME NEW i \in Frames,
             TaskPush(i) \/ InputPass(i) \/ VadPass(i) \/ AsrPass(i) \/ FillerStep(i)
             \/ BridgePass(i) \/ TtsStep(i) \/ OutputStep(i)
             \/ BridgeReply(i) \/ BridgeApologise(i)
      PROVE  NothingHeard
  <2>1. /\ UNCHANGED <<heard, pendingText, textsSet>>
        /\ MovesQuietly(i)
        /\ \/ AtHead(i, TaskQueue) \/ AtHead(i, Input) \/ AtHead(i, Vad) \/ AtHead(i, Asr)
           \/ AtHead(i, Filler) \/ AtHead(i, Bridge) \/ AtHead(i, Tts) \/ AtHead(i, Output)
    <3> USE DEF MovesQuietly
    <3>1. CASE TaskPush(i) \/ InputPass(i) \/ VadPass(i) \/ AsrPass(i)
      BY <3>1 DEF TaskPush, InputPass, VadPass, AsrPass, PassOn
    <3>2. CASE FillerStep(i) \/ BridgePass(i) \/ TtsStep(i) \/ OutputStep(i)
      BY <3>2 DEF FillerStep, BridgePass, TtsStep, OutputStep, PassOn
    <3>3. CASE BridgeReply(i) \/ BridgeApologise(i)
      BY <3>3 DEF BridgeReply, BridgeApologise, Bridging, Become
    <3> QED
      BY <1>5, <3>1, <3>2, <3>3
  <2>2. \A j \in Frames : stage[j] <= stage'[j]
    <3>1. CASE stage' = Advanced(i)
      BY <1>1, <2>1, <3>1, AdvanceFacts DEF TypeOK
    <3>2. CASE UNCHANGED stage
      BY <1>1, <3>2
    <3> QED
      BY <2>1, <3>1, <3>2 DEF MovesQuietly, Moved, MovedAs
  <2>3. \A j \in Frames : kind'[j] \in {"none", "audio"} => kind'[j] = kind[j]
    BY <2>1 DEF MovesQuietly, Moved, MovedAs, TypeOK, FramesTypeOK
  <2> QED
    BY <2>1, <2>2, <2>3 DEF NothingHeard
<1> QED
  BY <1>2, <1>3, <1>4, <1>5
     DEF Next, Outside, TaskTask, InputTask, VadTask, AsrTask, FillerTask, BridgeTask, TtsTask,
         OutputTask

(* The texts are numbers, and neither silence nor the canned or an         *)
(* injected text is one of them.                                           *)
LEMMA TextFacts ==
  /\ Texts \subseteq Nat /\ NoText \notin Texts /\ Canned \notin Texts /\ Injected \notin Texts
  /\ NoText # Canned /\ Injected # Canned
BY PipelineAssumption DEF Texts, NoText, Canned, Injected

(* What is queued changes one frame, that has not been heard.              *)
LEMMA QueueFacts ==
  ASSUME TypeOK, PipelineInv, HeardInv, QueueHears
  PROVE  \E n \in Frames :
           /\ heard[n] = NoText /\ heard'[n] \in {NoText, Injected}
           /\ kind'[n] \in {"none", "audio"} => heard'[n] = NoText
           /\ \A j \in Frames : j # n => heard'[j] = heard[j] /\ kind'[j] = kind[j]
           /\ UNCHANGED stage
<1>1. PICK k \in Kinds \ {"none", "text"}, text \in {NoText, Injected} :
        Queue(k, text) /\ (k = "audio" => text = NoText)
  BY DEF QueueHears
<1>2. sent + 1 \in Frames /\ kind[sent + 1] = "none"
  BY <1>1, PipelineAssumption DEF Queue, TypeOK, FramesTypeOK, Frames, PipelineInv, SentPrefix
<1>3. /\ heard'[sent + 1] = text /\ kind'[sent + 1] = k
      /\ \A j \in Frames : j # sent + 1 => heard'[j] = heard[j] /\ kind'[j] = kind[j]
      /\ UNCHANGED stage
  BY <1>1, <1>2 DEF Queue, TypeOK, FramesTypeOK
<1>4. heard[sent + 1] = NoText
  BY <1>2 DEF HeardInv, SilentUntilTranscribed
<1> QED
  BY <1>1, <1>2, <1>3, <1>4

(* The ASR takes the pending text, or the canned one, for its frame, and   *)
(* every frame that was heard as a text before is ahead of that.           *)
LEMMA TranscribeFacts ==
  ASSUME TypeOK, PipelineInv, HeardInv, NEW i \in Frames, AsrTranscribe(i)
  PROVE  /\ heard[i] = NoText /\ kind[i] = "audio" /\ kind'[i] = "transcription"
         /\ heard'[i] = TextToHear /\ stage'[i] > Asr /\ pendingText' = NoText
         /\ \A j \in Frames : j # i => /\ heard'[j] = heard[j] /\ kind'[j] = kind[j]
                                       /\ stage'[j] = stage[j]
         /\ \A j \in Frames : heard[j] \in Texts => j < i
<1>1. AtHead(i, Asr) /\ kind[i] = "audio" /\ MovedAs(i, "transcription")
  BY PushGoesOn DEF AsrTranscribe, PipelineInv
<1>2. /\ i \in Nat /\ stage[i] = Asr /\ stage'[i] = Asr + 1
      /\ \A j \in Frames : j # i => stage'[j] = stage[j]
      /\ \A j \in Frames : j \in Nat /\ stage[j] \in Nat
  BY <1>1, AdvanceFacts DEF MovedAs, TypeOK
<1>3. heard[i] = NoText
  BY <1>1 DEF HeardInv, SilentUntilTranscribed
<1>4. /\ heard'[i] = TextToHear /\ kind'[i] = "transcription" /\ pendingText' = NoText
      /\ \A j \in Frames : j # i => heard'[j] = heard[j] /\ kind'[j] = kind[j]
  BY <1>1 DEF AsrTranscribe, MovedAs, TypeOK, FramesTypeOK
<1>5. ASSUME NEW j \in Frames, heard[j] \in Texts
      PROVE  j < i
  <2>1. stage[j] > Asr
    BY <1>5 DEF HeardInv, TextsNumbered
  <2>2. ~(i < j) /\ i # j
    BY <1>2, <2>1 DEF PipelineInv, QueueOrder
  <2> QED
    BY <1>2, <2>2
<1> QED
  BY <1>1, <1>2, <1>3, <1>4, <1>5

(* Texts are numbers, heard or pending.                                    *)
LEMMA HearingTypes ==
  ASSUME TypeOK
  PROVE  /\ pendingText \in Nat /\ textsSet \in Nat
         /\ \A j \in Frames : stage[j] \in Nat /\ heard[j] \in Nat
<1>1. \A x \in Texts \cup {NoText, Canned, Injected} : x \in Nat
  BY TextFacts, PipelineAssumption DEF NoText, Canned, Injected
<1>2. pendingText \in Texts \cup {NoText, Canned, Injected}
  BY DEF TypeOK, ProcessorsTypeOK
<1>3. textsSet \in Nat
  BY DEF TypeOK, OutsideTypeOK
<1>4. \A j \in Frames : stage[j] \in 0..8 /\ heard[j] \in Texts \cup {NoText, Canned, Injected}
  BY DEF TypeOK, FramesTypeOK, Stages
<1> QED
  BY <1>1, <1>2, <1>3, <1>4

(* What is set last stays pending until it is heard.                       *)
LEMMA LatestStep ==
  ASSUME TypeOK, PipelineInv, HeardInv, [Next]_vars
  PROVE  LatestTextIsHeard'
<1> USE TextFacts DEF LatestTextIsHeard
<1>1. pendingText \in Nat /\ textsSet \in Nat /\ LatestTextIsHeard
  BY HearingTypes DEF HeardInv
<1>2. CASE QueueHears
  <2>1. PICK n \in Frames :
          /\ heard[n] = NoText
          /\ \A j \in Frames : j # n => heard'[j] = heard[j]
    BY <1>2, QueueFacts
  <2>2. UNCHANGED <<pendingText, textsSet>>
    BY <1>2 DEF QueueHears
  <2>3. \A j \in Frames : heard[j] \in Texts => heard'[j] = heard[j]
    BY <2>1
  <2> QED
    BY <1>1, <2>2, <2>3
<1>3. CASE SetText
  BY <1>1, <1>3 DEF SetText, NoText
<1>4. ASSUME NEW i \in Frames, AsrTranscribe(i)
      PROVE  LatestTextIsHeard'
  <2>1. /\ heard[i] = NoText /\ heard'[i] = TextToHear /\ pendingText' = NoText
        /\ UNCHANGED textsSet
        /\ \A j \in Frames : j # i => heard'[j] = heard[j]
    BY <1>4, TranscribeFacts DEF AsrTranscribe, outsideVars
  <2>2. CASE pendingText = NoText
    <3>1. \A j \in Frames : heard[j] \in Texts => heard'[j] = heard[j]
      BY <2>1
    <3> QED
      BY <1>1, <2>1, <2>2, <3>1
  <2>3. CASE pendingText # NoText /\ textsSet \in Texts \ EmptyTexts
    <3>1. heard'[i] = textsSet
      BY <1>1, <2>1, <2>3 DEF TextToHear
    <3> QED
      BY <2>1, <3>1
  <2> QED
    BY <2>1, <2>2, <2>3
<1>5. CASE NothingHeard
  BY <1>1, <1>5 DEF NothingHeard
<1> QED
  BY <1>2, <1>3, <1>4, <1>5, HearingShapes

(* HeardInv is inductive relative to TypeOK and PipelineInv.               *)
LEMMA HeardInvStep ==
  ASSUME TypeOK, PipelineInv, HeardInv, [Next]_vars
  PROVE  HeardInv'
<1> USE TextFacts DEF HeardInv, TextsNumbered, SilentUntilTranscribed, PreloadedTextsHeardOnce
<1>0. LatestTextIsHeard'
  BY LatestStep
<1>1. /\ pendingText \in Nat /\ textsSet \in Nat
      /\ \A j \in Frames : stage[j] \in Nat /\ heard[j] \in Nat
  BY HearingTypes
<1>2. CASE QueueHears
  <2>1. PICK n \in Frames :
          /\ heard[n] = NoText /\ heard'[n] \in {NoText, Injected}
          /\ kind'[n] \in {"none", "audio"} => heard'[n] = NoText
          /\ \A j \in Frames : j # n => heard'[j] = heard[j] /\ kind'[j] = kind[j]
          /\ UNCHANGED stage
    BY <1>2, QueueFacts
  <2>2. UNCHANGED <<pendingText, textsSet>>
    BY <1>2 DEF QueueHears
  <2>3. \A j \in Frames : heard'[j] \in Texts => j # n /\ heard'[j] = heard[j]
    BY <2>1
  <2>4. TextsNumbered' /\ PreloadedTextsHeardOnce'
    BY <2>1, <2>2, <2>3
  <2>5. SilentUntilTranscribed'
    BY <2>1
  <2> QED
    BY <2>4, <2>5, <1>0
<1>3. CASE SetText
  <2>1. /\ pendingText' = textsSet + 1 /\ textsSet' = textsSet + 1
        /\ UNCHANGED <<heard, kind, stage>>
    BY <1>3 DEF SetText, frameVars
  <2>2. TextsNumbered' /\ SilentUntilTranscribed'
    BY <1>1, <2>1
  <2>3. PreloadedTextsHeardOnce'
    BY <1>1, <2>1
  <2> QED
    BY <2>2, <2>3, <1>0
<1>4. ASSUME NEW i \in Frames, AsrTranscribe(i)
      PROVE  TextsNumbered' /\ SilentUntilTranscribed' /\ PreloadedTextsHeardOnce'
  <2>1. /\ heard'[i] = TextToHear /\ stage'[i] > Asr /\ pendingText' = NoText
        /\ kind'[i] = "transcription" /\ UNCHANGED textsSet
        /\ \A j \in Frames : j # i => /\ heard'[j] = heard[j] /\ kind'[j] = kind[j]
                                      /\ stage'[j] = stage[j]
        /\ \A j \in Frames : heard[j] \in Texts => j < i
    BY <1>4, TranscribeFacts DEF AsrTranscribe, outsideVars
  <2>2. heard'[i] \in Texts => /\ heard'[i] = pendingText /\ pendingText # NoText
                               /\ heard'[i] \notin EmptyTexts
    BY <2>1 DEF TextToHear
  <2>3. TextsNumbered'
    BY <1>1, <2>1, <2>2 DEF NoText
  <2>4. SilentUntilTranscribed'
    BY <2>1
  <2>5. \A j, k \in Frames : j < k /\ heard'[j] \in Texts /\ heard'[k] \in Texts =>
          heard'[j] < heard'[k]
    <3> SUFFICES ASSUME NEW j \in Frames, NEW k \in Frames, j < k,
                        heard'[j] \in Texts, heard'[k] \in Texts
                 PROVE  heard'[j] < heard'[k]
      OBVIOUS
    <3>1. j \in Nat /\ k \in Nat /\ i \in Nat
      BY PipelineAssumption DEF Frames
    <3>2. CASE k = i
      <4>1. j # i /\ heard[j] \in Texts /\ heard'[j] = heard[j]
        BY <2>1, <3>1, <3>2
      <4>2. pendingText # NoText /\ heard'[k] = pendingText
        BY <2>2, <3>2
      <4> QED
        BY <4>1, <4>2
    <3>3. CASE k # i
      <4>1. heard[k] \in Texts /\ k < i /\ j # i
        BY <2>1, <3>1, <3>3
      <4> QED
        BY <2>1, <3>3, <4>1
    <3> QED
      BY <3>2, <3>3
  <2>6. PreloadedTextsHeardOnce'
    BY <2>1, <2>2, <2>5
  <2> QED
    BY <2>3, <2>4, <2>6
<1>5. CASE NothingHeard
  <2>1. /\ UNCHANGED <<heard, pendingText, textsSet>>
        /\ \A j \in Frames : /\ stage[j] <= stage'[j] /\ stage'[j] \in Nat
                             /\ kind'[j] \in {"none", "audio"} => kind'[j] = kind[j]
    BY <1>5, TypeStep DEF NothingHeard, TypeOK, FramesTypeOK, Stages
  <2>2. TextsNumbered'
    BY <1>1, <2>1
  <2>3. SilentUntilTranscribed' /\ PreloadedTextsHeardOnce'
    BY <2>1
  <2> QED
    BY <2>2, <2>3, <1>0
<1> QED
  BY <1>0, <1>2, <1>3, <1>4, <1>5, HearingShapes

(* It holds in every state, together with what it rests on.                *)
LEMMA HeardInvariant == Spec => [](TypeOK /\ PipelineInv /\ HeardInv)
<1>1. Init => HeardInv
  BY PipelineAssumption
     DEF Init, HeardInv, TextsNumbered, SilentUntilTranscribed, PreloadedTextsHeardOnce,
         LatestTextIsHeard, Texts, NoText
<1>2. TypeOK /\ PipelineInv /\ HeardInv /\ [Next]_vars => HeardInv'
  BY HeardInvStep
<1> QED
  BY <1>1, <1>2, PipelineInvariant, PTL DEF Spec

(* A text preloaded with set_text is heard once at most, texts are heard   *)
(* in the order they were set, the empty one never, and what is pending is *)
(* newer than all that was heard (asr.py:44, 61).                          *)
THEOREM TextsHeardOnce == Spec => []PreloadedTextsHeardOnce
<1>1. HeardInv => PreloadedTextsHeardOnce
  BY DEF HeardInv
<1> QED
  BY <1>1, HeardInvariant, PTL

(* What was set last is pending until the ASR has heard it, whatever was   *)
(* in the slot before and wherever the audio was (asr.py:44-46, 63).       *)
THEOREM LatestTextIsHeardAlways == Spec => []LatestTextIsHeard
<1>1. HeardInv => LatestTextIsHeard
  BY DEF HeardInv
<1> QED
  BY <1>1, HeardInvariant, PTL

-----------------------------------------------------------------------------
(* What the histograms hold *)

(* A set of frames is finite, and one frame more makes it larger by one.   *)
LEMMA FrameCounts ==
  ASSUME NEW S \in SUBSET Frames
  PROVE  /\ Cardinality(S) \in Nat
         /\ \A i \in Frames \ S : Cardinality(S \cup {i}) = Cardinality(S) + 1
<1>1. IsFiniteSet(Frames)
  BY FS_Interval, PipelineAssumption DEF Frames
<1>2. IsFiniteSet(S)
  BY <1>1, FS_Subset
<1> QED
  BY <1>2, FS_CardinalityType, FS_AddElement

(* Steps that have no latency to observe: they neither transcribe a frame  *)
(* nor reply to one nor speak one.                                         *)
NothingMeasured == UNCHANGED <<samples, Transcribed, RepliedTo, Spoken>>

(* What is queued is nothing transcribed, replied to or spoken.            *)
LEMMA QueueMeasuresNothing ==
  ASSUME TypeOK, PipelineInv, HeardInv, NEW k \in Kinds \ {"none", "text"},
         NEW text \in {NoText, Injected}, Queue(k, text), UNCHANGED <<samples, outcome>>
  PROVE  NothingMeasured
<1> DEFINE n == sent + 1
<1>1. n \in Frames /\ kind[n] = "none" /\ heard[n] = NoText
  BY PipelineAssumption
     DEF Queue, TypeOK, FramesTypeOK, Frames, PipelineInv, SentPrefix, HeardInv,
         SilentUntilTranscribed
<1>2. /\ heard'[n] = text /\ kind'[n] = k /\ UNCHANGED stage
      /\ \A j \in Frames : j # n => heard'[j] = heard[j] /\ kind'[j] = kind[j]
  BY <1>1 DEF Queue, TypeOK, FramesTypeOK
<1>3. \A j \in Frames : heard'[j] \in Texts \cup {Canned} <=> heard[j] \in Texts \cup {Canned}
  BY <1>1, <1>2, TextFacts
<1>4. \A j \in Frames : kind'[j] = "text" <=> kind[j] = "text"
  BY <1>1, <1>2
<1> QED
  BY <1>2, <1>3, <1>4 DEF NothingMeasured, Transcribed, RepliedTo, Spoken

(* A frame that moves on elsewhere than out of the TTS is not spoken by    *)
(* that, be it changed on the way or not.                                  *)
LEMMA MovingIsNotSpeaking ==
  ASSUME TypeOK, PipelineInv, NEW i \in Frames, NEW p \in 0..7 \ {Tts}, AtHead(i, p),
         \/ UNCHANGED frameVars
         \/ Moved(i)
         \/ p = Asr /\ MovedAs(i, "transcription")
         \/ p = Bridge /\ MovedAs(i, "text")
  PROVE  UNCHANGED Spoken
<1>1. CASE UNCHANGED frameVars
  BY <1>1 DEF frameVars, Spoken
<1>2. CASE Moved(i) \/ (p = Asr /\ MovedAs(i, "transcription"))
           \/ (p = Bridge /\ MovedAs(i, "text"))
  <2>1. /\ stage[i] = p /\ stage'[i] = p + 1
        /\ \A j \in Frames : j # i => stage'[j] = stage[j]
    BY <1>2, AdvanceFacts DEF Moved, MovedAs, TypeOK
  <2>2. /\ \A j \in Frames : j # i => kind'[j] = kind[j]
        /\ kind'[i] = kind[i] \/ p <= Bridge
    BY <1>2 DEF Moved, MovedAs, TypeOK, FramesTypeOK
  <2>3. kind'[i] = "text" /\ stage'[i] > Tts <=> kind[i] = "text" /\ stage[i] > Tts
    BY <2>1, <2>2
  <2> QED
    BY <2>1, <2>2, <2>3 DEF Spoken
<1> QED
  BY <1>1, <1>2

(* Every step transcribes, replies, passes the TTS or measures nothing.    *)
LEMMA MeasureShapes ==
  ASSUME TypeOK, PipelineInv, HeardInv, [Next]_vars
  PROVE  \/ \E i \in Frames : AsrTranscribe(i) \/ BridgeReply(i) \/ TtsStep(i)
         \/ NothingMeasured
<1> USE DEF frameVars, asrVars, fillerVars, outputVars, outsideVars, processorVars, supervisorVars
<1>1. CASE StartRunner \/ AudioArrives \/ CallerHangsUp
  BY <1>1, QueueMeasuresNothing DEF StartRunner, AudioArrives, CallerHangsUp, Kinds
<1>2. ASSUME NEW c \in Callers, InjectText(c) \/ InjectEnd(c)
      PROVE  NothingMeasured
  BY <1>2, QueueMeasuresNothing DEF InjectText, InjectEnd, Kinds
<1>3. CASE SetText \/ ThresholdPasses \/ UNCHANGED vars \/ \E c \in Callers : InjectTimeout(c)
  <2>1. UNCHANGED <<samples, heard, outcome, kind, stage>>
    BY <1>3 DEF SetText, ThresholdPasses, InjectTimeout, vars
  <2> QED
    BY <2>1 DEF NothingMeasured, Transcribed, RepliedTo, Spoken
<1>4. ASSUME NEW i \in Frames, BridgeRoutes(i)
      PROVE  NothingMeasured
  <2>1. UNCHANGED <<samples, heard, outcome, kind, stage>>
    BY <1>4 DEF BridgeRoutes, Sup!Classify, Sup!Route, Sup!Execute
  <2> QED
    BY <2>1 DEF NothingMeasured, Transcribed, RepliedTo, Spoken
<1>5. ASSUME NEW i \in Frames,
             TaskPush(i) \/ InputPass(i) \/ VadPass(i) \/ AsrPass(i) \/ FillerStep(i)
             \/ BridgePass(i) \/ OutputStep(i)
      PROVE  NothingMeasured
  <2>1. UNCHANGED <<samples, heard, outcome>> /\ (UNCHANGED frameVars \/ Moved(i))
    <3>1. CASE TaskPush(i) \/ VadPass(i)
      BY <3>1 DEF TaskPush, VadPass
    <3>2. CASE InputPass(i) \/ AsrPass(i) \/ FillerStep(i) \/ BridgePass(i) \/ OutputStep(i)
      BY <3>2 DEF InputPass, AsrPass, FillerStep, BridgePass, OutputStep, PassOn
    <3> QED
      BY <1>5, <3>1, <3>2
  <2>2. \E p \in 0..7 \ {Tts} : AtHead(i, p)
    <3>1. CASE TaskPush(i) \/ InputPass(i) \/ VadPass(i) \/ AsrPass(i)
      BY <3>1 DEF TaskPush, InputPass, VadPass, AsrPass
    <3>2. CASE FillerStep(i) \/ BridgePass(i) \/ OutputStep(i)
      <4>1. AtHead(i, Filler) \/ AtHead(i, Bridge) \/ AtHead(i, Output)
        BY <3>2 DEF FillerStep, BridgePass, OutputStep
      <4> QED
        BY <4>1
    <3> QED
      BY <1>5, <3>1, <3>2
  <2>3. UNCHANGED Spoken
    BY <2>1, <2>2, MovingIsNotSpeaking
  <2> QED
    BY <2>1, <2>3 DEF NothingMeasured, Transcribed, RepliedTo
<1>6. ASSUME NEW i \in Frames, BridgeApologise(i)
      PROVE  NothingMeasured
  <2>1. /\ AtHead(i, Bridge) /\ MovedAs(i, "text") /\ UNCHANGED <<samples, heard>>
        /\ outcome[i] = "none" /\ outcome' = [outcome EXCEPT ![i] = "raised"]
    BY <1>6, PushGoesOn DEF BridgeApologise, Bridging, Sup!Raise, PipelineInv
  <2>2. UNCHANGED Spoken
    BY <2>1, MovingIsNotSpeaking
  <2>3. \A j \in Frames : outcome'[j] = "returned" <=> outcome[j] = "returned"
    BY <2>1 DEF TypeOK, Sup!SupervisorTypeOK
  <2> QED
    BY <2>1, <2>2, <2>3 DEF NothingMeasured, Transcribed, RepliedTo
<1> QED
  BY <1>1, <1>2, <1>3, <1>4, <1>5, <1>6
     DEF Next, Outside, TaskTask, InputTask, VadTask, AsrTask, FillerTask, BridgeTask, TtsTask,
         OutputTask

(* A transcription adds its frame, and a sample.                           *)
LEMMA TranscribeSamples ==
  ASSUME TypeOK, PipelineInv, HeardInv, NEW i \in Frames, AsrTranscribe(i)
  PROVE  /\ i \notin Transcribed /\ Transcribed' = Transcribed \cup {i}
         /\ samples' = [samples EXCEPT !["asr"] = @ + 1]
         /\ UNCHANGED <<RepliedTo, Spoken>>
<1>1. heard[i] = NoText /\ heard'[i] \in Texts \cup {Canned}
      /\ \A j \in Frames : j # i => heard'[j] = heard[j]
  BY TranscribeFacts DEF TextToHear
<1>2. /\ AtHead(i, Asr) /\ MovedAs(i, "transcription") /\ UNCHANGED outcome
      /\ samples' = [samples EXCEPT !["asr"] = @ + 1]
  BY PushGoesOn DEF AsrTranscribe, supervisorVars, PipelineInv
<1>3. UNCHANGED Spoken
  BY <1>2, MovingIsNotSpeaking
<1> QED
  BY <1>1, <1>2, <1>3, TextFacts DEF Transcribed, RepliedTo

(* A reply adds its turn, and a sample.                                    *)
LEMMA ReplySamples ==
  ASSUME TypeOK, PipelineInv, NEW i \in Frames, BridgeReply(i)
  PROVE  /\ i \notin RepliedTo /\ RepliedTo' = RepliedTo \cup {i}
         /\ samples' = [samples EXCEPT !["v2v"] = @ + 1]
         /\ UNCHANGED <<Transcribed, Spoken>>
<1>1. /\ AtHead(i, Bridge) /\ MovedAs(i, "text") /\ UNCHANGED heard
      /\ samples' = [samples EXCEPT !["v2v"] = @ + 1]
      /\ outcome[i] = "none" /\ outcome' = [outcome EXCEPT ![i] = "returned"]
  BY PushGoesOn DEF BridgeReply, Bridging, Sup!Return, Sup!At, asrVars, PipelineInv
<1>2. UNCHANGED Spoken
  BY <1>1, MovingIsNotSpeaking
<1>3. outcome'[i] = "returned" /\ \A j \in Frames : j # i => outcome'[j] = outcome[j]
  BY <1>1 DEF TypeOK, Sup!SupervisorTypeOK
<1> QED
  BY <1>1, <1>2, <1>3 DEF Transcribed, RepliedTo

(* A text that passes the TTS is spoken, and adds a sample.                *)
LEMMA TtsSamples ==
  ASSUME TypeOK, PipelineInv, NEW i \in Frames, TtsStep(i)
  PROVE  /\ \/ /\ i \notin Spoken /\ Spoken' = Spoken \cup {i}
               /\ samples' = [samples EXCEPT !["tts"] = @ + 1]
            \/ UNCHANGED Spoken /\ samples' = samples
         /\ UNCHANGED <<Transcribed, RepliedTo>>
<1>1. /\ AtHead(i, Tts) /\ Moved(i) /\ UNCHANGED <<heard, outcome>>
      /\ samples' = [samples EXCEPT !["tts"] = IF kind[i] = "text" THEN @ + 1 ELSE @]
  BY PushGoesOn DEF TtsStep, asrVars, supervisorVars, PipelineInv
<1>2. /\ stage[i] = Tts /\ stage'[i] = Tts + 1 /\ UNCHANGED kind
      /\ \A j \in Frames : j # i => stage'[j] = stage[j]
  BY <1>1, AdvanceFacts DEF Moved, TypeOK
<1>3. CASE kind[i] = "text"
  BY <1>1, <1>2, <1>3 DEF Spoken, Transcribed, RepliedTo
<1>4. CASE kind[i] # "text"
  <2>1. UNCHANGED Spoken
    BY <1>2, <1>4 DEF Spoken
  <2>2. samples' = samples
    BY <1>1, <1>4 DEF TypeOK, ProcessorsTypeOK
  <2> QED
    BY <1>1, <2>1, <2>2 DEF Transcribed, RepliedTo
<1> QED
  BY <1>3, <1>4

(* No turn is sampled twice and none is left out.                          *)
LEMMA SamplesStep ==
  ASSUME TypeOK, PipelineInv, HeardInv, LatencySamplesPerTurn, [Next]_vars
  PROVE  LatencySamplesPerTurn'
<1>1. /\ samples["asr"] = Cardinality(Transcribed)
      /\ samples["v2v"] = Cardinality(RepliedTo)
      /\ samples["tts"] = Cardinality(Spoken)
  BY DEF LatencySamplesPerTurn, Transcribed, RepliedTo, Spoken
<1>2. samples \in [{"asr", "v2v", "tts"} -> Nat]
  BY DEF TypeOK, ProcessorsTypeOK
<1>3. Transcribed \in SUBSET Frames /\ RepliedTo \in SUBSET Frames /\ Spoken \in SUBSET Frames
  BY DEF Transcribed, RepliedTo, Spoken
<1> DEFINE Sampled == /\ samples["asr"] = Cardinality(Transcribed)
                      /\ samples["v2v"] = Cardinality(RepliedTo)
                      /\ samples["tts"] = Cardinality(Spoken)
<1>4. ASSUME NEW i \in Frames, AsrTranscribe(i)
      PROVE  Sampled'
  BY <1>1, <1>2, <1>3, <1>4, TranscribeSamples, FrameCounts
<1>5. ASSUME NEW i \in Frames, BridgeReply(i)
      PROVE  Sampled'
  BY <1>1, <1>2, <1>3, <1>5, ReplySamples, FrameCounts
<1>6. ASSUME NEW i \in Frames, TtsStep(i)
      PROVE  Sampled'
  BY <1>1, <1>2, <1>3, <1>6, TtsSamples, FrameCounts
<1>7. ASSUME NothingMeasured
      PROVE  Sampled'
  <2>1. /\ samples' = samples /\ Transcribed' = Transcribed
        /\ RepliedTo' = RepliedTo /\ Spoken' = Spoken
    BY <1>7 DEF NothingMeasured
  <2> QED
    BY <1>1, <2>1
<1>8. (\E i \in Frames : AsrTranscribe(i) \/ BridgeReply(i) \/ TtsStep(i)) \/ NothingMeasured
  BY MeasureShapes
<1>9. Sampled'
  BY <1>4, <1>5, <1>6, <1>7, <1>8
<1> QED
  BY <1>9 DEF LatencySamplesPerTurn, Transcribed, RepliedTo, Spoken

(* Each latency histogram holds one sample for each turn that passed its   *)
(* stage, those of apologies left out of voice_to_voice (asr.py:66,        *)
(* agent_bridge.py:74, tts.py:57).                                         *)
THEOREM OneSamplePerTurn == Spec => []LatencySamplesPerTurn
<1>1. Init => LatencySamplesPerTurn
  <2> SUFFICES ASSUME Init
               PROVE  LatencySamplesPerTurn
    OBVIOUS
  <2>1. Transcribed = {} /\ RepliedTo = {} /\ Spoken = {}
    BY TextFacts DEF Init, Sup!SupervisorInit, Transcribed, RepliedTo, Spoken
  <2> QED
    BY <2>1, FS_EmptySet DEF Init, LatencySamplesPerTurn, Transcribed, RepliedTo, Spoken
<1>2. TypeOK /\ PipelineInv /\ HeardInv /\ LatencySamplesPerTurn /\ [Next]_vars
        => LatencySamplesPerTurn'
  BY SamplesStep
<1> QED
  BY <1>1, <1>2, HeardInvariant, PTL DEF Spec

=============================================================================
