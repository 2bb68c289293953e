---------------------------- MODULE VoicePipeline ----------------------------
(***************************************************************************)
(* One voice session: the Pipecat pipeline that create_voice_pipeline      *)
(* builds (voice/pipeline.py), the processors in it, and the coroutines    *)
(* outside it that queue frames or preload text (voice/transport.py).      *)
(*                                                                         *)
(* A frame is a number, given in the order frames are queued in the task.  *)
(* Every processor turns a frame into at most one frame that matters       *)
(* downstream (the silent audio that follows each spoken text is left      *)
(* out: nothing reads it), so a number follows one caller turn all the way *)
(* from audio to transcription to reply.  Processors run concurrently,     *)
(* each on its own input queue and one frame at a time; push_frame appends *)
(* to the queue of the next processor.  A frame counts as queued there     *)
(* once its processor has settled what it becomes: the log call that some  *)
(* of them await in between only delays when the next processor takes it.  *)
(***************************************************************************)
EXTENDS Naturals, Sequences, FiniteSets

CONSTANTS
  MaxFrames,      \* bound: frames queued in the task in one session
  MaxTexts,       \* bound: calls of set_text in one session
  EmptyTexts,     \* which of those calls pass the empty string
  Callers,        \* coroutines that call inject_text on the session's transport
  AudioComesIn,   \* whether the transport also delivers caller audio
  ChecksStarted,  \* whether pipecat refuses what a processor pushes that was not started
  Classifiable    \* labels the intent classifier may give

Frames == 1..MaxFrames
Texts  == 1..MaxTexts

ASSUME PipelineAssumption ==
  /\ MaxFrames \in Nat /\ MaxTexts \in Nat
  /\ EmptyTexts \subseteq Texts
  /\ AudioComesIn \in BOOLEAN
  /\ ChecksStarted \in BOOLEAN

VARIABLES
  (* the task and the frames *)
  sent,                \* how many frames have been queued in the task
  kind,                \* the type of each frame, as it is now
  stage,               \* the queue each frame is in, or the processor it is at
  (* the processors *)
  pipelineReady,       \* StubInputTransport: the ready event
  pendingText,         \* StubASRProcessor._pending_text
  heard,               \* the text of each frame that is a transcription
  speechStart,         \* FillerProcessor._speech_start
  fillerTriggered,     \* FillerProcessor._filler_triggered
  lastClassification,  \* AgentBridgeProcessor._last_classification
  collected,           \* StubOutputTransport._collected
  responseReady,       \* StubOutputTransport.response_ready
  samples,             \* observations made of the latency histograms
  (* the coroutines outside *)
  caller,              \* where each inject_text call stands
  textsSet,            \* how many times set_text has been called
  (* route_to_agent, one call for each transcription *)
  progress, outcome, intent,
  intent_classification_total, agent_routing_total, tool_execution_total

Sup == INSTANCE Supervisor WITH Calls <- Frames

ASSUME LabelsAssumption == Classifiable \subseteq Sup!Intents

frameVars     == <<kind, stage>>
asrVars       == <<pendingText, heard>>
fillerVars    == <<speechStart, fillerTriggered>>
outputVars    == <<collected, responseReady>>
outsideVars   == <<sent, caller, textsSet>>
supervisorVars == <<progress, outcome, intent, intent_classification_total,
                    agent_routing_total, tool_execution_total>>
processorVars == <<pipelineReady, asrVars, fillerVars, lastClassification, outputVars, samples>>
vars == <<frameVars, processorVars, outsideVars, supervisorVars>>

-----------------------------------------------------------------------------
(* The queue of the task, the processors in pipeline order, and the end of *)
(* the pipeline, where an EndFrame finishes the task.                      *)
TaskQueue == 0
Input  == 1
Vad    == 2
Asr    == 3
Filler == 4
Bridge == 5
Tts    == 6
Output == 7
Sink   == 8
Stages == TaskQueue..Sink

Kinds == {"none", "start", "audio", "transcription", "text", "end"}

(* What a caller can be heard to say: the text given to inject_text, the   *)
(* canned text of the stub ASR, or the text of the k-th set_text.          *)
NoText   == 0
Canned   == MaxTexts + 1
Injected == MaxTexts + 2

Turn(i) == kind[i] \in {"audio", "transcription", "text"}

(* Fault: a processor starts on a frame before it is done with the last.   *)
AtHeadUnordered(i, p) == i <= sent /\ stage[i] = p

(* Frame i is next at stage p: it is there and everything queued before it *)
(* has moved on.                                                           *)
AtHead(i, p) ==
  /\ i <= sent
  /\ stage[i] = p
  /\ \A j \in Frames : j < i => stage[j] > p

Advanced(i) == [stage EXCEPT ![i] = @ + 1]

(* The frame is in the queue of the next processor, as it is or as another. *)
Moved(i) ==
  /\ stage' = Advanced(i)
  /\ UNCHANGED kind

MovedAs(i, k) ==
  /\ kind' = [kind EXCEPT ![i] = k]
  /\ stage' = Advanced(i)

(* push_frame of the processors of this repository.  None of them calls    *)
(* super().process_frame (transport.py:38, asr.py:48, fillers.py:39,       *)
(* agent_bridge.py:41, tts.py:46), which is where pipecat takes a          *)
(* processor to be started.  A release that checks this drops what they    *)
(* push: a frame is then no further than where it was dropped.             *)
PassOn(i)    == IF ChecksStarted THEN UNCHANGED frameVars ELSE Moved(i)
Become(i, k) == IF ChecksStarted THEN UNCHANGED frameVars ELSE MovedAs(i, k)

FramesTypeOK ==
  /\ sent \in 0..MaxFrames
  /\ kind \in [Frames -> Kinds]
  /\ stage \in [Frames -> Stages]
  /\ heard \in [Frames -> Texts \cup {NoText, Canned, Injected}]

ProcessorsTypeOK ==
  /\ pipelineReady \in BOOLEAN
  /\ pendingText \in Texts \cup {NoText}
  /\ speechStart \in {"none", "running", "overdue"}
  /\ fillerTriggered \in BOOLEAN
  /\ lastClassification \in Frames \cup {0}
  /\ responseReady \in BOOLEAN
  /\ samples \in [{"asr", "v2v", "tts"} -> Nat]

CollectedTypeOK == collected \in Seq([turn : Frames, how : {"reply", "apology"}])

OutsideTypeOK ==
  /\ caller \in [Callers -> {"waiting", "text_queued", "done", "timed_out"}]
  /\ textsSet \in 0..MaxTexts

TypeOK ==
  /\ FramesTypeOK
  /\ ProcessorsTypeOK
  /\ CollectedTypeOK
  /\ OutsideTypeOK
  /\ Sup!SupervisorTypeOK

Init ==
  /\ sent = 0
  /\ kind = [i \in Frames |-> "none"]
  /\ stage = [i \in Frames |-> TaskQueue]
  /\ pipelineReady = FALSE
  /\ pendingText = NoText
  /\ heard = [i \in Frames |-> NoText]
  /\ speechStart = "none"
  /\ fillerTriggered = FALSE
  /\ lastClassification = 0
  /\ collected = <<>>
  /\ responseReady = FALSE
  /\ samples = [s \in {"asr", "v2v", "tts"} |-> 0]
  /\ caller = [c \in Callers |-> "waiting"]
  /\ textsSet = 0
  /\ Sup!SupervisorInit

-----------------------------------------------------------------------------
(* Outside the pipeline *)

(* task.queue_frame: the frame goes to the back of the task's queue. *)
Queue(k, text) ==
  /\ sent < MaxFrames
  /\ sent' = sent + 1
  /\ kind' = [kind EXCEPT ![sent + 1] = k]
  /\ heard' = [heard EXCEPT ![sent + 1] = text]
  /\ UNCHANGED stage

(* PipelineRunner.run(task): the StartFrame is the first frame of all. *)
StartRunner ==
  /\ sent = 0
  /\ Queue("start", NoText)
  /\ UNCHANGED <<pipelineReady, pendingText, fillerVars, lastClassification, outputVars,
                 samples, caller, textsSet, supervisorVars>>

(* inject_text: the wait is over in time, queue the text... *)
InjectText(c) ==
  /\ caller[c] = "waiting"
  /\ pipelineReady
  /\ Queue("transcription", Injected)
  /\ caller' = [caller EXCEPT ![c] = "text_queued"]
  /\ UNCHANGED <<pipelineReady, pendingText, fillerVars, lastClassification, outputVars,
                 samples, textsSet, supervisorVars>>

(* ...and, after that await, the EndFrame behind it. *)
InjectEnd(c) ==
  /\ caller[c] = "text_queued"
  /\ Queue("end", NoText)
  /\ caller' = [caller EXCEPT ![c] = "done"]
  /\ UNCHANGED <<pipelineReady, pendingText, fillerVars, lastClassification, outputVars,
                 samples, textsSet, supervisorVars>>

(* The five seconds of wait_for pass first; its timer may still win the    *)
(* race against an event that has just been set.  Nothing is queued.       *)
InjectTimeout(c) ==
  /\ caller[c] = "waiting"
  /\ caller' = [caller EXCEPT ![c] = "timed_out"]
  /\ UNCHANGED <<sent, textsSet, frameVars, processorVars, supervisorVars>>

(* A telephony transport queues a frame of caller audio, or hangs up. *)
AudioArrives ==
  /\ AudioComesIn
  /\ sent > 0
  /\ Queue("audio", NoText)
  /\ UNCHANGED <<pipelineReady, pendingText, fillerVars, lastClassification, outputVars,
                 samples, caller, textsSet, supervisorVars>>

CallerHangsUp ==
  /\ AudioComesIn
  /\ sent > 0
  /\ Queue("end", NoText)
  /\ UNCHANGED <<pipelineReady, pendingText, fillerVars, lastClassification, outputVars,
                 samples, caller, textsSet, supervisorVars>>

(* Fault: a text that is still pending is not replaced. *)
SetTextIfFree ==
  /\ textsSet < MaxTexts
  /\ textsSet' = textsSet + 1
  /\ pendingText' = IF pendingText = NoText THEN textsSet + 1 ELSE pendingText
  /\ UNCHANGED <<sent, caller, heard, frameVars, pipelineReady, fillerVars,
                 lastClassification, outputVars, samples, supervisorVars>>

(* set_text: one slot, the last call wins. *)
SetText ==
  /\ textsSet < MaxTexts
  /\ textsSet' = textsSet + 1
  /\ pendingText' = textsSet + 1
  /\ UNCHANGED <<sent, caller, heard, frameVars, pipelineReady, fillerVars,
                 lastClassification, outputVars, samples, supervisorVars>>

(* More than FILLER_THRESHOLD_MS have gone by since _speech_start. *)
ThresholdPasses ==
  /\ speechStart = "running"
  /\ speechStart' = "overdue"
  /\ UNCHANGED <<outsideVars, frameVars, pipelineReady, asrVars, fillerTriggered,
                 lastClassification, outputVars, samples, supervisorVars>>

-----------------------------------------------------------------------------
(* The task and the processors *)

(* Fault: the task goes on pushing behind an EndFrame. *)
TaskPushPastEnd(i) ==
  /\ AtHead(i, TaskQueue)
  /\ Moved(i)
  /\ UNCHANGED <<outsideVars, processorVars, supervisorVars>>

(* The task hands its queue to the pipeline, and stops after an EndFrame.  *)
TaskPush(i) ==
  /\ AtHead(i, TaskQueue)
  /\ \A j \in Frames : j < i => kind[j] # "end"
  /\ Moved(i)
  /\ UNCHANGED <<outsideVars, processorVars, supervisorVars>>

InputPass(i) ==
  /\ AtHead(i, Input)
  /\ pipelineReady' = (pipelineReady \/ kind[i] = "start")
  /\ PassOn(i)
  /\ UNCHANGED <<outsideVars, asrVars, fillerVars, lastClassification, outputVars,
                 samples, supervisorVars>>

VadPass(i) ==
  /\ AtHead(i, Vad)
  /\ Moved(i)
  /\ UNCHANGED <<outsideVars, processorVars, supervisorVars>>

(* _pending_text or the canned text: the empty string counts as unset. *)
TextToHear == IF pendingText \in Texts \ EmptyTexts THEN pendingText ELSE Canned

(* Fault: the preloaded text is read but not cleared. *)
AsrTranscribeKeepsText(i) ==
  /\ AtHead(i, Asr)
  /\ kind[i] = "audio"
  /\ heard' = [heard EXCEPT ![i] = TextToHear]
  /\ samples' = [samples EXCEPT !["asr"] = @ + 1]
  /\ Become(i, "transcription")
  /\ UNCHANGED <<outsideVars, pipelineReady, pendingText, fillerVars, lastClassification,
                 outputVars, supervisorVars>>

(* The simulated delay is over: take the text, clear the slot, emit the    *)
(* transcription.  While the delay lasts the frame waits at this stage.    *)
AsrTranscribe(i) ==
  /\ AtHead(i, Asr)
  /\ kind[i] = "audio"
  /\ heard' = [heard EXCEPT ![i] = TextToHear]
  /\ pendingText' = NoText
  /\ samples' = [samples EXCEPT !["asr"] = @ + 1]
  /\ Become(i, "transcription")
  /\ UNCHANGED <<outsideVars, pipelineReady, fillerVars, lastClassification, outputVars,
                 supervisorVars>>

AsrPass(i) ==
  /\ AtHead(i, Asr)
  /\ kind[i] # "audio"
  /\ PassOn(i)
  /\ UNCHANGED <<outsideVars, processorVars, supervisorVars>>

(* A transcription starts the clock; a text frame, had one come this way,  *)
(* would stop it and trigger the filler if the threshold had passed.       *)
FillerStep(i) ==
  /\ AtHead(i, Filler)
  /\ speechStart' = IF kind[i] = "transcription" THEN "running"
                    ELSE IF kind[i] = "text" THEN "none" ELSE speechStart
  /\ fillerTriggered' = IF kind[i] = "transcription" THEN FALSE
                        ELSE fillerTriggered \/ (kind[i] = "text" /\ speechStart = "overdue")
  /\ PassOn(i)
  /\ UNCHANGED <<outsideVars, pipelineReady, asrVars, lastClassification, outputVars,
                 samples, supervisorVars>>

(* The bridge awaits route_to_agent(session_id, frame.text): the stretches *)
(* of that call are steps of the bridge on the transcription it handles.   *)
Bridging(i) == AtHead(i, Bridge) /\ kind[i] = "transcription"

BridgeRoutes(i) ==
  /\ Bridging(i)
  /\ \/ \E l \in Classifiable : Sup!Classify(i, l)
     \/ Sup!Route(i)
     \/ Sup!Execute(i)
  /\ UNCHANGED <<outsideVars, frameVars, processorVars>>

(* Fault: only the first classification is remembered. *)
BridgeReplyKeepsFirst(i) ==
  /\ Bridging(i)
  /\ Sup!Return(i)
  /\ lastClassification' = IF lastClassification = 0 THEN i ELSE lastClassification
  /\ samples' = [samples EXCEPT !["v2v"] = @ + 1]
  /\ Become(i, "text")
  /\ UNCHANGED <<outsideVars, pipelineReady, asrVars, fillerVars, outputVars>>

(* The call returned: remember its classification, push the agent's reply. *)
BridgeReply(i) ==
  /\ Bridging(i)
  /\ Sup!Return(i)
  /\ lastClassification' = i
  /\ samples' = [samples EXCEPT !["v2v"] = @ + 1]
  /\ Become(i, "text")
  /\ UNCHANGED <<outsideVars, pipelineReady, asrVars, fillerVars, outputVars>>

(* Fault: the exception is logged and nothing is said. *)
BridgeFallsSilent(i) ==
  /\ Bridging(i)
  /\ Sup!Raise(i)
  /\ PassOn(i)
  /\ UNCHANGED <<outsideVars, processorVars>>

(* Fault: the latency is observed in a finally block. *)
BridgeApologyObserved(i) ==
  /\ Bridging(i)
  /\ Sup!Raise(i)
  /\ samples' = [samples EXCEPT !["v2v"] = @ + 1]
  /\ Become(i, "text")
  /\ UNCHANGED <<outsideVars, pipelineReady, asrVars, fillerVars, lastClassification,
                 outputVars>>

(* The call raised: push the apology and return before anything is kept. *)
BridgeApologise(i) ==
  /\ Bridging(i)
  /\ Sup!Raise(i)
  /\ Become(i, "text")
  /\ UNCHANGED <<outsideVars, processorVars>>

BridgePass(i) ==
  /\ AtHead(i, Bridge)
  /\ kind[i] # "transcription"
  /\ PassOn(i)
  /\ UNCHANGED <<outsideVars, processorVars, supervisorVars>>

(* After the simulated delay the text goes on, then its audio. *)
TtsStep(i) ==
  /\ AtHead(i, Tts)
  /\ samples' = [samples EXCEPT !["tts"] = IF kind[i] = "text" THEN @ + 1 ELSE @]
  /\ PassOn(i)
  /\ UNCHANGED <<outsideVars, pipelineReady, asrVars, fillerVars, lastClassification,
                 outputVars, supervisorVars>>

(* Fault: what the call came to is said, not what the caller should hear. *)
MessageRaw(i) == [turn |-> i, how |-> outcome[i]]

(* Fault: a reply is kept ahead of the call and spoken if that raises. *)
MessageAlwaysReply(i) == [turn |-> i, how |-> "reply"]

(* The text of frame i: the agent's message or the apology. *)
Message(i) == [turn |-> i, how |-> IF outcome[i] = "returned" THEN "reply" ELSE "apology"]

OutputStep(i) ==
  /\ AtHead(i, Output)
  /\ collected' = IF kind[i] = "text" THEN Append(collected, Message(i)) ELSE collected
  /\ responseReady' = (responseReady \/ kind[i] = "text")
  /\ PassOn(i)
  /\ UNCHANGED <<outsideVars, pipelineReady, asrVars, fillerVars, lastClassification,
                 samples, supervisorVars>>

-----------------------------------------------------------------------------
Outside ==
  \/ StartRunner
  \/ \E c \in Callers : InjectText(c) \/ InjectEnd(c) \/ InjectTimeout(c)
  \/ AudioArrives
  \/ CallerHangsUp
  \/ SetText
  \/ ThresholdPasses

(* Each of these is one asyncio task: the task's own, or a processor's. *)
TaskTask   == \E i \in Frames : TaskPush(i)
InputTask  == \E i \in Frames : InputPass(i)
VadTask    == \E i \in Frames : VadPass(i)
AsrTask    == \E i \in Frames : AsrTranscribe(i) \/ AsrPass(i)
FillerTask == \E i \in Frames : FillerStep(i)
BridgeTask == \E i \in Frames : BridgeRoutes(i) \/ BridgeReply(i) \/ BridgeApologise(i)
                                \/ BridgePass(i)
TtsTask    == \E i \in Frames : TtsStep(i)
OutputTask == \E i \in Frames : OutputStep(i)

Next ==
  \/ Outside
  \/ TaskTask
  \/ InputTask
  \/ VadTask
  \/ AsrTask
  \/ FillerTask
  \/ BridgeTask
  \/ TtsTask
  \/ OutputTask

(* The runner is started, inject_text is scheduled after each await and    *)
(* its timer does fire, and every processor's task goes on with the head   *)
(* of its queue: the simulated delays are finite and the stub agents       *)
(* return (nothing bounds the wait for an agent).  Callers need not speak, *)
(* hang up or preload a text, and no threshold need pass.                  *)
Fairness ==
  /\ WF_vars(StartRunner)
  /\ \A c \in Callers :
       /\ WF_vars(InjectText(c) \/ InjectTimeout(c))
       /\ WF_vars(InjectEnd(c))
  /\ WF_vars(TaskTask)
  /\ WF_vars(InputTask)
  /\ WF_vars(VadTask)
  /\ WF_vars(AsrTask)
  /\ WF_vars(FillerTask)
  /\ WF_vars(BridgeTask)
  /\ WF_vars(TtsTask)
  /\ WF_vars(OutputTask)

Spec == Init /\ [][Next]_vars /\ Fairness

-----------------------------------------------------------------------------
(* Correctness *)

HungUp == \E e \in Frames : kind[e] = "end"
Closed == \E e \in Frames : kind[e] = "end" /\ stage[e] = Sink

(* The turns queued ahead of every EndFrame: those the session must answer. *)
AskedTurns == {i \in Frames : Turn(i) /\ \A j \in Frames : j < i => kind[j] # "end"}

Answered(i) == \E n \in DOMAIN collected : collected[n].turn = i

(* The EndFrame that inject_text queues right behind its text              *)
(* (transport.py:138) never cuts a turn off: when it comes out of the      *)
(* pipeline, every turn queued ahead of it has been collected, the slow    *)
(* ones and the ones whose agent raised (agent_bridge.py:59) included.     *)
ClosedSessionAnsweredAll == Closed => \A i \in AskedTurns : Answered(i)

(* However the processors interleave, collected_text (transport.py:60) has *)
(* at most one message for each turn, in the order the turns were queued,  *)
(* and none for a turn queued behind an EndFrame.                          *)
AnswersOnceInOrder ==
  /\ \A m, n \in DOMAIN collected : m < n => collected[m].turn < collected[n].turn
  /\ \A n \in DOMAIN collected : collected[n].turn \in AskedTurns

(* last_classification (agent_bridge.py:37), which callers read after the  *)
(* pipeline has completed, belongs to the latest turn that got a reply,    *)
(* never to an earlier one, to one whose agent raised or to one whose call *)
(* is still running.                                                       *)
Replied(i) == kind[i] = "text" /\ outcome[i] = "returned"
LastClassificationIsLastReply ==
  /\ lastClassification # 0 => Replied(lastClassification)
  /\ \A i \in Frames : Replied(i) => i <= lastClassification

(* A text preloaded with set_text (asr.py:44) is transcribed at most once, *)
(* texts are transcribed in the order they were set, and the one still     *)
(* pending is newer than all that have been heard, although set_text may   *)
(* be called while the ASR is in the middle of its delay (asr.py:61).      *)
PreloadedTextsHeardOnce ==
  \A i \in Frames : heard[i] \in Texts =>
    /\ heard[i] \notin EmptyTexts
    /\ pendingText # NoText => heard[i] < pendingText
    /\ \A j \in Frames : i < j /\ heard[j] \in Texts => heard[i] < heard[j]

(* The text set last is the one that is heard (asr.py:44-46, 63): until it *)
(* is, it is what is pending, although an earlier text or the empty string *)
(* may have been in the slot, and audio have been half-way through the ASR,*)
(* when it was set.  Nothing but the ASR takes it, and an empty one it     *)
(* takes without its being heard.                                          *)
LatestTextIsHeard ==
  /\ pendingText # NoText => pendingText = textsSet
  /\ pendingText = NoText /\ textsSet \in Texts \ EmptyTexts =>
       \E i \in Frames : heard[i] = textsSet

(* Each histogram holds one sample for each turn that passed its stage:    *)
(* asr_latency_ms for audio transcribed (asr.py:66), voice_to_voice for    *)
(* replies but not apologies (agent_bridge.py:74), tts_latency_ms for      *)
(* every text spoken (tts.py:57), and no turn is sampled twice.            *)
LatencySamplesPerTurn ==
  /\ samples["asr"] = Cardinality({i \in Frames : heard[i] \in Texts \cup {Canned}})
  /\ samples["v2v"] = Cardinality({i \in Frames : outcome[i] = "returned"})
  /\ samples["tts"] = Cardinality({i \in Frames : kind[i] = "text" /\ stage[i] > Tts})

(* A session routes one turn at a time, however many are queued: the       *)
(* bridge awaits route_to_agent (agent_bridge.py:55) in the task that      *)
(* would handle the next one, so that no two of its calls overlap.         *)
CallRuns(i) == progress[i] # "called" /\ outcome[i] = "none"
OneCallAtATime == \A i, j \in Frames : CallRuns(i) /\ CallRuns(j) => i = j

(* Of each kind, the caller hears no more replies than executions are      *)
(* counted (base.py:44): nobody is told of something that was not done,    *)
(* and what was interrupted on its way is heard as an apology              *)
(* (agent_bridge.py:59).                                                   *)
RepliesHeard(l) ==
  {i \in Frames : intent[i] = l /\ \E n \in DOMAIN collected :
                    collected[n].turn = i /\ collected[n].how = "reply"}
RepliesAreCounted ==
  \A l \in Sup!Intents : Cardinality(RepliesHeard(l)) <= tool_execution_total[l]

(* What makes these hold, and is inductive: the queues keep the frames in  *)
(* order, nothing moves behind an EndFrame, each kind of frame is only at  *)
(* the stages it belongs to, what has been collected is exactly the texts  *)
(* that have come out of the pipeline, and no frame gets past the first    *)
(* processor where pushes are refused.                                     *)
QueueOrder == \A i, j \in Frames : i < j => stage[j] <= stage[i]
SentPrefix == \A i \in Frames : kind[i] = "none" <=> sent < i
UnsentWaits == \A i \in Frames : sent < i => stage[i] = TaskQueue
EndBlocks  == \A i, j \in Frames : j < i /\ kind[j] = "end" => stage[i] = TaskQueue
KindAtStage ==
  \A i \in Frames :
    /\ kind[i] = "audio" => stage[i] <= Asr
    /\ kind[i] = "transcription" => stage[i] <= Bridge
    /\ kind[i] = "text" => stage[i] > Bridge
CollectedExactly ==
  \A i \in Frames : Answered(i) <=> kind[i] = "text" /\ stage[i] = Sink
CollectedInOrder ==
  \A m, n \in DOMAIN collected : m < n => collected[m].turn < collected[n].turn
RefusedAtInput == ChecksStarted => \A i \in Frames : stage[i] <= Input
PipelineInv ==
  /\ RefusedAtInput
  /\ QueueOrder
  /\ SentPrefix
  /\ UnsentWaits
  /\ EndBlocks
  /\ KindAtStage
  /\ CollectedExactly
  /\ CollectedInOrder
  /\ LastClassificationIsLastReply

(* A session implements the turn-taking promise, step by step. *)
Turns == INSTANCE TurnTaking WITH
           Turns <- Frames, asked <- AskedTurns, hungUp <- HungUp,
           answers <- collected, closed <- Closed
PipelineTakesTurns == Turns!TurnSpec

-----------------------------------------------------------------------------
(* What the documentation says and the code does not do *)

(* transport.py:83-91, the usage of StubTransport: await inject_text, then *)
(* response_ready.wait(), and print what was collected.  It comes to an    *)
(* end: inject_text times out, or it queues both its frames and the waiter *)
(* is woken, by an apology if the agent raised.                            *)
DocumentedUsageEnds ==
  \A c \in Callers :
    <>(caller[c] = "timed_out" \/ (caller[c] = "done" /\ responseReady))

(* agent_bridge.py:38 calls last_classification the "Most recent           *)
(* classification result".  A turn that has been classified and answered   *)
(* is never newer than the classification the bridge remembers.            *)
LastClassificationIsMostRecent ==
  \A i \in Frames :
    kind[i] = "text" /\ intent[i] # Sup!NoIntent => i <= lastClassification

=============================================================================
