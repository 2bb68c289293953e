# Hausa Voice Swarm, specified

TLA+ modules, TLC configurations and TLAPS proofs for the voice-agent service in this
repository. Paths below are relative to the repository's Python package `src/` unless they
start with `docs/`, `k8s/` or `tests/`.

Contents: [the system](#the-system), [the modules](#the-modules),
[what the runs show](#what-the-runs-show), [what is proved](#what-is-proved),
[disagreements found](#disagreements-between-code-and-documentation),
[not modelled](#what-is-not-modelled), [plan](#plan), [running it](#running-it).

## The system

A caller's speech comes in over a transport, becomes a transcription, is classified and routed
to a domain agent, and the agent's reply is spoken back. Around that sit an HTTP application
with health and metrics endpoints, Prometheus metrics that drive a Kubernetes autoscaler, and a
Kafka event bus for analytics.

| component | files | state it keeps | operations | hard part |
|---|---|---|---|---|
| agent supervisor | `agents/supervisor.py`, `agents/intent.py`, `agents/domains/*` | three counters shared by every call | `route_to_agent` | calls interleave at each await and may raise at each |
| voice pipeline | `voice/pipeline.py`, `asr.py`, `fillers.py`, `agent_bridge.py`, `tts.py`, `vad_config.py` | pending text, filler clock, last classification, latency histograms, frames in queues | `process_frame` of each processor, `set_text`, `create_voice_pipeline` | seven concurrent processors, failures in the middle of a turn, the EndFrame |
| transport | `voice/transport.py` | ready event, response event, collected text | `inject_text`, input and output processors, `create_transport` | a wait with a timeout, two frames queued across an await |
| HTTP application | `api/app.py`, `metrics/middleware.py` | readiness flag, session gauge, request counter | lifespan, `/health`, `/metrics`, `/graphql`, `/test/simulate-call`, middlewares | concurrent requests, exceptions, cancellation, shutdown order |
| WebSocket server | `voice/ws_server.py` | the listening socket, open audio streams | start, the handler of a stream, close | streams that are open when the pod stops |
| event producer | `events/producer.py`, `session_events.py`, `schemas.py` | the client, if any | `start`, `stop`, `publish`, the `emit_*` functions | publishing while it starts, fails or stops; repeated sends |
| event consumer | `events/consumer.py` | the client, a running flag, committed offsets at the broker | `start`, `run`, `stop`, `handle_message` | commits that run ahead of handling, exceptions, crashes |
| GraphQL API | `api/schema.py`, `dataloader.py`, `mock_resolvers.py` | per request: each loader's cache and its waiting batch | three queries and four mutations over constant tables | fields that run concurrently, batches, rows given out by position, an error in one field |
| autoscaling | `k8s/hpa.yaml` | none in the code | the controllers' | it trusts the gauge |
| declarations | `config/`, `models/`, `utils/logging.py`, `metrics/definitions.py` | none of their own | | |
| placeholders | `db/*`, `agents/base.py`, `agents/orchestrator.py`, `metrics/collectors.py`, `voice/vad.py` | none | | |
| benchmarks | `benchmarks/` | none | offline load scripts | |

How they interact: the bridge processor of a voice session and the `/test/simulate-call` handler
both await `route_to_agent`, whose counters they share; they observe the same latency histogram,
and `create_voice_pipeline` and `simulate_call` write the same gauge; the middleware counts what
handlers answer; the lifespan starts and closes the WebSocket server; the fields of a GraphQL query
share the loaders in their request's context, which different requests do not; producer and
consumer share only Kafka topics. At this commit nothing outside the tests starts a producer, a
consumer or a pipeline.

What makes each part correct:

- supervisor: the counters account for the calls, and every call ends;
- pipeline and transport: a session that closes has answered every turn asked before the hang-up,
  once and in order; the text preloaded last is heard, and heard once; what the bridge remembers
  belongs to the latest reply; latencies are sampled once;
- application: the gauge equals the sessions there are, responses are counted once under the status
  sent, what requests and sessions count together adds up, a healthy pod is one that listens, every
  request is over some time, and a shutdown ends, with no audio stream left behind;
- GraphQL: every field says what it would say if asked alone, from a fetch of its own request, at
  one fetch per loader, and every query is answered;
- events: a session's events are seen in order, what was acknowledged is handled while the consumer
  runs, no more is lost than one message for each run that ended, and whatever fails, the consumer
  goes back to its checkpoint and no further.

`PROJECT.json` lists the hazards behind these, each at its line, with the properties that cover
it.

## The modules

| module | models | notes |
|---|---|---|
| `Supervisor` | `route_to_agent` and everything it calls | instantiated by `VoicePipeline` and `AgentApi` |
| `TurnTaking` | nothing in the code: the promise of a session | abstract specification |
| `VoicePipeline` | one session: task, seven processors, callers | implements `TurnTaking` |
| `VoicePipeline_proofs`, `VoiceHeard_proofs`, `VoiceRouting_proofs`, `Supervisor_proofs`, `AgentApi_proofs`, `EventBus_proofs`, `GraphQL_proofs` | | theorems about these modules |
| `AgentApi` | application, middlewares, WebSocket server, metrics | composes requests with `Supervisor` and with voice sessions |
| `MockResolvers` | `api/mock_resolvers.py` | the tables and the functions over them, as operators |
| `GraphQL` | schema, loaders and context of `/graphql` | uses `MockResolvers` |
| `EventTopics` | the topics and the event types | declares the log both sides share |
| `EventProducer`, `EventConsumer` | the two ends of the bus | |
| `EventDelivery` | nothing in the code: the promise of the consuming side | abstract specification |
| `EventBus` | their composition | specification and end-to-end properties; implements `EventDelivery` |
| `MC*` | | instances for TLC |

**Granularity.** The code is asyncio: a coroutine runs until its next `await`. An action is such
a stretch of code. A log call that only delays the next stretch is merged with it when nothing
else reads or writes what lies between; where an exception at that await matters
(`route_to_agent`), it is kept as a place the call may raise at.

**Supervisor.** `progress[c]` is how far call `c` has come, `outcome[c]` how it ended. `Classify`
is `classify_intent` up to its log call with the counter at `intent.py:56`; `Route` counts at
`supervisor.py:43` and looks the agent up; `Execute` is the agent's `_execute` and the counter at
`base.py:44`; `Return` and `Raise` end the call. The classifier is a stub that always says
"general", so `Classifiable` is a constant: the runs of the sessions and the API give it
`{"general"}`, the supervisor's own run all four labels.

**VoicePipeline.** A frame is a number given in the order of `queue_frame` calls. `stage[i]` is
the queue frame `i` waits in (0 for the task's own queue, 1 to 7 the processors in the order of
`pipeline.py:46-54`, 8 when it has come out), `kind[i]` its type. A processor turns a frame into
at most one frame that anything downstream reads, so the number stays with a turn from audio to
transcription to reply. `AtHead(i, p)` says that frame `i` is the next one of processor `p`:
whatever was queued before it has moved on. Each processor has one action per branch of its
`process_frame`. Clocks are abstracted: `InjectTimeout` may fire at any moment, `ThresholdPasses`
is the 500 ms of the filler. Texts are numbers (the n-th `set_text`), of which `EmptyTexts` are
the ones that pass `""`.

`ChecksStarted` says which pipecat runs the session. No processor of this repository calls
`super().process_frame`, which is where pipecat takes a processor to be started. The release in
`uv.lock`, 0.0.105, checks that and drops what such a processor pushes: `PassOn` and `Become`, the
`push_frame` of these processors, then leave the frame where it is, so that the StartFrame sets
`pipeline_ready` at the input and nothing ever gets further. The project itself asks for `>=0.0.40`
(`pyproject.toml:15`), which admits releases that do not check, and the processors are plainly
written for one. `ChecksStarted = FALSE` is that pipeline, and the one the safety runs explore,
since with `TRUE` their properties hold for want of anything happening; the theorems are for both
values. Nothing is claimed of what a session must eventually do: with the pipecat of `uv.lock` it
does nothing (run `usage`).

**AgentApi.** `phase[r]` is how far request `r` has come through the middlewares and its handler,
`lifespan` where the lifespan context manager stands, `connection[c]` whether audio stream `c` is
open and who has ended it: its caller, or the server, whose `close()` in `BeginShutdown` cuts the
streams one after the other while `EndShutdown` (`wait_closed`) waits for the last handler. `Page`
stands for the routes without effect on the modelled state (`/metrics`, `/graphql`, unknown paths
and methods, redirects, invalid bodies), which answer with one of `PageStatuses`. A simulated
call's `finally` is part of each way the call ends: `SimulateReturn`, `SimulateRaise`,
`SimulateCancelled`. Voice sessions appear through what they do to the metrics, which are globals
of the process: a session raises the gauge, and each of its `Turns` is a call of `Supervisor`
beside those of the requests, which ends in `TurnReply` (with a latency sample), in `TurnApology`,
or with its session in `SessionCancelled`. `AtTurn` is the bridge awaiting one call after the
other. `create_transport` is the guard that lets only the stub provider create a session.

**GraphQL.** `ready` is the queue of callbacks of the event loop, first in, first out: a field's
task, or the dispatch of a loader's batch. `AccountBalance`, `TransactionHistory` and
`NetworkStatus` run a field up to its `await`; `Load` is `DataLoader.load` of the library: a key
that is in the cache is shared, a new one joins the batch, and the first of a batch puts a
dispatch behind what is ready. `Dispatch` calls the repository's load functions and gives their
rows out by position. The fields of a batch may then `Resume` in any order. Mutations run their
fields one after the other and never wait, so that `Mutate` is one action.
`ready`, `future` and `batch` are the machinery of the library; `fetches` and `arrived` record what
the properties need. A row stands for itself by its id, `None` is the empty sequence, and `UUID`
is the constructor as a function from the strings it takes: two spellings may give one key.

**EventProducer, EventConsumer, EventBus.** `producer` and `consumer` are the attributes
`_producer` and `_consumer`, with the state of the client they hold. `publish` is cut at
`send_and_wait`. In the consumer, `Fetch` is one step of the `async for` with the test of
`_running` behind it (there is no await between them); `AutoCommit` is the client committing its
position while `run` does whatever it does; `LeaveGroup` is the last commit inside the client's
`stop`, which may fail.

**External code** is modelled from how this repository uses it. These are assumptions:

- Pipecat: a release either checks that a processor has been started before it takes its frames, as
  0.0.105 does, or does not (`ChecksStarted`, above). Processors run concurrently, each handles its
  frames one after the other and in order; `PipelineTask` pushes queued frames in order and nothing
  behind an EndFrame; the VAD processor passes every frame on. Pipecat may let raw audio, a system
  frame, overtake other frames; the model keeps every frame in order. The runs have either audio or
  injected text, so that audio meets only the StartFrame and the EndFrame there. A log call inside
  a processor is taken to return.
- Starlette: the middleware added last is outermost; CORSMiddleware answers a preflight itself,
  with a 200 or a 400; an exception that passes all of them is answered with a 500 by the
  server-error handler; the server may cancel a request's task.
- Starlette and uvicorn run requests before, during and after the lifespan, as the endpoint tests
  do.
- websockets: `close()` refuses new streams and closes the open ones, after which their handlers
  return; `close_timeout` bounds how long that takes; `wait_closed` returns when all handlers have.
- strawberry's `DataLoader`: a cache of futures per loader, a dispatch queued with the event loop
  behind the callbacks that are ready, no maximum for a batch; a result list of the wrong length
  raises in every future of the batch.
- graphql-core: the fields of a query are tasks that are gathered, those of a mutation run
  serially; an error in a field that may not be null makes all of the data null, without waiting
  for the other fields.
- aiokafka: `send_and_wait` returns when the broker has the event, may repeat a request, and may
  raise either way; a client that is closing refuses new events and waits for those in flight; a
  consumer's position moves when a message is fetched, and positions are committed in the
  background and once more when the client stops. The owner of a producer or consumer does not call
  `start` and `stop` concurrently, starts a consumer again only when `run` is over, and does not
  call `start` while it holds a client that is open: nothing in the code keeps it from doing so,
  and the client that is replaced would live on, unstopped and with its partitions. `start` after a
  `start` that raised is modelled.

Operators whose comment begins with *Fault* are not part of any specification: each is a
plausible bug in the operator defined after it. Put in that operator's place it makes one
property fail (`PROJECT.json`, "mutants"), which shows that the property depends on the code.

## What the runs show

| run | instance | states | result |
|---|---|---|---|
| `supervisor` | 3 concurrent calls, 4 labels | 27,000 | passes |
| `session_text` | 2 `inject_text` calls racing on one session, 5 frames (StartFrame, two texts, two EndFrames), which move | 27,271 | passes |
| `session_audio` | audio, 3 `set_text` calls, the second with `""`, hang-up anywhere, 4 frames, which move | 343,898 | passes |
| `api` | 2 concurrent requests of any kind, a voice session with one turn, an audio stream, one lifespan | 235,840 | passes |
| `graphql` | 2 concurrent requests: 18 queries of one to three fields, 3 mutations | 64,190 | passes |
| `events` | 3 events of a session, one without a topic; each event at most twice on its topic; producer and consumer started up to twice; run may end twice | 501,000 | passes |
| `usage`, `last_classification`, `gauge`, `http_total`, `drain`, `loop` | small | | violated, see below |

- `supervisor`: `CountersAccountForCalls` (each counter is the number of calls that came that far
  under that label, exceptions included), `FunnelNarrows` (the relation between the counters a
  dashboard may rely on), `EveryCallSettles`.
- `session_text`: `ClosedSessionAnsweredAll` (the EndFrame queued right behind a text never cuts it
  off), `AnswersOnceInOrder`, `LastClassificationIsLastReply`, `OneCallAtATime` (no two calls of
  `route_to_agent` overlap in a session), `RepliesAreCounted` (no reply is heard that is not among
  the executions counted) and `PipelineTakesTurns` (the refinement of `TurnTaking`). A second
  `inject_text` on a session may find its text behind the first one's EndFrame. It is dropped, and
  the properties say so: what is promised is promised to turns ahead of the first EndFrame.
- `session_audio`: `PreloadedTextsHeardOnce` and `LatestTextIsHeard` (no text is heard twice, and
  the one set last is not lost to one set before it, to an empty one or to the ASR being at work),
  with `set_text` falling into the ASR's delay, and `LatencySamplesPerTurn`.
- `api`: `GaugeOffByEndedSessions` (the gauge is never below the sessions there are, and above only
  by voice sessions that are over), `HandlerResponsesCountedOnce` (responses by status, and one
  latency sample for each simulated call answered and each turn of a session replied to, whichever
  of them raise, are cancelled or overlap), `HealthyMeansListening`, `NoStreamOutlivesShutdown`,
  `RequestsFinish`, `ShutdownEnds` (although a caller never hangs up).
- `graphql`: `ResponsesMatchDirectLookup` (every field says what a direct lookup of its key says,
  with histories compared to `Wanted`, which says which transactions are asked for without a slice,
  also for negative arguments; the data is null exactly if an id is invalid), `OneFetchPerLoader`,
  `AnsweredFromOwnFetch` (nothing is answered from what another request has fetched),
  `QueriesAnswered` (although one field fails while others wait for their batch). The invariant
  `GraphQLTypeOK` also ties the library's state together: keys wait in a batch exactly as long as a
  dispatch for it is queued and their futures are pending.
- `events`: `NoRepeatsWithinALife`, `SessionsSeenInOrder`, `RunSkipsOneAtMost`,
  `AckedEventsReachHandler`, and `BusDeliversFromCheckpoints`, the refinement of `EventDelivery`:
  topics only grow, messages are passed one at a time, seen or lost, the checkpoint never goes back
  and is at most one message ahead of what was passed, and only a new client takes the consumer
  back, exactly to the checkpoint. The first two are about one life of the consumer, from a start
  to the next. Across starts they do not hold: a run raises on a message, is called again and goes
  on behind it, the process dies before the next commit, and the next life handles the message it
  had skipped behind one that was handled already.

**Bounds.** `MaxFrames`, `MaxTexts`, `MaxStarts`, `MaxCopies`, `MaxLives` and `MaxRuns` are guards
on counters that grow forever; the sets of calls, callers, requests and sessions are finite. Three
calls are enough for a call to be overtaken while another one fails. Two callers give every
interleaving of the pairs of frames `inject_text` queues, five frames hold both pairs. Four frames
hold two audio turns between StartFrame and hang-up, or three without one, and three texts one that
is overwritten or empty. Two requests and a session with a turn give each kind of request every
other kind, and a session that is yet to come, live, in the middle of a call, cancelled there or
over beside them; sessions share with each other what they share with requests. `PageStatuses` is
`{200, 404}`: a page's status is not looked at but as the label it is counted under. One stream is
enough there, as streams share nothing but the server, and `drain` has two. The GraphQL queries
have a key twice in a batch (in two spellings, too), keys found and not found, one and both
loaders, an invalid id alone, behind a load and between two loads, a `last` that is zero, negative,
within the table and beyond it; two requests give every interleaving of a batch with another
request's. Two lives and two ends of `run` give a call of `run` after an exception, and a restart
after a stop or a crash. One session publishes in the `events` run: sessions share nothing in the
producer but its state and the topics, and the properties relate events of one session.

**Deadlock** is not checked: sessions, calls, requests, streams and bounded histories end.

**Fairness** is weak fairness of what the event loop goes on with by itself: each processor's
task (one conjunct for each processor, as each is one asyncio task), the two halves of
`inject_text` and its timer, each request's handler and middleware, a suspended call of
`route_to_agent`, the ready callbacks of the event loop and the tasks whose future is resolved, a
shutdown that has begun and the closing of each stream by it (which `close_timeout` bounds), a
send that is in flight (the client times out), and an active `run`. The
simulated delays are finite and the stub agents return; nothing in the code bounds the wait for
an agent, so a real agent needs a timeout of its own for `EveryCallSettles` and `RequestsFinish` to
carry over. Nothing is assumed of callers, clients, owners, voice sessions beside the requests, the
clock behind the filler, or of the lifespan before its shutdown begins. The fairness of a voice
session serves no liveness property, as there is none that its code has; it makes the counterexample
of `usage` a real one, which does not merely stop.

## What is proved

`VoicePipeline_proofs` is checked by TLAPS for every number of frames and texts, every set of
callers and of labels and for a pipecat of either kind, under `PipelineAssumption` and
`LabelsAssumption` only (the bounds are natural numbers, `EmptyTexts` a subset of the texts, the
labels ones the classifier has):

- `TypeCorrect`: `Spec => []TypeOK`;
- `ClosedSessionsAnswered`: `Spec => []ClosedSessionAnsweredAll`;
- `AnswersOnceInOrderAlways`: `Spec => []AnswersOnceInOrder`;
- `LastClassificationCorrect`: `Spec => []LastClassificationIsLastReply`;
- `PipelineRefinesTurnTaking`: `Spec => PipelineTakesTurns`.

The argument. None of these is inductive: that the session has answered everything when the
EndFrame comes out says nothing about the step before. `PipelineInv` adds why it is so. Frames
never overtake (`QueueOrder`: an earlier frame is at the same stage or further); unsent frames have
no type and wait (`SentPrefix`, `UnsentWaits`); behind an EndFrame everything stays in the task's
queue (`EndBlocks`); a turn is audio only up to the ASR, a transcription only up to the bridge, a
text only behind it (`KindAtStage`); and what has been collected is exactly the texts that came out
(`CollectedExactly`, `CollectedInOrder`); where pushes are refused, no frame gets past the input
(`RefusedAtInput`). When the EndFrame has come out, everything ahead of it has by `QueueOrder`, it
is a text by `KindAtStage`, so it has been collected by `CollectedExactly`. `StepShapes` reduces
the actions to the few ways they move frames (queue one, move one on if it may move, move none), so
that each conjunct is proved once for each shape and not once for each action; `FrameInvStep`,
`CollectedStep` and `ClassificationStep` are those proofs. The refinement follows from the
invariant: queuing a turn is `Ask`, queuing the first EndFrame `HangUp`, collecting a text
`Answer`, the EndFrame coming out `Close`, and every other step stutters.

`Supervisor_proofs` holds for every finite set of calls and every set of labels
(`CallsAssumption`, `ClassifiableAssumption`):

- `SupervisorTypesCorrect`, `CountersAccountForCallsAlways`, `FunnelNarrowsAlways`: `SupervisorSpec`
  implies `[]SupervisorTypeOK`, `[]CountersAccountForCalls` and `[]FunnelNarrows`.

`SupervisorInv` joins the types and the counters with two facts the counting needs: a call has a
label exactly from its classification on (`LabelFitsProgress`), so that a call classified now was
in nobody's count before, and a call that returned has executed its agent. Each action then adds
one call to the set behind one counter and leaves the other sets alone; an end of a call, by
return or exception, leaves them all alone. The funnel is the inclusion of those sets.

`AgentApi_proofs` holds for every set of streams and finite sets of requests, sessions and turns
(`ApiAssumption`, `FiniteAssumption`, `PageAssumption`, `TurnsAssumption`):

- `ApiTypesCorrect`, `NoStreamOutlivesShutdownAlways`, `GaugeOffByEndedSessionsAlways`,
  `ResponsesCountedOnce`: `Spec` implies that these invariants always hold;
- `HealthyMeansListeningAlways`: `Spec => HealthyMeansListening`.

`ApiInv` adds to the types what the other theorems rest on: the state of the lifespan decides
those of the server and of the readiness flag, and a closed server has no streams
(`ServerFollowsLifespan`); only a simulated call is routed, and a request that is not dispatched
has no kind (`KindFitsPhase`). The gauge equation is then kept by each step that moves a request
into or out of `InFlight`, or a session from `Live` to `Over`. The request counter also needs that
an unanswered request has no status and that a handler never answers 500 (`StatusFitsPhase`). The
latency histogram counts two disjoint sets, of requests answered and of turns replied to, of which a
step adds to one at most (`CountsSplit`).

`VoiceHeard_proofs` goes on from `VoicePipeline_proofs`, under the same assumptions:

- `TextsHeardOnce`: `Spec => []PreloadedTextsHeardOnce`;
- `LatestTextIsHeardAlways`: `Spec => []LatestTextIsHeard`;
- `OneSamplePerTurn`: `Spec => []LatencySamplesPerTurn`.

`HeardInv` is inductive relative to `PipelineInv`: texts are numbered as they are set, a frame
heard as one has left the ASR (`TextsNumbered`), and nothing is heard in a frame before it is
transcribed (`SilentUntilTranscribed`), so that the text taken next is newer than any that was
heard and the frame it is heard in is behind theirs. The histograms are a counting argument: each
step adds at most one turn to the sets of turns that are transcribed, replied to and spoken, and a
sample with it.

`VoiceRouting_proofs` is about the calls of `route_to_agent` a session makes, under the same
assumptions:

- `OneCallAtATimeAlways`: `Spec => []OneCallAtATime`;
- `RepliesAreCountedAlways`: `Spec => []RepliesAreCounted`;
- `TurnsAreAccountedFor`: `Spec => [](Sup!CountersAccountForCalls /\ Sup!FunnelNarrows)`.

`CallsInv` says that a call runs only for the turn at the bridge's head (`CallsRunAtHead`), that a
turn is a text once its call has ended (`OutcomeFitsKind`), and that what is heard as a reply has
returned (`RepliesReturned`). The counters need no new proof: every step of a session is one of
`Supervisor` with the frames as calls, or leaves it alone (`StepRoutes`), so `SupervisorInv` of
`Supervisor_proofs`, instantiated, holds in a session. The replies heard under a label are then
among the calls executed under it. `AgentApi_proofs` ends with the same theorem about the process,
`CallsAreAccountedFor`, where the calls are those of requests and of turns of voice sessions.

`EventBus_proofs` holds for every set of sessions, every script of events and all bounds
(`BusAssumption`: the script is a sequence of event types, the bounds are natural numbers):

- `BusTypeCorrect`, `LivesNeverRepeat`, `SessionsInOrder`, `RunsSkipOneAtMost`: `Spec` implies
  that `BusTypeOK`, `NoRepeatsWithinALife`, `SessionsSeenInOrder` and `RunSkipsOneAtMost` always
  hold;
- `BusImplementsDelivery`: `Spec => BusDeliversFromCheckpoints`.

`BusInv` says of the producer that a session waits for its latest event only (`OneInFlight`), so
that a send that is repeated puts nothing behind a later event (`LogInOrder`); and of the consumer
that a message is at hand exactly while run handles it (`LoopFitsClient`), that an open client's
position is behind nothing committed and at the message at hand (`PositionFitsClient`), and that
what this life has handled is behind both (`HandledBehind`). The bound on what a run costs needs
more than `Skipped`, which may jump when the client commits: `Lost` also has what has been fetched
and is neither handled nor at hand, a commit leaves it as it is, and the steps that add a message
to it end a run (`LostWithRuns`). The refinement follows from `BusInv`: letting go of the message
at hand is `Deliver` or `Lose`, fetching one that is dropped `Lose`, a commit `Checkpoint`, a stop
or a crash `GoBack`, a start `NewLife`, what the producer does `Grow`; the client that has started
is at the committed offset already.

`GraphQL_proofs` holds for all requests, queries, mutations and ids (`GraphQLAssumption`: a
query or mutation has a field and names resolvers of the schema, the values of `last` are integers,
and `Phones` has the numbers that are asked for):

- `GraphQLTypeCorrect`: `Spec => []GraphQLTypeOK`;
- `LoadersFetchOnce`: `Spec => []OneFetchPerLoader`;
- `AnswersAreFetched`: `Spec => []AnsweredFromOwnFetch`;
- `ResponsesAreDirect`: `Spec => []ResponsesMatchDirectLookup`.

Why a loader fetches once is a matter of the order of callbacks. The fields of a request are
scheduled together when it comes, a dispatch is scheduled by the first of them that loads, so all
of them run before it (`FieldsFirst`); when it runs, no field of its request is left to load
(`NothingAfterFetch`), and it finds all their keys in its batch (`BatchFits`). A batch gives one
row per key by position, missing rows included, so a future that is done has the row of its own
key, from a fetch of its own loader (`LoaderTypes`, `DoneIsFetched`) and a field that resumes says
what the tables say of it (`FieldsRight`), slices with a zero or negative `last` included
(`SliceIsWanted`). Responses are made of these.

With these, each invariant of a passing run, both refinements and `HealthyMeansListening` are
theorems.

Only model-checked, and why:

- The liveness properties, `EveryCallSettles`, `RequestsFinish`, `ShutdownEnds`, `QueriesAnswered`
  and `AckedEventsReachHandler`: they rest on fairness, whose meaning is in ENABLED, which TLAPS
  1.4.5 does not reason about. The refinements are of the safety part of the abstract
  specifications.
- What recursive definitions compute for every input would need induction over data. The modules
  that are proved about use none: tables and slices are functions and `SubSeq`.

## Disagreements between code and documentation

1. `gauge`: `create_voice_pipeline` increments the session gauge (`voice/pipeline.py:64`) and
   nothing decrements it when the session ends, where `docs/IMPLEMENTATION-LOG.md:258` asks for
   both and `docs/DECISIONS.md:112` says the metric must be accurate, as the autoscaler uses it.
2. `http_total`: the CORS middleware is added after the metrics middleware, which puts it outside;
   preflights are not counted, where `api/app.py:70` says all requests are wrapped. Nor are the
   500s of exceptions, which `call_next` raises in front of the counter
   (`metrics/middleware.py:19`), where `metrics/definitions.py:79` says "Total HTTP requests".
3. `usage`: the usage in the docstring of `StubTransport` (`voice/transport.py:83-91`) waits for a
   response without a timeout. No processor calls `super().process_frame`, so the pipecat of
   `uv.lock` drops the StartFrame at the first of them (`voice/transport.py:46`), after
   `pipeline_ready` has been set: `inject_text` queues its frames and the wait never ends.
   `docs/IMPLEMENTATION-LOG.md:321` knows of an incompatibility of pipecat's lifecycle with text
   simulation; the docstring does not.
4. `last_classification`: a turn whose agent raises after it was classified is not remembered,
   where `voice/agent_bridge.py:38` says "most recent classification result".
5. `loop`: an exception from `handle_message` ends `run`, where `events/consumer.py:51` says it
   consumes until stopped.
6. `drain`: the shutdown closes every audio stream at once (`api/app.py:52`), where
   `docs/ARCHITECTURE.md:229` says that active sessions are drained within 300 seconds.

## What is not modelled

- What agents, classifier, resolvers and events say: mock data. Confirmation of payments has no
  state at this commit.
- Durations: histograms are counts of observations, `http_request_duration_ms` is left out, and so
  is the backlog that builds up when audio frames come faster than the ASR's 100 ms each.
- What a session must eventually do: nothing, with the pipecat of `uv.lock`, and with one that does
  not check it would rest on agents that return. The filler stands in front of the only processor
  that makes the texts it watches for (`voice/pipeline.py:50`), so that its branch for texts is
  never taken (`KindAtStage`, which is proved); when it should be is not stated as a property.
- The silent audio behind each spoken text, and what the WebSocket handler logs of each message.
- The texts of mutations, and the cancellation of a GraphQL request half way: its tasks end, and
  what they leave in its loaders nobody sees.
- The `path` label of the request counter, of which there is one series for every path a client
  makes up.
- The autoscaler. The manifests hand numbers to Kubernetes controllers, and every question about
  them (the stabilization windows, the choice of the pod that stops) is one about the algorithm of
  those controllers, of which this repository has nothing. What the repository does about it, the
  gauge and the shutdown of a pod, is in `AgentApi`.
- Rebalancing between several consumers of a group, several partitions of a topic, and a request
  that the broker serves after the producer has given it up.
- The placeholders, settings, models, logging, benchmarks and the other manifests: they keep no
  state and have no behaviour of their own.

## Plan

In order of importance; all are done but the last.

1. `Supervisor`, `TurnTaking`, `VoicePipeline` with its runs.
2. `VoicePipeline_proofs`: types, the session's safety, the refinement.
3. `AgentApi`: requests, gauge, lifespan, audio streams and the shutdown.
4. `EventTopics`, `EventProducer`, `EventConsumer`, `EventBus`.
5. `MockResolvers`, `GraphQL`: batching and caching against a direct lookup.
6. `EventDelivery` and its refinement by `EventBus`.
7. `Supervisor_proofs` and `AgentApi_proofs`: types, counters, gauge and shutdown.
8. `GraphQL_proofs`, `EventBus_proofs` and `VoiceHeard_proofs`: types and responses of queries,
   order and loss on the bus and its refinement, what a session hears and measures.
9. `VoiceRouting_proofs`: the theorems about `Supervisor` inside sessions and requests.
10. Proofs that are left: what `TurnTaking` and `EventDelivery` promise of their own, derived from
    these specifications alone.

## Running it

`tlc -config session_text.cfg MCVoicePipeline` checks a run, `tlapm VoicePipeline_proofs.tla` the
proofs about a module (two minutes at most). `PROJECT.json` lists which module goes with which
configuration.
