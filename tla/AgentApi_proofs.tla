--------------------------- MODULE AgentApi_proofs ---------------------------
(***************************************************************************)
(* Theorems about AgentApi: its types, what a healthy answer means, that a *)
(* shutdown leaves no audio stream behind, and what the gauge and the      *)
(* request counter say, for every set of streams and of labels and every   *)
(* finite set of requests, of sessions and of turns in them.               *)
(***************************************************************************)
EXTENDS AgentApi, FiniteSetTheorems, TLAPS

(* A step of the calls of route_to_agent a request or a turn can make. *)
Routes(r) ==
  \/ \E l \in Classifiable : Sup!Classify(r, l)
  \/ Sup!Route(r)
  \/ Sup!Execute(r)

(* Every label is in the agent map, so that the fallback is an agent, too. *)
LEMMA AgentIsLabel == \A l : Sup!AgentFor(l) \in Sup!Intents
  BY DEF Sup!AgentFor, Sup!AgentMap, Sup!Intents

(* The supervisor's variables keep their types when a call goes on: a call *)
(* that is routed or executed has been classified before.                  *)
LabelKnown == \A r \in Calls : progress[r] # "called" => intent[r] \in Sup!Intents

(* Each step of a call keeps the supervisor's types.                       *)
LEMMA RoutesKeepTypes ==
  ASSUME Sup!SupervisorTypeOK, LabelKnown, NEW r \in Calls,
         Routes(r) \/ Sup!Return(r) \/ Sup!Raise(r)
  PROVE  Sup!SupervisorTypeOK' /\ LabelKnown'
<1> USE DEF Sup!SupervisorTypeOK, LabelKnown, Sup!At, Sup!Progress, Sup!Outcome
<1>1. CASE \E l \in Classifiable : Sup!Classify(r, l)
  <2>1. PICK l \in Classifiable : Sup!Classify(r, l)
    BY <1>1
  <2>2. l \in Sup!Intents
    BY ApiAssumption
  <2> QED
    BY <2>1, <2>2 DEF Sup!Classify
<1>2. CASE Sup!Route(r)
  BY <1>2 DEF Sup!Route
<1>3. CASE Sup!Execute(r)
  BY <1>3, AgentIsLabel DEF Sup!Execute
<1>4. CASE Sup!Return(r)
  BY <1>4 DEF Sup!Return
<1>5. CASE Sup!Raise(r)
  BY <1>5 DEF Sup!Raise
<1> QED
  BY <1>1, <1>2, <1>3, <1>4, <1>5 DEF Routes

-----------------------------------------------------------------------------
(* Where the lifespan stands decides what the server does, whether the pod *)
(* is ready, and whether there can be a stream.                            *)
ServerFollowsLifespan ==
  /\ wsServer = "open" <=> lifespan \in {"started", "up"}
  /\ wsServer = "closing" <=> lifespan = "stopping"
  /\ ready <=> lifespan = "up"
  /\ wsServer = "closed" => Open = {}

(* A request has a kind once it is dispatched, and only simulated calls    *)
(* are routed.                                                             *)
KindFitsPhase ==
  \A r \in Requests : /\ phase[r] = "none" => kind[r] = "none"
                      /\ phase[r] = "routing" => kind[r] = "simulate"

ApiInv == ApiTypeOK /\ LabelKnown /\ ServerFollowsLifespan /\ KindFitsPhase

(* The first state satisfies the invariant.                                *)
LEMMA ApiInvInit == Init => ApiInv
<1> SUFFICES ASSUME Init PROVE ApiInv
  OBVIOUS
<1>1. Sup!SupervisorTypeOK /\ LabelKnown
  BY DEF Init, Sup!SupervisorInit, Sup!SupervisorTypeOK, Sup!Progress, Sup!Outcome, LabelKnown
<1>2. ApiTypeOK
  <2>1. http_requests_total \in [Statuses -> Nat]
    BY DEF Init
  <2>2. ready \in BOOLEAN
    BY Zenon DEF Init
  <2>3. kind \in [Requests -> Kinds] /\ phase \in [Requests -> Phases]
    BY DEF Init, Kinds, Phases
  <2>4. active_voice_sessions \in Int /\ voice_to_voice_latency_ms \in Nat
    BY DEF Init
  <2>5. status \in [Requests -> Statuses \cup {0}]
    BY DEF Init
  <2> QED
    BY <1>1, <2>1, <2>2, <2>3, <2>4, <2>5 DEF Init, ApiTypeOK, Lifespans
<1>3. ServerFollowsLifespan
  BY DEF Init, ServerFollowsLifespan, Open
<1>4. KindFitsPhase
  BY DEF Init, KindFitsPhase
<1> QED
  BY <1>1, <1>2, <1>3, <1>4 DEF ApiInv

(* The steps of the lifespan and of the streams.                           *)
LEMMA LifespanKeepsInv ==
  ASSUME ApiInv, Lifespan \/ \E c \in Connections : Stream(c)
  PROVE  ApiInv'
<1> USE DEF ApiInv, ApiTypeOK, ServerFollowsLifespan, KindFitsPhase, Open, Lifespans, lifespanVars,
            requestVars, metricVars, supervisorVars
<1>1. Sup!SupervisorTypeOK' /\ LabelKnown' /\ UNCHANGED <<requestVars, metricVars, session>>
  BY DEF Lifespan, StartWsServer, BecomeReady, BeginShutdown, EndShutdown, Stream, Connect,
         CallerLeaves, ServerCuts, Become, Sup!SupervisorTypeOK, LabelKnown
<1>2. CASE StartWsServer
  BY <1>1, <1>2 DEF StartWsServer
<1>3. CASE BecomeReady
  BY <1>1, <1>3 DEF BecomeReady
<1>4. CASE BeginShutdown
  BY <1>1, <1>4 DEF BeginShutdown
<1>5. CASE EndShutdown
  BY <1>1, <1>5 DEF EndShutdown
<1>6. ASSUME NEW c \in Connections, Stream(c) PROVE ApiInv'
  BY <1>1, <1>6 DEF Stream, Connect, CallerLeaves, ServerCuts, Become
<1> QED
  BY <1>2, <1>3, <1>4, <1>5, <1>6 DEF Lifespan

(* The steps of a request.                                                 *)
LEMMA RequestKeepsInv ==
  ASSUME ApiInv, NEW r \in Requests,
         \/ Preflight(r)
         \/ \E k \in {"simulate", "health", "page"} : Dispatch(r, k)
         \/ Handler(r)
         \/ Middleware(r)
  PROVE  ApiInv'
<1> USE DEF ApiInv, ApiTypeOK, Kinds, Phases, Statuses
<1>1. UNCHANGED <<lifespan, ready, wsServer, connection, session>>
  BY DEF Preflight, Dispatch, Handler, Middleware, Health, Page, SimulateCall, SimulateRoutes,
         SimulateReturn, SimulateRaise, SimulateCancelled, CountResponse, ServerError,
         lifespanVars
<1>2. Sup!SupervisorTypeOK' /\ LabelKnown'
  <2>1. CASE UNCHANGED supervisorVars
    BY <2>1 DEF supervisorVars, Sup!SupervisorTypeOK, LabelKnown
  <2>2. CASE Routes(r) \/ Sup!Return(r) \/ Sup!Raise(r)
    BY <2>2, RoutesKeepTypes DEF Calls
  <2> QED
    BY <2>1, <2>2 DEF Routes, Preflight, Dispatch, Handler, Middleware, Health, Page, SimulateCall,
         SimulateRoutes, SimulateReturn, SimulateRaise, SimulateCancelled, CountResponse,
         ServerError
<1>3. kind' \in [Requests -> Kinds] /\ phase' \in [Requests -> Phases]
  BY DEF Preflight, Dispatch, Handler, Middleware, Health, Page, SimulateCall, SimulateRoutes,
         SimulateReturn, SimulateRaise, SimulateCancelled, CountResponse, ServerError, Respond,
         requestVars
<1>4. status' \in [Requests -> Statuses \cup {0}]
  BY PageAssumption DEF Preflight, Dispatch, Handler, Middleware, Health, Page, SimulateCall, SimulateRoutes,
         SimulateReturn, SimulateRaise, SimulateCancelled, CountResponse, ServerError, Respond,
         requestVars
<1>5. /\ active_voice_sessions' \in Int
      /\ voice_to_voice_latency_ms' \in Nat
      /\ http_requests_total' \in [Statuses -> Nat]
  BY DEF Preflight, Dispatch, Handler, Middleware, Health, Page, SimulateCall, SimulateRoutes,
         SimulateReturn, SimulateRaise, SimulateCancelled, CountResponse, ServerError, metricVars
<1>6. ApiTypeOK'
  BY <1>1, <1>2, <1>3, <1>4, <1>5
<1>7. ServerFollowsLifespan'
  BY <1>1 DEF ServerFollowsLifespan, Open
<1>8. KindFitsPhase'
  BY DEF KindFitsPhase, Preflight, Dispatch, Handler, Middleware, Health, Page, SimulateCall,
         SimulateRoutes, SimulateReturn, SimulateRaise, SimulateCancelled, CountResponse,
         ServerError, Respond, requestVars
<1> QED
  BY <1>2, <1>6, <1>7, <1>8

(* The steps of a voice session.                                           *)
LEMMA SessionKeepsInv ==
  ASSUME ApiInv, NEW v \in Sessions, Session(v)
  PROVE  ApiInv'
  BY DEF ApiInv, ApiTypeOK, LabelKnown, ServerFollowsLifespan, KindFitsPhase, Open, Session,
         CreateVoicePipeline, SessionEnds, lifespanVars, requestVars, metricVars,
         supervisorVars, Sup!SupervisorTypeOK

(* The steps of a turn are steps of its call, and touch no request.        *)
LEMMA TurnFacts ==
  ASSUME NEW t \in Turns, Turn(t)
  PROVE  /\ t \in Calls /\ t[1] \in Sessions /\ session[t[1]] = "live"
         /\ Routes(t) \/ Sup!Return(t) \/ Sup!Raise(t)
         /\ UNCHANGED <<lifespanVars, requestVars, active_voice_sessions, http_requests_total>>
         /\ UNCHANGED session \/ session' = [session EXCEPT ![t[1]] = "over"]
<1>1. t \in Calls /\ t[1] \in Sessions
  BY TurnsAssumption DEF Calls
<1> QED
  BY <1>1 DEF Turn, TurnRoutes, TurnReply, TurnApology, SessionCancelled, AtTurn, Routes, metricVars

(* See TurnFacts.                                                          *)
LEMMA TurnKeepsInv ==
  ASSUME ApiInv, NEW t \in Turns, Turn(t)
  PROVE  ApiInv'
<1> USE DEF ApiInv, ApiTypeOK
<1>1. Sup!SupervisorTypeOK' /\ LabelKnown'
  BY TurnFacts, RoutesKeepTypes
<1>2. /\ UNCHANGED <<lifespan, ready, wsServer, connection, kind, phase, status>>
      /\ UNCHANGED <<active_voice_sessions, http_requests_total>>
  BY TurnFacts DEF lifespanVars, requestVars
<1>3. session' \in [Sessions -> {"none", "live", "over"}]
  BY TurnFacts
<1>4. voice_to_voice_latency_ms' \in Nat
  BY DEF Turn, TurnRoutes, TurnReply, TurnApology, SessionCancelled, metricVars
<1>5. ServerFollowsLifespan' /\ KindFitsPhase'
  BY <1>2 DEF ServerFollowsLifespan, KindFitsPhase, Open
<1> QED
  BY <1>1, <1>2, <1>3, <1>4, <1>5

(* Every step keeps the invariant.                                         *)
LEMMA ApiInvStep == ApiInv /\ [Next]_vars => ApiInv'
<1> SUFFICES ASSUME ApiInv, [Next]_vars PROVE ApiInv'
  OBVIOUS
<1>1. CASE Lifespan \/ \E c \in Connections : Stream(c)
  BY <1>1, LifespanKeepsInv
<1>2. ASSUME NEW r \in Requests,
             \/ Preflight(r)
             \/ \E k \in {"simulate", "health", "page"} : Dispatch(r, k)
             \/ Handler(r)
             \/ Middleware(r)
      PROVE  ApiInv'
  BY <1>2, RequestKeepsInv
<1>3. ASSUME NEW v \in Sessions, Session(v)
      PROVE  ApiInv'
  BY <1>3, SessionKeepsInv
<1>5. ASSUME NEW t \in Turns, Turn(t)
      PROVE  ApiInv'
  BY <1>5, TurnKeepsInv
<1>4. CASE UNCHANGED vars
  BY <1>4 DEF vars, ApiInv, ApiTypeOK, LabelKnown, ServerFollowsLifespan, KindFitsPhase, Open,
       lifespanVars, requestVars, metricVars, supervisorVars, Sup!SupervisorTypeOK
<1> QED
  BY <1>1, <1>2, <1>3, <1>4, <1>5 DEF Next

(* Every reachable state satisfies the invariant.                          *)
LEMMA ApiInvAlways == Spec => []ApiInv
  BY ApiInvInit, ApiInvStep, PTL DEF Spec

-----------------------------------------------------------------------------
(* Each variable of the application and of the supervisor within it keeps  *)
(* its type, counters never negative and labels in their map, wherever     *)
(* requests are interleaved, raise or are cancelled (app.py, supervisor.py,*)
(* definitions.py).                                                        *)
THEOREM ApiTypesCorrect == Spec => []ApiTypeOK
<1>1. ApiInv => ApiTypeOK
  BY DEF ApiInv
<1> QED
  BY <1>1, ApiInvAlways, PTL

(* A pod answers that it is healthy only while its WebSocket server is     *)
(* listening (app.py:47-53, 92): the flag is set behind the server's start *)
(* and cleared before its close begins.                                    *)
THEOREM HealthyMeansListeningAlways == Spec => HealthyMeansListening
<1> DEFINE A(r) == kind[r] = "health" /\ status[r] = 0 /\ status'[r] = 200 => wsServer = "open"
<1>1. ApiInv /\ [Next]_vars => [\A r \in Requests : A(r)]_vars
  <2> SUFFICES ASSUME ApiInv, Next, NEW r \in Requests,
                      kind[r] = "health", status[r] = 0, status'[r] = 200
               PROVE  wsServer = "open"
    OBVIOUS
  <2>0. ASSUME NEW t \in Turns, Turn(t) PROVE FALSE
    BY <2>0, TurnFacts DEF requestVars
  <2>1. PICK q \in Requests :
           \/ Preflight(q)
           \/ \E k \in {"simulate", "health", "page"} : Dispatch(q, k)
           \/ Handler(q)
           \/ Middleware(q)
    BY <2>0 DEF Next, Lifespan, StartWsServer, BecomeReady, BeginShutdown, EndShutdown, Stream,
           Connect, CallerLeaves, ServerCuts, Become, Session, CreateVoicePipeline, SessionEnds,
           requestVars
  <2>2. Health(q) /\ q = r
    BY <2>1 DEF Preflight, Dispatch, Handler, Middleware, Health, Page, SimulateCall,
         SimulateRoutes, SimulateReturn, SimulateRaise, SimulateCancelled, CountResponse,
         ServerError, Respond, requestVars, ApiInv, ApiTypeOK, KindFitsPhase
  <2> QED
    BY <2>2 DEF Health, Respond, ApiInv, ApiTypeOK, ServerFollowsLifespan
<1> QED
  BY <1>1, ApiInvAlways, PTL DEF Spec, HealthyMeansListening

(* When the application has stopped, no stream is open: whatever callers   *)
(* do, wait_closed is over only when every handler is (app.py:52-53).      *)
THEOREM NoStreamOutlivesShutdownAlways == Spec => []NoStreamOutlivesShutdown
<1>1. ApiInv => NoStreamOutlivesShutdown
  BY DEF ApiInv, ApiTypeOK, ServerFollowsLifespan, NoStreamOutlivesShutdown
<1> QED
  BY <1>1, ApiInvAlways, PTL

-----------------------------------------------------------------------------
(* A set that gains an element has one more, one that loses one has one    *)
(* less.                                                                   *)
LEMMA OneMore ==
  ASSUME NEW A, NEW x, IsFiniteSet(A), x \notin A
  PROVE  Cardinality(A \cup {x}) = Cardinality(A) + 1
  BY FS_AddElement

(* See OneMore.                                                            *)
LEMMA OneLess ==
  ASSUME NEW A, NEW x, IsFiniteSet(A), x \in A
  PROVE  Cardinality(A \ {x}) = Cardinality(A) - 1
  BY FS_RemoveElement

(* What the gauge counts is finite.                                        *)
LEMMA GaugedFinite ==
  /\ IsFiniteSet(InFlight) /\ IsFiniteSet(Live) /\ IsFiniteSet(Over)
  /\ Cardinality(InFlight) \in Nat /\ Cardinality(Live) \in Nat /\ Cardinality(Over) \in Nat
<1>1. InFlight \subseteq Requests /\ Live \subseteq Sessions /\ Over \subseteq Sessions
  BY DEF InFlight, Live, Over
<1>2. IsFiniteSet(InFlight) /\ IsFiniteSet(Live) /\ IsFiniteSet(Over)
  BY <1>1, FiniteAssumption, FS_Subset
<1> QED
  BY <1>2, FS_CardinalityType

(* The way a simulated call ends does not matter: it was counted, and is   *)
(* no longer.                                                              *)
LEMMA CallEnds ==
  ASSUME ApiInv, NEW r \in Requests, NEW p \in {"responded", "raised", "finished"},
         GaugeOffByEndedSessions, phase[r] = "routing",
         phase' = [phase EXCEPT ![r] = p], UNCHANGED session,
         active_voice_sessions' = active_voice_sessions - 1
  PROVE  GaugeOffByEndedSessions'
<1>1. r \in InFlight /\ InFlight' = InFlight \ {r}
  BY DEF InFlight, ApiInv, ApiTypeOK
<1>2. Cardinality(InFlight') = Cardinality(InFlight) - 1
  BY <1>1, GaugedFinite, OneLess
<1>3. Live' = Live /\ Over' = Over
  BY DEF Live, Over
<1> QED
  BY <1>2, <1>3, GaugedFinite DEF GaugeOffByEndedSessions, ApiInv, ApiTypeOK

(* A request's step keeps the gauge.                                       *)
LEMMA RequestKeepsGauge ==
  ASSUME ApiInv, GaugeOffByEndedSessions, NEW r \in Requests,
         \/ Preflight(r)
         \/ \E k \in {"simulate", "health", "page"} : Dispatch(r, k)
         \/ Handler(r)
         \/ Middleware(r)
  PROVE  GaugeOffByEndedSessions'
<1>1. Live' = Live /\ Over' = Over /\ UNCHANGED session
  BY DEF Preflight, Dispatch, Handler, Middleware, Health, Page, SimulateCall, SimulateRoutes,
         SimulateReturn, SimulateRaise, SimulateCancelled, CountResponse, ServerError, Live, Over
<1>2. CASE SimulateCall(r)
  <2>1. r \notin InFlight /\ InFlight' = InFlight \cup {r}
    BY <1>2 DEF SimulateCall, InFlight, ApiInv, ApiTypeOK
  <2>2. Cardinality(InFlight') = Cardinality(InFlight) + 1
    BY <2>1, GaugedFinite, OneMore
  <2> QED
    BY <1>1, <1>2, <2>2, GaugedFinite DEF SimulateCall, GaugeOffByEndedSessions, ApiInv, ApiTypeOK
<1>3. CASE SimulateReturn(r)
  BY <1>1, <1>3, CallEnds DEF SimulateReturn, Respond
<1>4. CASE SimulateRaise(r)
  BY <1>1, <1>4, CallEnds DEF SimulateRaise
<1>5. CASE SimulateCancelled(r)
  BY <1>1, <1>5, CallEnds DEF SimulateCancelled
<1>6. CASE \/ Preflight(r)
           \/ \E k \in {"simulate", "health", "page"} : Dispatch(r, k)
           \/ Health(r) \/ Page(r) \/ SimulateRoutes(r) \/ Middleware(r)
  <2>1. InFlight' = InFlight /\ UNCHANGED active_voice_sessions
    BY <1>6 DEF Preflight, Dispatch, Health, Page, SimulateRoutes, Middleware, CountResponse,
         ServerError, Respond, metricVars, requestVars, InFlight, ApiInv, ApiTypeOK
  <2> QED
    BY <1>1, <2>1 DEF GaugeOffByEndedSessions
<1> QED
  BY <1>2, <1>3, <1>4, <1>5, <1>6 DEF Handler

(* A session that ends is counted as one that is over.                     *)
LEMMA EndKeepsGauge ==
  ASSUME ApiInv, GaugeOffByEndedSessions, NEW v \in Sessions, session[v] = "live",
         session' = [session EXCEPT ![v] = "over"],
         UNCHANGED <<phase, active_voice_sessions>>
  PROVE  GaugeOffByEndedSessions'
<1>1. InFlight' = InFlight
  BY DEF InFlight
<1>2. /\ v \in Live /\ Live' = Live \ {v}
      /\ v \notin Over /\ Over' = Over \cup {v}
  BY DEF Live, Over, ApiInv, ApiTypeOK
<1>3. Cardinality(Live') = Cardinality(Live) - 1 /\ Cardinality(Over') = Cardinality(Over) + 1
  BY <1>2, GaugedFinite, OneMore, OneLess
<1> QED
  BY <1>1, <1>3, GaugedFinite DEF GaugeOffByEndedSessions

(* A voice session's step keeps the gauge.                                 *)
LEMMA SessionKeepsGauge ==
  ASSUME ApiInv, GaugeOffByEndedSessions, NEW v \in Sessions, Session(v)
  PROVE  GaugeOffByEndedSessions'
<1>1. CASE \E p \in Providers : CreateVoicePipeline(v, p)
  <2>1. InFlight' = InFlight
    BY <1>1 DEF CreateVoicePipeline, InFlight, requestVars
  <2>2. v \notin Live /\ Live' = Live \cup {v} /\ Over' = Over
    BY <1>1 DEF CreateVoicePipeline, Live, Over, ApiInv, ApiTypeOK
  <2>3. Cardinality(Live') = Cardinality(Live) + 1
    BY <2>2, GaugedFinite, OneMore
  <2> QED
    BY <1>1, <2>1, <2>2, <2>3, GaugedFinite
       DEF CreateVoicePipeline, GaugeOffByEndedSessions, ApiInv, ApiTypeOK
<1>2. CASE SessionEnds(v)
  BY <1>2, EndKeepsGauge DEF SessionEnds, requestVars, metricVars
<1> QED
  BY <1>1, <1>2 DEF Session

(* So does a turn's, which ends its session if it is cancelled.            *)
LEMMA TurnKeepsGauge ==
  ASSUME ApiInv, GaugeOffByEndedSessions, NEW t \in Turns, Turn(t)
  PROVE  GaugeOffByEndedSessions'
<1>1. UNCHANGED <<phase, active_voice_sessions>>
  BY TurnFacts DEF requestVars
<1>2. CASE UNCHANGED session
  BY <1>1, <1>2 DEF GaugeOffByEndedSessions, InFlight, Live, Over
<1>3. CASE session' = [session EXCEPT ![t[1]] = "over"]
  BY <1>1, <1>3, TurnFacts, EndKeepsGauge
<1> QED
  BY <1>2, <1>3, TurnFacts

(* Whatever becomes of simulated calls, the gauge is never below the       *)
(* sessions there are, and above them exactly by the voice sessions that   *)
(* are over (app.py:109-118, pipeline.py:64).                              *)
THEOREM GaugeOffByEndedSessionsAlways == Spec => []GaugeOffByEndedSessions
<1>1. Init => GaugeOffByEndedSessions
  <2> SUFFICES ASSUME Init PROVE GaugeOffByEndedSessions
    OBVIOUS
  <2>1. InFlight = {} /\ Live = {} /\ Over = {}
    BY DEF Init, InFlight, Live, Over
  <2> QED
    BY <2>1, FS_EmptySet DEF Init, GaugeOffByEndedSessions
<1>2. ApiInv /\ GaugeOffByEndedSessions /\ [Next]_vars => GaugeOffByEndedSessions'
  <2> SUFFICES ASSUME ApiInv, GaugeOffByEndedSessions, [Next]_vars
               PROVE  GaugeOffByEndedSessions'
    OBVIOUS
  <2>1. CASE \/ Lifespan
             \/ \E c \in Connections : Stream(c)
             \/ UNCHANGED vars
    BY <2>1 DEF Lifespan, StartWsServer, BecomeReady, BeginShutdown, EndShutdown, Stream, Connect,
         CallerLeaves, ServerCuts, Become, vars, requestVars, metricVars,
         GaugeOffByEndedSessions, InFlight, Live, Over
  <2> QED
    BY <2>1, RequestKeepsGauge, SessionKeepsGauge, TurnKeepsGauge DEF Next
<1> QED
  BY <1>1, <1>2, ApiInvAlways, PTL DEF Spec

-----------------------------------------------------------------------------
(* A request has a status once it is answered, only exceptions make a 500, *)
(* and a preflight is over at once.                                        *)
StatusFitsPhase ==
  \A r \in Requests :
    /\ phase[r] \in {"none", "dispatched", "routing", "raised"} => status[r] = 0
    /\ phase[r] = "responded" => status[r] \in Statuses \ {500}
    /\ kind[r] = "preflight" => phase[r] = "finished"

(* The simulated calls that were answered, and the turns that got a reply. *)
Answered == {r \in Requests : kind[r] = "simulate" /\ status[r] = 200}
Replied  == {t \in Turns : outcome[t] = "returned"}

ResponsesRight ==
  /\ \A s \in Statuses \ {500} : http_requests_total[s] = Cardinality(Counted(s))
  /\ http_requests_total[500] = 0
SamplesRight == voice_to_voice_latency_ms = Cardinality(Answered) + Cardinality(Replied)

CountInv == StatusFitsPhase /\ HandlerResponsesCountedOnce

(* The property speaks of the responses and of the samples.                *)
LEMMA CountsSplit ==
  /\ HandlerResponsesCountedOnce <=> ResponsesRight /\ SamplesRight
  /\ HandlerResponsesCountedOnce' <=> ResponsesRight' /\ SamplesRight'
<1>1. HandlerResponsesCountedOnce <=> ResponsesRight /\ SamplesRight
  BY Zenon DEF HandlerResponsesCountedOnce, ResponsesRight, SamplesRight, Answered, Replied
<1>2. HandlerResponsesCountedOnce' <=> ResponsesRight' /\ SamplesRight'
  BY Zenon DEF HandlerResponsesCountedOnce, ResponsesRight, SamplesRight, Answered, Replied
<1> QED
  BY <1>1, <1>2

(* A request's step keeps its status in line with its phase.               *)
LEMMA StatusStep ==
  ASSUME ApiInv, StatusFitsPhase, NEW r \in Requests,
         \/ Preflight(r)
         \/ \E k \in {"simulate", "health", "page"} : Dispatch(r, k)
         \/ Handler(r)
         \/ Middleware(r)
  PROVE  StatusFitsPhase'
<1> USE DEF StatusFitsPhase, ApiInv, ApiTypeOK, KindFitsPhase
<1>1. CASE Preflight(r) \/ \E k \in {"simulate", "health", "page"} : Dispatch(r, k)
  BY <1>1 DEF Preflight, Dispatch
<1>2. CASE Health(r) \/ Page(r)
  BY <1>2, PageAssumption DEF Health, Page, Respond, Statuses
<1>3. CASE SimulateCall(r) \/ SimulateRoutes(r)
  BY <1>3 DEF SimulateCall, SimulateRoutes, requestVars
<1>4. CASE SimulateReturn(r) \/ SimulateRaise(r) \/ SimulateCancelled(r)
  BY <1>4 DEF SimulateReturn, SimulateRaise, SimulateCancelled, Respond, Statuses
<1>5. CASE Middleware(r)
  BY <1>5 DEF Middleware, CountResponse, ServerError
<1> QED
  BY <1>1, <1>2, <1>3, <1>4, <1>5 DEF Handler

(* What the counters are compared to is finite.                            *)
LEMMA CountedFinite ==
  /\ \A s \in Statuses : IsFiniteSet(Counted(s)) /\ Cardinality(Counted(s)) \in Nat
  /\ IsFiniteSet(Answered) /\ Cardinality(Answered) \in Nat
  /\ IsFiniteSet(Replied) /\ Cardinality(Replied) \in Nat
<1>1. /\ Answered \subseteq Requests /\ Replied \subseteq Turns
      /\ \A s \in Statuses : Counted(s) \subseteq Requests
  BY DEF Answered, Replied, Counted
<1> QED
  BY <1>1, FiniteAssumption, FS_Subset, FS_CardinalityType

(* A step that gives no request a status it is counted under, and counts   *)
(* nothing, keeps the counters right.                                      *)
LEMMA NothingCounted ==
  ASSUME HandlerResponsesCountedOnce,
         \A s \in Statuses \ {500} : Counted(s)' = Counted(s),
         Answered' = Answered, Replied' = Replied,
         UNCHANGED <<http_requests_total, voice_to_voice_latency_ms>>
  PROVE  HandlerResponsesCountedOnce'
  BY DEF HandlerResponsesCountedOnce, Answered, Replied

(* A request's step replies to no turn.                                    *)
LEMMA RequestRepliesToNone ==
  ASSUME ApiInv, NEW r \in Requests,
         \/ Preflight(r)
         \/ \E k \in {"simulate", "health", "page"} : Dispatch(r, k)
         \/ Handler(r)
         \/ Middleware(r)
  PROVE  Replied' = Replied
<1>1. \A t \in Turns : t # r /\ t \in Calls
  BY TurnsAssumption DEF Calls
<1>2. CASE UNCHANGED outcome
  BY <1>2 DEF Replied
<1>3. CASE Sup!Return(r) \/ Sup!Raise(r)
  <2>1. \A t \in Turns : outcome'[t] = outcome[t]
    BY <1>1, <1>3 DEF Sup!Return, Sup!Raise, ApiInv, ApiTypeOK, Sup!SupervisorTypeOK
  <2> QED
    BY <2>1 DEF Replied
<1> QED
  BY <1>2, <1>3 DEF Preflight, Dispatch, Handler, Middleware, Health, Page, SimulateCall,
         SimulateRoutes, SimulateReturn, SimulateRaise, SimulateCancelled, CountResponse,
         ServerError, supervisorVars, Sup!Classify, Sup!Route, Sup!Execute

(* A turn's step counts no response, and one sample if it is a reply.      *)
LEMMA TurnKeepsCounts ==
  ASSUME ApiInv, CountInv, NEW t \in Turns, Turn(t)
  PROVE  HandlerResponsesCountedOnce'
<1>1. Answered' = Answered /\ \A s \in Statuses : Counted(s)' = Counted(s)
  BY TurnFacts DEF requestVars, Answered, Counted
<1>2. outcome \in [Calls -> Sup!Outcome] /\ t \in Calls /\ Turns \subseteq Calls
  BY DEF ApiInv, ApiTypeOK, Sup!SupervisorTypeOK, Calls
<1>3. CASE TurnReply(t)
  <2>1. t \notin Replied /\ Replied' = Replied \cup {t}
    BY <1>2, <1>3 DEF TurnReply, Sup!Return, Sup!At, Replied
  <2>2. Cardinality(Replied') = Cardinality(Replied) + 1
    BY <2>1, CountedFinite, OneMore
  <2>3. /\ voice_to_voice_latency_ms' = voice_to_voice_latency_ms + 1
        /\ UNCHANGED http_requests_total
    BY <1>3 DEF TurnReply
  <2>4. SamplesRight'
    BY <1>1, <2>2, <2>3, CountedFinite, CountsSplit DEF CountInv, SamplesRight
  <2>5. ResponsesRight'
    BY <1>1, <2>3, CountsSplit DEF CountInv, ResponsesRight
  <2> QED
    BY <2>4, <2>5, CountsSplit
<1>4. CASE TurnRoutes(t) \/ TurnApology(t) \/ SessionCancelled(t)
  <2>1. \A u \in Turns : outcome'[u] = "returned" <=> outcome[u] = "returned"
    BY <1>2, <1>4 DEF TurnRoutes, TurnApology, SessionCancelled, Sup!Classify, Sup!Route,
         Sup!Execute, Sup!Raise
  <2>2. UNCHANGED <<http_requests_total, voice_to_voice_latency_ms>>
    BY <1>4 DEF TurnRoutes, TurnApology, SessionCancelled, metricVars
  <2>3. Replied' = Replied
    BY <2>1 DEF Replied
  <2> QED
    BY <1>1, <2>2, <2>3, NothingCounted DEF CountInv
<1> QED
  BY <1>3, <1>4 DEF Turn

(* A request's step keeps the counters right.                              *)
LEMMA RequestKeepsCounts ==
  ASSUME ApiInv, CountInv, NEW r \in Requests,
         \/ Preflight(r)
         \/ \E k \in {"simulate", "health", "page"} : Dispatch(r, k)
         \/ Handler(r)
         \/ Middleware(r)
  PROVE  HandlerResponsesCountedOnce'
<1>6. Replied' = Replied
  BY RequestRepliesToNone
<1> USE DEF ApiInv, ApiTypeOK, KindFitsPhase, CountInv, StatusFitsPhase
<1>1. CASE CountResponse(r)
  <2> DEFINE s == status[r]
  <2>1. s \in Statuses \ {500} /\ r \notin Counted(s)
    BY <1>1 DEF CountResponse, Counted
  <2>2. Counted(s)' = Counted(s) \cup {r}
    BY <1>1 DEF CountResponse, Counted
  <2>3. \A t \in Statuses \ {s} : Counted(t)' = Counted(t)
    BY <1>1 DEF CountResponse, Counted
  <2>4. Cardinality(Counted(s)') = Cardinality(Counted(s)) + 1
    BY <2>1, <2>2, CountedFinite, OneMore
  <2>5. Answered' = Answered
    BY <1>1 DEF CountResponse, Answered
  <2>6. \A t \in Statuses \ {500} : http_requests_total'[t] = Cardinality(Counted(t)')
    BY <1>1, <2>1, <2>3, <2>4 DEF CountResponse, HandlerResponsesCountedOnce
  <2> QED
    <3>1. ResponsesRight'
      BY <1>1, <2>1, <2>6, CountsSplit DEF CountResponse, ResponsesRight, Statuses
    <3>2. SamplesRight'
      BY <1>1, <1>6, <2>5, CountsSplit DEF CountResponse, SamplesRight
    <3> QED
      BY <3>1, <3>2, CountsSplit
<1>2. CASE SimulateReturn(r)
  <2>1. r \notin Answered /\ Answered' = Answered \cup {r}
    BY <1>2 DEF SimulateReturn, Respond, Answered
  <2>2. Cardinality(Answered') = Cardinality(Answered) + 1
    BY <2>1, CountedFinite, OneMore
  <2>3. \A s \in Statuses : Counted(s)' = Counted(s)
    BY <1>2 DEF SimulateReturn, Respond, Counted
  <2> QED
    <3>1. ResponsesRight'
      BY <1>2, <2>3, CountsSplit DEF SimulateReturn, ResponsesRight
    <3>2. SamplesRight'
      BY <1>2, <1>6, <2>2, CountedFinite, CountsSplit DEF SimulateReturn, SamplesRight
    <3> QED
      BY <3>1, <3>2, CountsSplit
<1>3. CASE \/ Preflight(r)
           \/ \E k \in {"simulate", "health", "page"} : Dispatch(r, k)
           \/ Health(r) \/ Page(r)
  <2>1. \A s \in Statuses : Counted(s)' = Counted(s)
    BY <1>3 DEF Preflight, Dispatch, Health, Page, Respond, Counted
  <2>2. Answered' = Answered
    BY <1>3 DEF Preflight, Dispatch, Health, Page, Respond, Answered
  <2> QED
    BY <1>3, <1>6, <2>1, <2>2, NothingCounted DEF Preflight, Dispatch, Health, Page, metricVars
<1>4. CASE SimulateCall(r) \/ SimulateRoutes(r) \/ SimulateRaise(r) \/ SimulateCancelled(r)
  <2>1. \A s \in Statuses : Counted(s)' = Counted(s)
    BY <1>4 DEF SimulateCall, SimulateRoutes, SimulateRaise, SimulateCancelled, Counted,
         requestVars, Statuses
  <2>2. Answered' = Answered
    BY <1>4 DEF SimulateCall, SimulateRoutes, SimulateRaise, SimulateCancelled, Answered,
         requestVars
  <2> QED
    BY <1>4, <1>6, <2>1, <2>2, NothingCounted
       DEF SimulateCall, SimulateRoutes, SimulateRaise, SimulateCancelled, metricVars
<1>5. CASE ServerError(r)
  <2>1. \A s \in Statuses \ {500} : Counted(s)' = Counted(s)
    BY <1>5 DEF ServerError, Counted, Statuses
  <2>2. Answered' = Answered
    BY <1>5 DEF ServerError, Answered
  <2> QED
    BY <1>5, <1>6, <2>1, <2>2, NothingCounted DEF ServerError, metricVars
<1> QED
  BY <1>1, <1>2, <1>3, <1>4, <1>5 DEF Handler, Middleware

(* However requests and voice sessions interleave, raise and are           *)
(* cancelled, every response of a handler is counted once under the status *)
(* it is sent with, no exception is, and the latency histogram has one     *)
(* sample for each simulated call answered and each turn replied to        *)
(* (middleware.py:26, app.py:121, agent_bridge.py:74).                     *)
THEOREM ResponsesCountedOnce == Spec => []HandlerResponsesCountedOnce
<1>1. Init => CountInv
  <2> SUFFICES ASSUME Init PROVE CountInv
    OBVIOUS
  <2>1. Answered = {} /\ Replied = {} /\ \A s \in Statuses : Counted(s) = {}
    BY DEF Init, Answered, Replied, Counted, Sup!SupervisorInit, Calls
  <2> QED
    BY <2>1, FS_EmptySet
       DEF Init, CountInv, StatusFitsPhase, HandlerResponsesCountedOnce, Answered, Replied,
           Statuses
<1>2. ApiInv /\ CountInv /\ [Next]_vars => CountInv'
  <2> SUFFICES ASSUME ApiInv, CountInv, [Next]_vars PROVE CountInv'
    OBVIOUS
  <2>1. CASE \/ Lifespan
             \/ \E c \in Connections : Stream(c)
             \/ \E v \in Sessions : Session(v)
             \/ UNCHANGED vars
    <3>1. /\ UNCHANGED <<kind, phase, status, voice_to_voice_latency_ms, http_requests_total>>
          /\ UNCHANGED outcome
      BY <2>1 DEF Lifespan, StartWsServer, BecomeReady, BeginShutdown, EndShutdown, Stream,
           Connect, CallerLeaves, ServerCuts, Become, Session, CreateVoicePipeline, SessionEnds,
           vars, requestVars, metricVars, supervisorVars
    <3> QED
      BY <3>1 DEF CountInv, StatusFitsPhase, HandlerResponsesCountedOnce, Counted
  <2>2. ASSUME NEW t \in Turns, Turn(t)
        PROVE  CountInv'
    <3>1. StatusFitsPhase'
      BY <2>2, TurnFacts DEF requestVars, CountInv, StatusFitsPhase
    <3> QED
      BY <2>2, <3>1, TurnKeepsCounts DEF CountInv
  <2> QED
    BY <2>1, <2>2, StatusStep, RequestKeepsCounts DEF Next, CountInv
<1>3. CountInv => HandlerResponsesCountedOnce
  BY DEF CountInv
<1> QED
  BY <1>1, <1>2, <1>3, ApiInvAlways, PTL DEF Spec

-----------------------------------------------------------------------------
(* The supervisor inside the application: what is proved of it for calls   *)
(* of any kind holds of those that requests and voice sessions make.       *)
Routing == INSTANCE Supervisor_proofs WITH Calls <- Calls

(* The two instances of Supervisor say the same.                           *)
LEMMA SameSupervisor ==
  /\ Sup!SupervisorInit <=> Routing!SupervisorInit
  /\ Sup!SupervisorNext <=> Routing!SupervisorNext
  /\ Sup!CountersAccountForCalls <=> Routing!CountersAccountForCalls
  /\ Sup!FunnelNarrows <=> Routing!FunnelNarrows
<1>1. /\ Sup!Intents = Routing!Intents /\ Sup!NoIntent = Routing!NoIntent
      /\ \A l : Sup!AgentFor(l) = Routing!AgentFor(l)
  BY DEF Sup!Intents, Routing!Intents, Sup!NoIntent, Routing!NoIntent, Sup!AgentFor,
         Routing!AgentFor, Sup!AgentMap, Routing!AgentMap
<1>2. Sup!SupervisorInit <=> Routing!SupervisorInit
  BY <1>1 DEF Sup!SupervisorInit, Routing!SupervisorInit
<1>3. Sup!SupervisorNext <=> Routing!SupervisorNext
  BY <1>1 DEF Sup!SupervisorNext, Routing!SupervisorNext, Sup!Classify, Routing!Classify,
       Sup!Route, Routing!Route, Sup!Execute, Routing!Execute, Sup!Return, Routing!Return,
       Sup!Raise, Routing!Raise, Sup!At, Routing!At
<1>4. \A l : /\ Sup!ClassifiedAs(l) = Routing!ClassifiedAs(l)
             /\ Sup!RoutedAs(l) = Routing!RoutedAs(l)
             /\ Sup!ExecutedBy(l) = Routing!ExecutedBy(l)
  BY <1>1 DEF Sup!ClassifiedAs, Routing!ClassifiedAs, Sup!RoutedAs, Routing!RoutedAs,
       Sup!ExecutedBy, Routing!ExecutedBy
<1>5. \A S : Sup!Cardinality(S) = Routing!Cardinality(S)
  BY Zenon DEF Sup!Cardinality, Routing!Cardinality
<1>6. Sup!CountersAccountForCalls <=> Routing!CountersAccountForCalls
  BY <1>1, <1>4, <1>5 DEF Sup!CountersAccountForCalls, Routing!CountersAccountForCalls
<1>7. Sup!FunnelNarrows <=> Routing!FunnelNarrows
  BY <1>1 DEF Sup!FunnelNarrows, Routing!FunnelNarrows
<1> QED
  BY <1>2, <1>3, <1>6, <1>7

(* A step of the application is one of the supervisor, or leaves it alone. *)
LEMMA StepRoutes == [Next]_vars => [Sup!SupervisorNext]_supervisorVars
<1> SUFFICES ASSUME [Next]_vars, ~UNCHANGED supervisorVars
             PROVE  Sup!SupervisorNext
  OBVIOUS
<1>1. (\E r \in Requests : Handler(r)) \/ \E t \in Turns : Turn(t)
  BY DEF Next, vars, Lifespan, StartWsServer, BecomeReady, BeginShutdown, EndShutdown, Stream,
       Connect, CallerLeaves, ServerCuts, Become, Session, CreateVoicePipeline, SessionEnds,
       Preflight, Dispatch, Middleware, CountResponse, ServerError
<1>2. \A r \in Requests : Handler(r) => r \in Calls /\ (Routes(r) \/ Sup!Return(r) \/ Sup!Raise(r))
  BY DEF Handler, Health, Page, SimulateCall, SimulateRoutes, SimulateReturn, SimulateRaise,
       SimulateCancelled, Routes, Calls
<1>3. \E c \in Calls : Routes(c) \/ Sup!Return(c) \/ Sup!Raise(c)
  BY <1>1, <1>2, TurnFacts
<1> QED
  BY <1>3 DEF Routes, Sup!SupervisorNext

(* However requests and voice sessions of the process interleave, raise    *)
(* and are cancelled, the counters account for the calls that all of them  *)
(* have made, and form a funnel (app.py:113, agent_bridge.py:55,           *)
(* intent.py:56, supervisor.py:43, base.py:44).                            *)
THEOREM CallsAreAccountedFor == Spec => [](Sup!CountersAccountForCalls /\ Sup!FunnelNarrows)
<1>1. Routing!IsFiniteSet(Calls) /\ Sup!Intents = Routing!Intents
  <2>1. IsFiniteSet(Calls)
    BY FiniteAssumption, FS_Union DEF Calls
  <2>2. Routing!IsFiniteSet(Calls)
    BY <2>1, Zenon DEF Routing!IsFiniteSet, IsFiniteSet
  <2> QED
    BY <2>2 DEF Sup!Intents, Routing!Intents
<1>2. Init => Routing!SupervisorInv
  BY <1>1, SameSupervisor, Routing!SupervisorInvInit, ApiAssumption DEF Init
<1>3. Routing!SupervisorInv /\ [Next]_vars => Routing!SupervisorInv'
  BY <1>1, SameSupervisor, StepRoutes, Routing!SupervisorInvStep, ApiAssumption
     DEF supervisorVars, Routing!supervisorVars
<1>4. Routing!SupervisorInv => Routing!CountersAccountForCalls /\ Routing!FunnelNarrows
  BY <1>1, Routing!FunnelFromInv, ApiAssumption DEF Routing!SupervisorInv
<1>5. Routing!SupervisorInv => Sup!CountersAccountForCalls /\ Sup!FunnelNarrows
  BY <1>4, SameSupervisor
<1> QED
  BY <1>2, <1>3, <1>5, PTL DEF Spec

=============================================================================
