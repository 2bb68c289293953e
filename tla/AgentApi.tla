------------------------------ MODULE AgentApi ------------------------------
(***************************************************************************)
(* The FastAPI application around the agents: its lifespan, /health,       *)
(* /test/simulate-call and the two middlewares (api/app.py,                *)
(* metrics/middleware.py), the WebSocket server the lifespan runs          *)
(* (voice/ws_server.py), and the metrics the process exports.  Those are   *)
(* module globals: a voice session in the same process (voice/pipeline.py, *)
(* voice/agent_bridge.py) shares with simulate_call the gauge of active    *)
(* sessions, the latency histogram of its replies and the counters of      *)
(* route_to_agent.  What goes on in a session is VoicePipeline's concern:  *)
(* here it is created, has turns, one at a time, and ends.                 *)
(*                                                                         *)
(* Requests are coroutines on one event loop.  In which order the ASGI     *)
(* server runs the lifespan and the requests is left open: requests may    *)
(* come before, during and after it, as they do in the endpoint tests.     *)
(***************************************************************************)
EXTENDS Integers, FiniteSets

CONSTANTS
  Requests,      \* HTTP requests made while the process lives
  Connections,   \* audio streams callers open to the WebSocket server
  Sessions,      \* voice sessions whose pipeline is created in the process
  Turns,         \* <<v, n>> where session v has an n-th turn to route
  PageStatuses,  \* statuses with which the other paths answer
  Classifiable   \* labels the intent classifier may give

VARIABLES
  lifespan,      \* where the lifespan context manager stands
  ready,         \* _ready
  wsServer,      \* the WebSocket server
  connection,    \* how far each audio stream is, and who has ended it
  kind,          \* what each request asks for
  phase,         \* how far each request has come
  status,        \* the status of the response to each request, 0 while none
  active_voice_sessions,      \* gauge
  voice_to_voice_latency_ms,  \* how many observations the histogram holds
  http_requests_total,        \* counter, per status_code label
  session,       \* whether each voice session is still to come, live or over
  (* route_to_agent, one call for each simulate-call request and each turn *)
  progress, outcome, intent,
  intent_classification_total, agent_routing_total, tool_execution_total

Calls == Requests \cup Turns

Sup == INSTANCE Supervisor WITH Calls <- Calls

ASSUME ApiAssumption == Classifiable \subseteq Sup!Intents

(* What happens in the life of one process is finite. *)
ASSUME FiniteAssumption ==
  IsFiniteSet(Requests) /\ IsFiniteSet(Sessions) /\ IsFiniteSet(Turns)

(* 200, a redirect, or what the framework says of a request that is        *)
(* malformed, finds no path or no method, or does not validate.            *)
ASSUME PageAssumption == PageStatuses \subseteq {200, 307, 400, 404, 405, 422}

(* A turn is one of a session, and no HTTP request. *)
ASSUME TurnsAssumption == Turns \subseteq Sessions \X Nat /\ Requests \cap Turns = {}

lifespanVars   == <<lifespan, ready, wsServer, connection>>
requestVars    == <<kind, phase, status>>
metricVars     == <<active_voice_sessions, voice_to_voice_latency_ms, http_requests_total>>
supervisorVars == <<progress, outcome, intent, intent_classification_total,
                    agent_routing_total, tool_execution_total>>
vars == <<lifespanVars, requestVars, metricVars, session, supervisorVars>>

Lifespans == {"down", "started", "up", "stopping", "stopped", "failed"}
Kinds     == {"none", "simulate", "health", "page", "preflight"}
Phases    == {"none", "dispatched", "routing", "responded", "raised", "finished"}
Statuses  == {200, 307, 400, 404, 405, 422, 500, 503}
Providers == {"daily", "telnyx", "stub"}

ApiTypeOK ==
  /\ lifespan \in Lifespans
  /\ ready \in BOOLEAN
  /\ wsServer \in {"closed", "open", "closing"}
  /\ connection \in [Connections -> {"none", "open", "left", "cut"}]
  /\ kind \in [Requests -> Kinds]
  /\ phase \in [Requests -> Phases]
  /\ status \in [Requests -> Statuses \cup {0}]
  /\ active_voice_sessions \in Int
  /\ voice_to_voice_latency_ms \in Nat
  /\ http_requests_total \in [Statuses -> Nat]
  /\ session \in [Sessions -> {"none", "live", "over"}]
  /\ Sup!SupervisorTypeOK

Init ==
  /\ lifespan = "down"
  /\ ready = FALSE
  /\ wsServer = "closed"
  /\ connection = [c \in Connections |-> "none"]
  /\ kind = [r \in Requests |-> "none"]
  /\ phase = [r \in Requests |-> "none"]
  /\ status = [r \in Requests |-> 0]
  /\ active_voice_sessions = 0
  /\ voice_to_voice_latency_ms = 0
  /\ http_requests_total = [s \in Statuses |-> 0]
  /\ session = [v \in Sessions |-> "none"]
  /\ Sup!SupervisorInit

-----------------------------------------------------------------------------
(* The lifespan *)

(* start_ws_server listens on its port, or cannot and the startup fails. *)
StartWsServer ==
  /\ lifespan = "down"
  /\ \/ lifespan' = "started" /\ wsServer' = "open"
     \/ lifespan' = "failed" /\ UNCHANGED wsServer
  /\ UNCHANGED <<ready, connection, requestVars, metricVars, session, supervisorVars>>

BecomeReady ==
  /\ lifespan = "started"
  /\ lifespan' = "up"
  /\ ready' = TRUE
  /\ UNCHANGED <<wsServer, connection, requestVars, metricVars, session, supervisorVars>>

(* Fault: the server begins to close while the pod still reports ready. *)
BeginShutdownReady ==
  /\ lifespan = "up"
  /\ lifespan' = "stopping"
  /\ wsServer' = "closing"
  /\ UNCHANGED <<ready, connection, requestVars, metricVars, session, supervisorVars>>

(* The yield is over: no longer ready, and the server begins to close. *)
BeginShutdown ==
  /\ lifespan = "up"
  /\ lifespan' = "stopping"
  /\ ready' = FALSE
  /\ wsServer' = "closing"
  /\ UNCHANGED <<connection, requestVars, metricVars, session, supervisorVars>>

Open == {c \in Connections : connection[c] = "open"}

(* Fault: wait_closed is not awaited. *)
EndShutdownAtOnce ==
  /\ lifespan = "stopping"
  /\ lifespan' = "stopped"
  /\ wsServer' = "closed"
  /\ UNCHANGED <<ready, connection, requestVars, metricVars, session, supervisorVars>>

(* wait_closed returns when the handler of every connection has. *)
EndShutdown ==
  /\ lifespan = "stopping"
  /\ Open = {}
  /\ lifespan' = "stopped"
  /\ wsServer' = "closed"
  /\ UNCHANGED <<ready, connection, requestVars, metricVars, session, supervisorVars>>

-----------------------------------------------------------------------------
(* Audio streams *)

Become(c, s) ==
  /\ connection' = [connection EXCEPT ![c] = s]
  /\ UNCHANGED <<lifespan, ready, wsServer, requestVars, metricVars, session, supervisorVars>>

(* The handler of the stream starts, and reads until the stream is closed. *)
Connect(c)      == connection[c] = "none" /\ wsServer = "open" /\ Become(c, "open")
CallerLeaves(c) == connection[c] = "open" /\ Become(c, "left")

(* Fault: the streams are left to their callers. *)
ServerCutsNone(c) == connection[c] = "open" /\ wsServer = "closed" /\ Become(c, "cut")

(* close() closes every stream that is still open, whatever its caller is  *)
(* in the middle of.                                                       *)
ServerCuts(c) == connection[c] = "open" /\ wsServer = "closing" /\ Become(c, "cut")

-----------------------------------------------------------------------------
(* A request's way through the application *)

Respond(r, s) ==
  /\ phase' = [phase EXCEPT ![r] = "responded"]
  /\ status' = [status EXCEPT ![r] = s]
  /\ UNCHANGED kind

(* Added last, CORSMiddleware is outermost: it answers a preflight itself, *)
(* allowing what it asks for or refusing it.                               *)
Preflight(r) ==
  /\ phase[r] = "none"
  /\ phase' = [phase EXCEPT ![r] = "finished"]
  /\ kind' = [kind EXCEPT ![r] = "preflight"]
  /\ \E s \in {200, 400} : status' = [status EXCEPT ![r] = s]
  /\ UNCHANGED <<lifespanVars, metricVars, session, supervisorVars>>

(* Any other request goes on to MetricsMiddleware, which awaits call_next. *)
Dispatch(r, k) ==
  /\ phase[r] = "none"
  /\ phase' = [phase EXCEPT ![r] = "dispatched"]
  /\ kind' = [kind EXCEPT ![r] = k]
  /\ UNCHANGED <<status, lifespanVars, metricVars, session, supervisorVars>>

(* Fault: a healthy pod answers 204, which nothing here expects. *)
HealthNoContent(r) ==
  /\ phase[r] = "dispatched" /\ kind[r] = "health"
  /\ Respond(r, IF ready THEN 204 ELSE 503)
  /\ UNCHANGED <<lifespanVars, metricVars, session, supervisorVars>>

Health(r) ==
  /\ phase[r] = "dispatched" /\ kind[r] = "health"
  /\ Respond(r, IF ready THEN 200 ELSE 503)
  /\ UNCHANGED <<lifespanVars, metricVars, session, supervisorVars>>

(* /metrics, /graphql, a path nobody serves, a request that is malformed. *)
Page(r) ==
  /\ phase[r] = "dispatched" /\ kind[r] = "page"
  /\ \E s \in PageStatuses : Respond(r, s)
  /\ UNCHANGED <<lifespanVars, metricVars, session, supervisorVars>>

SimulateCall(r) ==
  /\ phase[r] = "dispatched" /\ kind[r] = "simulate"
  /\ active_voice_sessions' = active_voice_sessions + 1
  /\ phase' = [phase EXCEPT ![r] = "routing"]
  /\ UNCHANGED <<kind, status, voice_to_voice_latency_ms, http_requests_total, lifespanVars,
                 session, supervisorVars>>

SimulateRoutes(r) ==
  /\ phase[r] = "routing"
  /\ \/ \E l \in Classifiable : Sup!Classify(r, l)
     \/ Sup!Route(r)
     \/ Sup!Execute(r)
  /\ UNCHANGED <<lifespanVars, requestVars, metricVars, session>>

SimulateReturn(r) ==
  /\ phase[r] = "routing"
  /\ Sup!Return(r)
  /\ active_voice_sessions' = active_voice_sessions - 1
  /\ voice_to_voice_latency_ms' = voice_to_voice_latency_ms + 1
  /\ Respond(r, 200)
  /\ UNCHANGED <<http_requests_total, lifespanVars, session>>

(* The finally block runs, and the exception goes on to call_next. *)
SimulateRaise(r) ==
  /\ phase[r] = "routing"
  /\ Sup!Raise(r)
  /\ active_voice_sessions' = active_voice_sessions - 1
  /\ phase' = [phase EXCEPT ![r] = "raised"]
  /\ UNCHANGED <<kind, status, voice_to_voice_latency_ms, http_requests_total, lifespanVars,
                 session>>

(* Fault: except Exception instead of finally, which a cancellation passes. *)
SimulateCancelledLeaks(r) ==
  /\ phase[r] = "routing"
  /\ Sup!Raise(r)
  /\ phase' = [phase EXCEPT ![r] = "finished"]
  /\ UNCHANGED <<kind, status, metricVars, lifespanVars, session>>

(* The server cancels the request's task: finally runs, nobody is answered. *)
SimulateCancelled(r) ==
  /\ phase[r] = "routing"
  /\ Sup!Raise(r)
  /\ active_voice_sessions' = active_voice_sessions - 1
  /\ phase' = [phase EXCEPT ![r] = "finished"]
  /\ UNCHANGED <<kind, status, voice_to_voice_latency_ms, http_requests_total, lifespanVars,
                 session>>

(* Fault: every response is counted as a success. *)
CountResponseAsOk(r) ==
  /\ phase[r] = "responded"
  /\ http_requests_total' = [http_requests_total EXCEPT ![200] = @ + 1]
  /\ phase' = [phase EXCEPT ![r] = "finished"]
  /\ UNCHANGED <<kind, status, active_voice_sessions, voice_to_voice_latency_ms, lifespanVars,
                 session, supervisorVars>>

(* call_next has returned: dispatch counts the response and hands it on. *)
CountResponse(r) ==
  /\ phase[r] = "responded"
  /\ http_requests_total' = [http_requests_total EXCEPT ![status[r]] = @ + 1]
  /\ phase' = [phase EXCEPT ![r] = "finished"]
  /\ UNCHANGED <<kind, status, active_voice_sessions, voice_to_voice_latency_ms, lifespanVars,
                 session, supervisorVars>>

(* Fault: an exception is answered only while the pod is ready. *)
ServerErrorWhileReady(r) ==
  /\ phase[r] = "raised"
  /\ ready
  /\ phase' = [phase EXCEPT ![r] = "finished"]
  /\ status' = [status EXCEPT ![r] = 500]
  /\ UNCHANGED kind
  /\ UNCHANGED <<metricVars, lifespanVars, session, supervisorVars>>

(* call_next raises, dispatch with it; Starlette's outermost error handler *)
(* sends the client a 500.                                                 *)
ServerError(r) ==
  /\ phase[r] = "raised"
  /\ phase' = [phase EXCEPT ![r] = "finished"]
  /\ status' = [status EXCEPT ![r] = 500]
  /\ UNCHANGED kind
  /\ UNCHANGED <<metricVars, lifespanVars, session, supervisorVars>>

-----------------------------------------------------------------------------
(* Voice sessions in the same process *)

(* create_transport raises for every provider but the stub. *)
HasTransport(provider) == provider = "stub"

CreateVoicePipeline(v, provider) ==
  /\ session[v] = "none"
  /\ HasTransport(provider)
  /\ session' = [session EXCEPT ![v] = "live"]
  /\ active_voice_sessions' = active_voice_sessions + 1
  /\ UNCHANGED <<voice_to_voice_latency_ms, http_requests_total, lifespanVars, requestVars,
                 supervisorVars>>

(* The turn the bridge of a session is at, or comes to next: it awaits     *)
(* route_to_agent, so that the turns before have ended.                    *)
AtTurn(t) ==
  /\ session[t[1]] = "live"
  /\ \A u \in Turns : u[1] = t[1] /\ u[2] < t[2] => outcome[u] # "none"

TurnRoutes(t) ==
  /\ AtTurn(t)
  /\ \/ \E l \in Classifiable : Sup!Classify(t, l)
     \/ Sup!Route(t)
     \/ Sup!Execute(t)
  /\ UNCHANGED <<lifespanVars, requestVars, metricVars, session>>

(* The call has returned: the bridge observes what the reply took. *)
TurnReply(t) ==
  /\ AtTurn(t)
  /\ Sup!Return(t)
  /\ voice_to_voice_latency_ms' = voice_to_voice_latency_ms + 1
  /\ UNCHANGED <<active_voice_sessions, http_requests_total, lifespanVars, requestVars,
                 session>>

(* The call has raised: the bridge apologises and observes nothing. *)
TurnApology(t) ==
  /\ AtTurn(t)
  /\ Sup!Raise(t)
  /\ UNCHANGED <<lifespanVars, requestVars, metricVars, session>>

(* The pipeline is cancelled while the bridge awaits the call: that is no  *)
(* Exception, it goes through the call and the bridge and ends both.       *)
SessionCancelled(t) ==
  /\ AtTurn(t)
  /\ Sup!Raise(t)
  /\ session' = [session EXCEPT ![t[1]] = "over"]
  /\ UNCHANGED <<lifespanVars, requestVars, metricVars>>

(* The pipeline runner returns with no call under way: the session is      *)
(* over, and nothing in voice/ touches the gauge.                          *)
SessionEnds(v) ==
  /\ session[v] = "live"
  /\ \A t \in Turns : t[1] = v => progress[t] = "called" \/ outcome[t] # "none"
  /\ session' = [session EXCEPT ![v] = "over"]
  /\ UNCHANGED <<metricVars, lifespanVars, requestVars, supervisorVars>>

-----------------------------------------------------------------------------
Lifespan == StartWsServer \/ BecomeReady \/ BeginShutdown \/ EndShutdown

Stream(c) == Connect(c) \/ CallerLeaves(c) \/ ServerCuts(c)

Handler(r) ==
  \/ Health(r)
  \/ Page(r)
  \/ SimulateCall(r)
  \/ SimulateRoutes(r)
  \/ SimulateReturn(r)
  \/ SimulateRaise(r)
  \/ SimulateCancelled(r)

Middleware(r) == CountResponse(r) \/ ServerError(r)

Session(v) == (\E p \in Providers : CreateVoicePipeline(v, p)) \/ SessionEnds(v)

Turn(t) == TurnRoutes(t) \/ TurnReply(t) \/ TurnApology(t) \/ SessionCancelled(t)

Next ==
  \/ Lifespan
  \/ \E r \in Requests :
       \/ Preflight(r)
       \/ \E k \in {"simulate", "health", "page"} : Dispatch(r, k)
       \/ Handler(r)
       \/ Middleware(r)
  \/ \E c \in Connections : Stream(c)
  \/ \E v \in Sessions : Session(v)
  \/ \E t \in Turns : Turn(t)

(* The event loop goes on with the coroutine of every request it has       *)
(* accepted and with a shutdown that has begun.  Clients, callers and      *)
(* sessions may stay where they are, and nothing makes a shutdown begin.   *)
Fairness ==
  /\ \A r \in Requests : WF_vars(Handler(r)) /\ WF_vars(Middleware(r))
  /\ \A c \in Connections : WF_vars(ServerCuts(c))
  /\ WF_vars(EndShutdown)

Spec == Init /\ [][Next]_vars /\ Fairness

-----------------------------------------------------------------------------
(* Correctness *)

InFlight == {r \in Requests : phase[r] = "routing"}
Live     == {v \in Sessions : session[v] = "live"}
Over     == {v \in Sessions : session[v] = "over"}

(* Whatever its agent does, and even if its task is cancelled, a simulated *)
(* call gives back what it added to the gauge (app.py:109-118): the gauge  *)
(* never counts fewer sessions than there are, so that the autoscaler      *)
(* never starves them, and what it counts beyond them are voice sessions   *)
(* that are over, nothing else.                                            *)
GaugeOffByEndedSessions ==
  active_voice_sessions = Cardinality(InFlight) + Cardinality(Live) + Cardinality(Over)

(* A pod says it is healthy only while its WebSocket server is listening:  *)
(* never before the port is bound, never once the shutdown has begun       *)
(* (app.py:47-53, 92).                                                     *)
HealthyMeansListening ==
  [][\A r \in Requests :
       kind[r] = "health" /\ status[r] = 0 /\ status'[r] = 200 => wsServer = "open"]_vars

(* "Need to ensure session cleanup on pod termination"                     *)
(* (docs/DECISIONS.md:113): when the application has stopped, no audio     *)
(* stream is open and no handler of one is running (app.py:53).            *)
NoStreamOutlivesShutdown == lifespan = "stopped" => Open = {}

(* A shutdown comes to its end although callers keep their streams open:   *)
(* it has to fit into the pod's grace period (app.py:52-53).               *)
ShutdownEnds == lifespan = "stopping" ~> lifespan = "stopped"

(* http_requests_total counts each response that a handler gave once it is *)
(* on its way to the client, under the status the client gets              *)
(* (middleware.py:26), whatever other requests do meanwhile; an exception  *)
(* is never counted.  voice_to_voice_latency_ms has one sample for each    *)
(* simulated call that was answered (app.py:121) and for each turn that    *)
(* was replied to in any voice session of the process (agent_bridge.py:74),*)
(* and none for the calls that raised or were cancelled.                   *)
Counted(s) == {r \in Requests : /\ phase[r] = "finished" /\ status[r] = s
                                /\ kind[r] # "preflight"}
HandlerResponsesCountedOnce ==
  /\ \A s \in Statuses \ {500} : http_requests_total[s] = Cardinality(Counted(s))
  /\ http_requests_total[500] = 0
  /\ voice_to_voice_latency_ms =
       Cardinality({r \in Requests : kind[r] = "simulate" /\ status[r] = 200})
         + Cardinality({t \in Turns : outcome[t] = "returned"})

(* Every request that reaches the application is over some time, although  *)
(* its agent may raise and its task be cancelled.                          *)
RequestsFinish == \A r \in Requests : phase[r] = "dispatched" ~> phase[r] = "finished"

-----------------------------------------------------------------------------
(* What the documentation says and the code does not do *)

(* definitions.py:9, "Number of currently active voice sessions", which    *)
(* docs/DECISIONS.md:112 needs: "Metric must be accurate".                 *)
GaugeIsAccurate == active_voice_sessions = Cardinality(InFlight) + Cardinality(Live)

(* docs/ARCHITECTURE.md:229, "Graceful shutdown: 300s termination for      *)
(* voice pipeline (drain active sessions)": a shutdown lets the streams    *)
(* come to their end.                                                      *)
ShutdownDrainsStreams == \A c \in Connections : connection[c] # "cut"

(* app.py:70, "must be added before CORS so it wraps all requests", for a  *)
(* counter of "Total HTTP requests" (definitions.py:79): every request     *)
(* that has been answered, be it with the 500 of an exception, has been    *)
(* counted.                                                                *)
EveryRequestCounted ==
  \A s \in Statuses :
    Cardinality({r \in Requests : phase[r] = "finished" /\ status[r] = s})
      <= http_requests_total[s]

=============================================================================
