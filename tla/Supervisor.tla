----------------------------- MODULE Supervisor -----------------------------
(***************************************************************************)
(* The agent supervisor: route_to_agent (agents/supervisor.py), the intent *)
(* classifier it awaits (agents/intent.py) and the run method of the       *)
(* domain agents (agents/domains/base.py).                                 *)
(*                                                                         *)
(* Calls of route_to_agent run as coroutines on one event loop.  Every     *)
(* await (the log calls, _execute) lets other calls run, so one call is    *)
(* cut into the stretches of code between its awaits, and an exception may *)
(* leave the call at each of them.  The three Prometheus counters are      *)
(* module globals shared by every call, whether a voice session or an HTTP *)
(* request made it.                                                        *)
(***************************************************************************)
EXTENDS Naturals, FiniteSets

CONSTANTS
  Calls,         \* the calls of route_to_agent made while the process lives
  Classifiable   \* the labels the classifier may give an utterance

Intents == {"balance", "transfer", "bills", "general"}

ASSUME ClassifiableAssumption == Classifiable \subseteq Intents

(* A process makes finitely many calls in its life. *)
ASSUME CallsAssumption == IsFiniteSet(Calls)

(* _AGENT_MAP, each agent standing for the agent_name it counts under, and *)
(* the .get(..., general) that looks a label up.                           *)
AgentMap == [l \in Intents |-> l]

(* Fault: the lookup uses a key that is in no map. *)
AgentForFallback(l) == AgentMap["general"]

AgentFor(l) == IF l \in DOMAIN AgentMap THEN AgentMap[l] ELSE AgentMap["general"]

VARIABLES
  progress,                     \* how far each call has come
  outcome,                      \* how each call ended, "none" while it has not
  intent,                       \* the label of each call's classification
  intent_classification_total,  \* counter, per intent label
  agent_routing_total,          \* counter, per target_agent label
  tool_execution_total          \* counter, per tool_name label

supervisorVars == <<progress, outcome, intent, intent_classification_total,
                    agent_routing_total, tool_execution_total>>

NoIntent == "none"

(* Each count is what the call has done so far, in this order. *)
Progress == {"called", "classified", "routed", "executed"}
Outcome  == {"none", "returned", "raised"}

SupervisorTypeOK ==
  /\ progress \in [Calls -> Progress]
  /\ outcome \in [Calls -> Outcome]
  /\ intent \in [Calls -> Intents \cup {NoIntent}]
  /\ intent_classification_total \in [Intents -> Nat]
  /\ agent_routing_total \in [Intents -> Nat]
  /\ tool_execution_total \in [Intents -> Nat]

SupervisorInit ==
  /\ progress = [c \in Calls |-> "called"]
  /\ outcome = [c \in Calls |-> "none"]
  /\ intent = [c \in Calls |-> NoIntent]
  /\ intent_classification_total = [l \in Intents |-> 0]
  /\ agent_routing_total = [l \in Intents |-> 0]
  /\ tool_execution_total = [l \in Intents |-> 0]

At(c, p) == progress[c] = p /\ outcome[c] = "none"

(* Fault: the classifier says something no agent is listed for. *)
ClassifyUnlisted(c, l) ==
  /\ At(c, "called")
  /\ progress' = [progress EXCEPT ![c] = "classified"]
  /\ intent' = [intent EXCEPT ![c] = "unlisted"]
  /\ UNCHANGED <<outcome, intent_classification_total, agent_routing_total,
                 tool_execution_total>>

(* classify_intent up to its log call: the label is counted at once. *)
Classify(c, l) ==
  /\ At(c, "called")
  /\ progress' = [progress EXCEPT ![c] = "classified"]
  /\ intent' = [intent EXCEPT ![c] = l]
  /\ intent_classification_total' = [intent_classification_total EXCEPT ![l] = @ + 1]
  /\ UNCHANGED <<outcome, agent_routing_total, tool_execution_total>>

(* The classification is back: count the routing under the label that was  *)
(* asked for, pick the agent and enter its run.                            *)
Route(c) ==
  /\ At(c, "classified")
  /\ progress' = [progress EXCEPT ![c] = "routed"]
  /\ agent_routing_total' = [agent_routing_total EXCEPT ![intent[c]] = @ + 1]
  /\ UNCHANGED <<outcome, intent, intent_classification_total, tool_execution_total>>

(* Fault: the agent holds a lock it does not give back. *)
ExecuteHoldingLock(c) ==
  /\ At(c, "routed")
  /\ \A d \in Calls : progress[d] # "executed"
  /\ progress' = [progress EXCEPT ![c] = "executed"]
  /\ tool_execution_total' = [tool_execution_total EXCEPT ![AgentFor(intent[c])] = @ + 1]
  /\ UNCHANGED <<outcome, intent, intent_classification_total, agent_routing_total>>

(* _execute has returned: run counts the execution under the agent's name. *)
Execute(c) ==
  /\ At(c, "routed")
  /\ progress' = [progress EXCEPT ![c] = "executed"]
  /\ tool_execution_total' = [tool_execution_total EXCEPT ![AgentFor(intent[c])] = @ + 1]
  /\ UNCHANGED <<outcome, intent, intent_classification_total, agent_routing_total>>

(* run and then route_to_agent return to their caller. *)
Return(c) ==
  /\ At(c, "executed")
  /\ outcome' = [outcome EXCEPT ![c] = "returned"]
  /\ UNCHANGED <<progress, intent, intent_classification_total, agent_routing_total,
                 tool_execution_total>>

(* Fault: run counts in a finally block, before _execute has returned. *)
RaiseCounted(c) ==
  /\ outcome[c] = "none"
  /\ outcome' = [outcome EXCEPT ![c] = "raised"]
  /\ tool_execution_total' = IF progress[c] = "routed"
                             THEN [tool_execution_total EXCEPT ![AgentFor(intent[c])] = @ + 1]
                             ELSE tool_execution_total
  /\ UNCHANGED <<progress, intent, intent_classification_total, agent_routing_total>>

(* An exception from the classifier, from _execute or from a log call      *)
(* leaves route_to_agent, which has no handler of its own.                 *)
Raise(c) ==
  /\ outcome[c] = "none"
  /\ outcome' = [outcome EXCEPT ![c] = "raised"]
  /\ UNCHANGED <<progress, intent, intent_classification_total, agent_routing_total,
                 tool_execution_total>>

SupervisorNext ==
  \E c \in Calls :
    \/ \E l \in Classifiable : Classify(c, l)
    \/ Route(c)
    \/ Execute(c)
    \/ Return(c)
    \/ Raise(c)

(* A call's coroutine is scheduled again after each await; the stub agents *)
(* and the logger do return.                                               *)
SupervisorFairness ==
  \A c \in Calls :
    /\ WF_supervisorVars(\E l \in Classifiable : Classify(c, l))
    /\ WF_supervisorVars(Route(c))
    /\ WF_supervisorVars(Execute(c))
    /\ WF_supervisorVars(Return(c))

SupervisorSpec == SupervisorInit /\ [][SupervisorNext]_supervisorVars /\ SupervisorFairness

-----------------------------------------------------------------------------
(* The calls that have been classified as l, routed under l, and whose     *)
(* agent counts as a.  A call that raised keeps the progress it had made.  *)
ClassifiedAs(l) == {c \in Calls : intent[c] = l}
RoutedAs(l)     == {c \in Calls : intent[c] = l /\ progress[c] \in {"routed", "executed"}}
ExecutedBy(a)   == {c \in Calls : progress[c] = "executed" /\ AgentFor(intent[c]) = a}

(* However the calls interleave and wherever they raise, each counter is   *)
(* the number of calls that got that far under that label: what the        *)
(* dashboards read off intent_classification_total (intent.py:56),         *)
(* agent_routing_total (supervisor.py:43) and tool_execution_total         *)
(* (base.py:44) is neither lost nor counted twice when a call fails.       *)
CountersAccountForCalls ==
  \A l \in Intents :
    /\ intent_classification_total[l] = Cardinality(ClassifiedAs(l))
    /\ agent_routing_total[l] = Cardinality(RoutedAs(l))
    /\ tool_execution_total[l] = Cardinality(ExecutedBy(l))

(* Read off one scrape, the three counters form a funnel per label: no     *)
(* agent runs that was not routed to, nothing is routed that was not       *)
(* classified, and a returned call went all the way through it.            *)
FunnelNarrows ==
  /\ \A l \in Intents :
       /\ agent_routing_total[l] <= intent_classification_total[l]
       /\ tool_execution_total[l] <= agent_routing_total[l]
  /\ \A c \in Calls : outcome[c] = "returned" =>
       tool_execution_total[AgentFor(intent[c])] > 0

(* Every call of route_to_agent returns or raises: no call is left hanging *)
(* between the classifier and its agent.                                   *)
EveryCallSettles == \A c \in Calls : <>(outcome[c] # "none")

=============================================================================
