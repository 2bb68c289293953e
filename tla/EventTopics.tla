---------------------------- MODULE EventTopics ----------------------------
(***************************************************************************)
(* What the event producer and the event consumers share: the Kafka topics *)
(* and the events on them (events/producer.py, events/session_events.py).  *)
(*                                                                         *)
(* A session publishes the events of Script one after the other.  Events   *)
(* carry the session as their key, so the events of a session on one topic *)
(* are in one partition; a topic has one partition here.                   *)
(***************************************************************************)
EXTENDS Naturals, Sequences

CONSTANTS
  Sessions,   \* the sessions that publish events
  Script      \* the event_type of each event a session publishes, in order

VARIABLE log  \* the events on each topic, oldest first

(* _EVENT_TOPIC_MAP *)
EventTopicMap ==
  [intent_classified    |-> "hsv.intents",
   tool_executed        |-> "hsv.tools",
   session_started      |-> "hsv.sessions",
   session_ended        |-> "hsv.sessions",
   escalation_triggered |-> "hsv.escalations"]

Topics == {EventTopicMap[e] : e \in DOMAIN EventTopicMap}

(* The n-th event of session s. *)
Event(s, n) == [session |-> s, number |-> n]
Numbers == DOMAIN Script
Events  == [session : Sessions, number : Numbers]

Listed(n)  == Script[n] \in DOMAIN EventTopicMap
TopicOf(n) == EventTopicMap[Script[n]]

(* The places an event has on its topic: more than one if it was repeated. *)
Offsets(s, n) == {k \in DOMAIN log[TopicOf(n)] : log[TopicOf(n)][k] = Event(s, n)}

LogTypeOK == log \in [Topics -> Seq(Events)]
LogInit   == log = [t \in Topics |-> <<>>]

=============================================================================
