--------------------------- MODULE EventProducer ---------------------------
(***************************************************************************)
(* KafkaEventProducer (events/producer.py) and the emit_ functions that    *)
(* call its publish (events/session_events.py).                            *)
(*                                                                         *)
(* Each session's coroutine awaits one emit_ call before it makes the      *)
(* next.  One owner starts and stops the producer; sessions publish at any *)
(* time, while it is starting, stopping or down included.  The Kafka       *)
(* client is modelled from how it is used: send_and_wait returns once the  *)
(* broker has the event, may have the broker append it more than once, and *)
(* may raise, whether or not the broker has appended it.                   *)
(***************************************************************************)
EXTENDS EventTopics, FiniteSets

CONSTANTS
  MaxStarts,   \* bound: how many times the producer is started
  MaxCopies    \* bound: how many times the broker appends one event

VARIABLES
  producer,   \* self._producer: none, or the state of the client it holds
  starts,     \* how many times start has been called
  next,       \* the number of the event each session publishes next
  inFlight,   \* the events of each session that send_and_wait waits for
  fate        \* what became of each event's publish

producerVars == <<producer, starts, next, inFlight, fate>>

ProducerTypeOK ==
  /\ producer \in {"none", "starting", "open", "failed", "closing"}
  /\ starts \in 0..MaxStarts
  /\ next \in [Sessions -> 1..Len(Script) + 1]
  /\ inFlight \in [Sessions -> SUBSET Numbers]
  /\ fate \in [Sessions -> [Numbers -> {"none", "dropped", "acked", "raised"}]]

ProducerInit ==
  /\ producer = "none"
  /\ starts = 0
  /\ next = [s \in Sessions |-> 1]
  /\ inFlight = [s \in Sessions |-> {}]
  /\ fate = [s \in Sessions |-> [n \in Numbers |-> "none"]]

-----------------------------------------------------------------------------
(* start assigns the client before it awaits the client's own start.  It   *)
(* is called again after one that failed, and replaces the client that     *)
(* did: what was sent to that can only raise, and is taken to have, since  *)
(* nobody but its session, which goes on then, could tell...               *)
Start ==
  /\ producer \in {"none", "failed"}
  /\ producer = "failed" => \A s \in Sessions : inFlight[s] = {}
  /\ starts < MaxStarts
  /\ producer' = "starting"
  /\ starts' = starts + 1
  /\ UNCHANGED <<next, inFlight, fate, log>>

(* ...which may raise: the client stays assigned. *)
Started ==
  /\ producer = "starting"
  /\ producer' \in {"open", "failed"}
  /\ UNCHANGED <<starts, next, inFlight, fate, log>>

(* stop awaits the client's stop, from where on it takes no more events... *)
Stop ==
  /\ producer \in {"open", "failed"}
  /\ producer' = "closing"
  /\ UNCHANGED <<starts, next, inFlight, fate, log>>

(* ...and which is over when the events in flight are; then it is cleared. *)
Stopped ==
  /\ producer = "closing"
  /\ \A s \in Sessions : inFlight[s] = {}
  /\ producer' = "none"
  /\ UNCHANGED <<starts, next, inFlight, fate, log>>

-----------------------------------------------------------------------------
(* Fault: publish hands the event over with send and does not wait. *)
PublishesWithoutWaiting(s, n) == n = next[s] /\ n \in Numbers

(* The session calls publish with its n-th event. *)
Publishes(s, n) == n = next[s] /\ n \in Numbers /\ inFlight[s] = {}

Settle(s, n, f) == fate' = [fate EXCEPT ![s][n] = f]

(* Not started, or no topic for the event: logged, and nobody is told. *)
PublishDrops(s, n) ==
  /\ Publishes(s, n)
  /\ producer = "none" \/ ~Listed(n)
  /\ next' = [next EXCEPT ![s] = n + 1]
  /\ Settle(s, n, "dropped")
  /\ UNCHANGED <<producer, starts, inFlight, log>>

(* A client that is closing raises at once. *)
PublishRefused(s, n) ==
  /\ Publishes(s, n)
  /\ producer = "closing" /\ Listed(n)
  /\ next' = [next EXCEPT ![s] = n + 1]
  /\ Settle(s, n, "raised")
  /\ UNCHANGED <<producer, starts, inFlight, log>>

PublishSends(s, n) ==
  /\ Publishes(s, n)
  /\ producer \in {"starting", "open", "failed"} /\ Listed(n)
  /\ next' = [next EXCEPT ![s] = n + 1]
  /\ inFlight' = [inFlight EXCEPT ![s] = @ \cup {n}]
  /\ UNCHANGED <<producer, starts, fate, log>>

(* The broker appends the event, again if the client repeats a request. *)
BrokerAppends(s, n) ==
  /\ n \in inFlight[s]
  /\ producer \in {"open", "closing"}
  /\ Cardinality(Offsets(s, n)) < MaxCopies
  /\ log' = [log EXCEPT ![TopicOf(n)] = Append(@, Event(s, n))]
  /\ UNCHANGED producerVars

Acknowledged(s, n) ==
  /\ n \in inFlight[s]
  /\ Offsets(s, n) # {}
  /\ inFlight' = [inFlight EXCEPT ![s] = @ \ {n}]
  /\ Settle(s, n, "acked")
  /\ UNCHANGED <<producer, starts, next, log>>

(* send_and_wait raises, and publish with it: there is no handler. *)
SendRaises(s, n) ==
  /\ n \in inFlight[s]
  /\ inFlight' = [inFlight EXCEPT ![s] = @ \ {n}]
  /\ Settle(s, n, "raised")
  /\ UNCHANGED <<producer, starts, next, log>>

Sending(s, n) == BrokerAppends(s, n) \/ Acknowledged(s, n) \/ SendRaises(s, n)

ProducerNext ==
  \/ Start
  \/ Started
  \/ Stop
  \/ Stopped
  \/ \E s \in Sessions, n \in Numbers :
       \/ PublishDrops(s, n)
       \/ PublishRefused(s, n)
       \/ PublishSends(s, n)
       \/ Sending(s, n)

=============================================================================
