------------------------------ MODULE EventBus ------------------------------
(***************************************************************************)
(* The event bus: sessions publish through the producer, Kafka keeps the   *)
(* topics, and a consumer of its own process handles what is on them.      *)
(* Producer and consumer share nothing but the topics.                     *)
(***************************************************************************)
EXTENDS EventProducer, EventConsumer

vars == <<log, producerVars, consumerVars>>

ASSUME BusAssumption ==
  /\ Script \in Seq(STRING)
  /\ {MaxStarts, MaxCopies, MaxLives, MaxRuns} \subseteq Nat

BusTypeOK == LogTypeOK /\ ProducerTypeOK /\ ConsumerTypeOK

Init == LogInit /\ ProducerInit /\ ConsumerInit

Next ==
  \/ ProducerNext /\ UNCHANGED consumerVars
  \/ ConsumerNext /\ UNCHANGED producerVars

(* The client settles every send, by a timeout if need be, and a run that  *)
(* is active goes on: the handlers return or raise.  Nothing makes the     *)
(* owners start, stop or run anything, or the sessions publish.            *)
Fairness ==
  /\ \A s \in Sessions, n \in Numbers : WF_vars(Sending(s, n) /\ UNCHANGED consumerVars)
  /\ WF_vars(Running /\ UNCHANGED producerVars)

Spec == Init /\ [][Next]_vars /\ Fairness

-----------------------------------------------------------------------------
(* The last offset passed on a topic: what the client has fetched but for  *)
(* the message at hand, or, without a client, what is committed.           *)
Passed(t) ==
  IF current[1] = t THEN current[2] - 1
  ELSE IF position[t] > committed[t] THEN position[t] ELSE committed[t]

Delivery == INSTANCE EventDelivery WITH
  size   <- [t \in Topics |-> Len(log[t])],
  base   <- committed,
  cursor <- [t \in Topics |-> Passed(t)],
  life   <- lives,
  seen   <- handled

(* The bus delivers from checkpoints: across stops, restarts, crashes,     *)
(* exceptions and commits behind its back, the consumer passes each topic  *)
(* one message at a time and goes back to the committed offset only, never *)
(* behind it (consumer.py:28-64).  Whatever a later life sees again had    *)
(* not been committed.                                                     *)
BusDeliversFromCheckpoints == Delivery!Spec

EventHandled(i) == log[handled[i].topic][handled[i].offset]

(* From one start of the consumer to the next, the events of a session on  *)
(* a topic are seen in the order the session published them,               *)
(* session_started before session_ended (session_events.py:66, 84),        *)
(* although sends are repeated or raise and the producer comes and goes.   *)
SessionsSeenInOrder ==
  \A i, j \in DOMAIN handled :
    /\ i < j
    /\ handled[i].topic = handled[j].topic
    /\ handled[i].life = handled[j].life
    /\ EventHandled(i).session = EventHandled(j).session
    => EventHandled(i).number <= EventHandled(j).number

(* An event whose publish went through (producer.py:69) gets to the        *)
(* consumer's handler as long as run goes on, even if it was published     *)
(* before the consumer was started (consumer.py:35).                       *)
AckedEventsReachHandler ==
  ([](runsOver = 0) /\ <>(loop # "none")) =>
    \A s \in Sessions, n \in Numbers : fate[s][n] = "acked" ~>
      \E i \in DOMAIN handled : EventHandled(i) = Event(s, n)

=============================================================================
