--------------------------- MODULE EventConsumer ---------------------------
(***************************************************************************)
(* A BaseKafkaConsumer (events/consumer.py), such as AnalyticsConsumer, in *)
(* a consumer group of its own.                                            *)
(*                                                                         *)
(* The group's committed offsets outlive the process, and the client       *)
(* commits its position from time to time, whatever run is doing with the  *)
(* message it fetched last.  One owner starts the consumer, runs it and    *)
(* stops it; it starts it again only when run is over.                     *)
(***************************************************************************)
EXTENDS EventTopics, FiniteSets

CONSTANTS
  MaxLives,   \* bound: how many times the consumer is started
  MaxRuns     \* bound: how many times run is called

VARIABLES
  consumer,    \* self._consumer: none, or the state of the client it holds
  running,     \* self._running
  loop,        \* where run stands
  current,     \* the message run handles: its topic and offset
  position,    \* the offset up to which the client has fetched, per topic
  committed,   \* the offset the group has committed, per topic
  handled,     \* what handle_message has returned for: topic, offset and life
  lives,       \* how many times start has been called
  runsOver     \* how many runs have ended, in whatever way

consumerVars == <<consumer, running, loop, current, position, committed, handled, lives, runsOver>>

NoMessage  == <<"none", 0>>
NoPosition == [t \in Topics |-> 0]
Active == loop \in {"fetching", "handling"}

ConsumerTypeOK ==
  /\ consumer \in {"none", "starting", "open", "failed", "closing", "left"}
  /\ running \in BOOLEAN
  /\ loop \in {"none", "fetching", "handling", "over"}
  /\ current \in (Topics \X Nat) \cup {NoMessage}
  /\ current # NoMessage => current[2] \in DOMAIN log[current[1]]
  /\ position \in [Topics -> Nat] /\ committed \in [Topics -> Nat]
  /\ \A t \in Topics : position[t] <= Len(log[t]) /\ committed[t] <= Len(log[t])
  /\ handled \in Seq([topic : Topics, offset : Nat, life : Nat])
  /\ lives \in 0..MaxLives
  /\ runsOver \in Nat

ConsumerInit ==
  /\ consumer = "none"
  /\ running = FALSE
  /\ loop = "none"
  /\ current = NoMessage
  /\ position = NoPosition
  /\ committed = [t \in Topics |-> 0]
  /\ handled = <<>>
  /\ lives = 0
  /\ runsOver = 0

-----------------------------------------------------------------------------
(* start assigns a new client, also in place of one whose start raised. *)
StartConsumer ==
  /\ consumer \in {"none", "failed"}
  /\ ~Active
  /\ lives < MaxLives
  /\ consumer' = "starting"
  /\ lives' = lives + 1
  /\ UNCHANGED <<running, loop, current, position, committed, handled, runsOver, log>>

(* Fault: auto_offset_reset is "latest". *)
ConsumerStartedLatest ==
  /\ consumer = "starting"
  /\ consumer' = "open"
  /\ running' = TRUE
  /\ loop' = "none"
  /\ position' = [t \in Topics |-> IF committed[t] = 0 THEN Len(log[t]) ELSE committed[t]]
  /\ UNCHANGED <<current, committed, handled, lives, runsOver, log>>

(* Fault: the last committed message is fetched again. *)
ConsumerStartedBehind ==
  /\ consumer = "starting"
  /\ consumer' = "open"
  /\ running' = TRUE
  /\ loop' = "none"
  /\ position' = [t \in Topics |-> IF committed[t] = 0 THEN 0 ELSE committed[t] - 1]
  /\ UNCHANGED <<current, committed, handled, lives, runsOver, log>>

(* The client resumes from the committed offsets, or from the earliest. *)
ConsumerStarted ==
  /\ consumer = "starting"
  /\ consumer' = "open"
  /\ running' = TRUE
  /\ loop' = "none"
  /\ position' = committed
  /\ UNCHANGED <<current, committed, handled, lives, runsOver, log>>

(* The client's start raises: it stays assigned, and nothing is running. *)
ConsumerStartFails ==
  /\ consumer = "starting"
  /\ consumer' = "failed"
  /\ UNCHANGED <<running, loop, current, position, committed, handled, lives, runsOver, log>>

(* Fault: run goes back to the committed offsets. *)
RunRewinds ==
  /\ consumer = "open"
  /\ ~Active
  /\ runsOver < MaxRuns
  /\ loop' = "fetching"
  /\ position' = committed
  /\ UNCHANGED <<consumer, running, current, committed, handled, lives, runsOver, log>>

Run ==
  /\ consumer = "open"
  /\ ~Active
  /\ runsOver < MaxRuns
  /\ loop' = "fetching"
  /\ UNCHANGED <<consumer, running, current, position, committed, handled, lives, runsOver, log>>

(* The next message is here: run handles it, or, told to stop, drops it. *)
Fetch(t) ==
  /\ loop = "fetching"
  /\ consumer \in {"open", "closing"}
  /\ position[t] < Len(log[t])
  /\ position' = [position EXCEPT ![t] = @ + 1]
  /\ \/ /\ running
        /\ loop' = "handling"
        /\ current' = <<t, position[t] + 1>>
        /\ UNCHANGED runsOver
     \/ /\ ~running
        /\ loop' = "over"
        /\ runsOver' = runsOver + 1
        /\ UNCHANGED current
  /\ UNCHANGED <<consumer, running, committed, handled, lives, log>>

Handle ==
  /\ loop = "handling"
  /\ handled' = Append(handled, [topic |-> current[1], offset |-> current[2], life |-> lives])
  /\ current' = NoMessage
  /\ loop' = "fetching"
  /\ UNCHANGED <<consumer, running, position, committed, lives, runsOver, log>>

(* handle_message raises, and run with it: there is no handler. *)
HandleRaises ==
  /\ loop = "handling"
  /\ current' = NoMessage
  /\ loop' = "over"
  /\ runsOver' = runsOver + 1
  /\ UNCHANGED <<consumer, running, position, committed, handled, lives, log>>

(* The client is stopped: the async for is exhausted. *)
RunEnds ==
  /\ loop = "fetching"
  /\ consumer # "open"
  /\ loop' = "over"
  /\ runsOver' = runsOver + 1
  /\ UNCHANGED <<consumer, running, current, position, committed, handled, lives, log>>

(* Fault: the client commits what is on the topic, fetched or not. *)
AutoCommitEnd ==
  /\ consumer = "open"
  /\ committed' = [t \in Topics |-> Len(log[t])]
  /\ committed' # committed
  /\ UNCHANGED <<consumer, running, loop, current, position, handled, lives, runsOver, log>>

(* Fault: the client commits the offset behind the next one. *)
AutoCommitNext ==
  /\ consumer = "open"
  /\ position # committed
  /\ committed' = [t \in Topics |-> position[t] + 1]
  /\ UNCHANGED <<consumer, running, loop, current, position, handled, lives, runsOver, log>>

(* enable_auto_commit: everything fetched is committed, handled or not. *)
AutoCommit ==
  /\ consumer = "open"
  /\ position # committed
  /\ committed' = position
  /\ UNCHANGED <<consumer, running, loop, current, position, handled, lives, runsOver, log>>

(* stop clears _running and awaits the client's stop... *)
StopConsumer ==
  /\ consumer \in {"open", "failed"}
  /\ running' = FALSE
  /\ consumer' = IF consumer = "open" THEN "closing" ELSE "left"
  /\ UNCHANGED <<loop, current, position, committed, handled, lives, runsOver, log>>

(* ...in which the client commits once more, if it can, and leaves... *)
LeaveGroup ==
  /\ consumer = "closing"
  /\ consumer' = "left"
  /\ committed' \in {committed, position}
  /\ UNCHANGED <<running, loop, current, position, handled, lives, runsOver, log>>

(* ...and then stop drops it. *)
ConsumerStopped ==
  /\ consumer = "left"
  /\ consumer' = "none"
  /\ position' = NoPosition
  /\ UNCHANGED <<running, loop, current, committed, handled, lives, runsOver, log>>

(* The process dies. *)
Crash ==
  /\ consumer # "none" \/ Active
  /\ consumer' = "none"
  /\ running' = FALSE
  /\ loop' = "none"
  /\ current' = NoMessage
  /\ position' = NoPosition
  /\ runsOver' = IF Active THEN runsOver + 1 ELSE runsOver
  /\ UNCHANGED <<committed, handled, lives, log>>

Running == (\E t \in Topics : Fetch(t)) \/ Handle \/ HandleRaises \/ RunEnds

ConsumerNext ==
  \/ StartConsumer \/ ConsumerStarted \/ ConsumerStartFails
  \/ Run \/ Running
  \/ AutoCommit
  \/ StopConsumer \/ LeaveGroup \/ ConsumerStopped
  \/ Crash

-----------------------------------------------------------------------------
Handled(t, k) == \E i \in DOMAIN handled : handled[i].topic = t /\ handled[i].offset = k

(* From one start of the consumer to the next, each topic is handled from  *)
(* front to back and no message twice, although run may be called again    *)
(* after an exception and the client commits behind its back               *)
(* (consumer.py:36, 56).  Only a new start goes back.                      *)
NoRepeatsWithinALife ==
  \A i, j \in DOMAIN handled :
    i < j /\ handled[i].topic = handled[j].topic /\ handled[i].life = handled[j].life
      => handled[i].offset < handled[j].offset

(* What the group is past although nobody handled it or is handling it. *)
Skipped ==
  UNION {{<<t, k>> : k \in {j \in 1..committed[t] : ~Handled(t, j) /\ <<t, j>> # current}} :
           t \in Topics}

(* The offsets are committed whatever has become of the messages           *)
(* (consumer.py:36), but each call of run costs the group one message at   *)
(* most: the one it dropped, raised on or died with.                       *)
RunSkipsOneAtMost == Cardinality(Skipped) <= runsOver

-----------------------------------------------------------------------------
(* What the documentation says and the code does not do *)

(* consumer.py:51: "Consume messages in a loop until stopped."  A run that *)
(* is over although the process lives has been told to stop.               *)
LoopsUntilStopped == loop = "over" => ~running

=============================================================================
