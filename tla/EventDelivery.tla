--------------------------- MODULE EventDelivery ---------------------------
(***************************************************************************)
(* What the consuming side of the event bus promises, whatever becomes of  *)
(* producers, runs and processes: topics only grow, each is passed one     *)
(* message at a time, seen or lost, and what makes the consumer go back    *)
(* takes it to the checkpoint, which never goes back itself and is never   *)
(* past the message at hand.                                               *)
(***************************************************************************)
EXTENDS Naturals, Sequences

CONSTANT Topics

VARIABLES
  size,      \* how many messages each topic has
  base,      \* the checkpoint of each topic
  cursor,    \* how many messages of each topic have been passed
  life,      \* how many times the consumer has been started
  seen       \* what the handler has seen: topic, offset and life

vars == <<size, base, cursor, life, seen>>

Init ==
  /\ size = [t \in Topics |-> 0]
  /\ base = [t \in Topics |-> 0]
  /\ cursor = [t \in Topics |-> 0]
  /\ life = 0
  /\ seen = <<>>

Grow ==
  /\ \A t \in Topics : size'[t] >= size[t]
  /\ UNCHANGED <<base, cursor, life, seen>>

NewLife ==
  /\ life' = life + 1
  /\ UNCHANGED <<size, base, cursor, seen>>

(* The message at hand is passed; if its client is gone, the topic is back *)
(* at the checkpoint behind it.                                            *)
Pass(t) ==
  /\ cursor[t] < size[t]
  /\ \E k \in {cursor[t] + 1, base[t]} : cursor' = [cursor EXCEPT ![t] = k]
  /\ UNCHANGED <<size, base, life>>

Deliver(t) ==
  /\ seen' = Append(seen, [topic |-> t, offset |-> cursor[t] + 1, life |-> life])
  /\ Pass(t)

Lose(t) == UNCHANGED seen /\ Pass(t)

Checkpoint ==
  /\ \A t \in Topics : base[t] <= base'[t] /\ base'[t] <= cursor[t] + 1
  /\ UNCHANGED <<size, cursor, life, seen>>

GoBack ==
  /\ \A t \in Topics : cursor'[t] \in {cursor[t], base[t]}
  /\ UNCHANGED <<size, base, life, seen>>

Next == Grow \/ NewLife \/ (\E t \in Topics : Deliver(t) \/ Lose(t)) \/ Checkpoint \/ GoBack

Spec == Init /\ [][Next]_vars

=============================================================================
