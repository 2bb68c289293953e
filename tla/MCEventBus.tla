----------------------------- MODULE MCEventBus -----------------------------
(***************************************************************************)
(* An instance of EventBus for TLC.                                        *)
(***************************************************************************)
EXTENDS EventBus

CONSTANTS s1, s2

OneSession  == {s1}
TwoSessions == {s1, s2}

(* A session's life, with an event in the middle that has no topic. *)
FullScript == <<"session_started", "unlisted", "session_ended">>

(* Two topics. *)
EscalatedScript == <<"session_started", "escalation_triggered", "session_ended">>
=============================================================================
