----------------------------- MODULE MCAgentApi -----------------------------
(***************************************************************************)
(* Instances of AgentApi for TLC.                                          *)
(***************************************************************************)
EXTENDS AgentApi

CONSTANTS r1, r2, v1, v2, c1, c2

TwoRequests == {r1, r2}
OneSession  == {v1}
TwoSessions == {v1, v2}
NoSessions  == {}
OneTurn     == {<<v1, 1>>}
NoTurns     == {}
NoRequests  == {}
TwoStreams  == {c1, c2}
OneStream   == {c1}
NoStreams   == {}

(* Of the statuses of other paths, one that simulate-call has, too, and    *)
(* one that it does not have.                                              *)
FoundOrNot == {200, 404}

(* The classifier of this commit says "general" whatever it hears. *)
StubLabels == {"general"}

=============================================================================
