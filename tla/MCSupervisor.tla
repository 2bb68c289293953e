---------------------------- MODULE MCSupervisor ----------------------------
(***************************************************************************)
(* An instance of Supervisor for TLC: concurrent calls, every label.       *)
(***************************************************************************)
EXTENDS Supervisor

CONSTANTS c1, c2, c3

ThreeCalls == {c1, c2, c3}

(* Every label a ClassificationResult admits (intent.py:22), although the  *)
(* stub classifier of this commit only ever says "general".                *)
AllLabels == Intents

=============================================================================
