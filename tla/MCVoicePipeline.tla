--------------------------- MODULE MCVoicePipeline ---------------------------
(***************************************************************************)
(* Instances of VoicePipeline for TLC.                                     *)
(***************************************************************************)
EXTENDS VoicePipeline

CONSTANTS c1, c2

TwoCallers == {c1, c2}
OneCaller  == {c1}
NoCallers  == {}

(* The classifier of this commit says "general" whatever it hears. *)
StubLabels == {"general"}

=============================================================================
