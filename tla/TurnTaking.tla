----------------------------- MODULE TurnTaking -----------------------------
(***************************************************************************)
(* What a voice session promises its caller, with no pipeline in sight:    *)
(* turns are asked one after the other until somebody hangs up, each is    *)
(* answered once, in the order they were asked, by a reply or by an        *)
(* apology, and the session closes only when every turn asked before the   *)
(* hang-up has had its answer.                                             *)
(*                                                                         *)
(* VoicePipeline implements this module (PipelineTakesTurns).              *)
(***************************************************************************)
EXTENDS Naturals, Sequences

CONSTANT Turns   \* the numbers a turn may have; later turns have larger ones

VARIABLES
  asked,     \* the turns asked before the hang-up
  hungUp,    \* nothing asked from now on belongs to the session
  answers,   \* the answers given, in order: [turn |-> t, how |-> h]
  closed     \* the session is over

turnVars == <<asked, hungUp, answers, closed>>

How == {"reply", "apology"}

Answered(t) == \E n \in DOMAIN answers : answers[n].turn = t

TurnTypeOK ==
  /\ asked \subseteq Turns
  /\ hungUp \in BOOLEAN
  /\ answers \in Seq([turn : Turns, how : How])
  /\ closed \in BOOLEAN

TurnInit ==
  /\ asked = {}
  /\ hungUp = FALSE
  /\ answers = <<>>
  /\ closed = FALSE

Ask(t) ==
  /\ ~hungUp
  /\ \A s \in asked : s < t
  /\ asked' = asked \cup {t}
  /\ UNCHANGED <<hungUp, answers, closed>>

HangUp ==
  /\ ~hungUp
  /\ hungUp' = TRUE
  /\ UNCHANGED <<asked, answers, closed>>

Answer(t, h) ==
  /\ ~closed
  /\ t \in asked
  /\ ~Answered(t)
  /\ \A s \in asked : s < t => Answered(s)
  /\ answers' = Append(answers, [turn |-> t, how |-> h])
  /\ UNCHANGED <<asked, hungUp, closed>>

Close ==
  /\ hungUp
  /\ ~closed
  /\ \A t \in asked : Answered(t)
  /\ closed' = TRUE
  /\ UNCHANGED <<asked, hungUp, answers>>

TurnNext ==
  \/ \E t \in Turns : Ask(t)
  \/ \E t \in Turns, h \in How : Answer(t, h)
  \/ HangUp
  \/ Close

TurnSpec == TurnInit /\ [][TurnNext]_turnVars

=============================================================================
