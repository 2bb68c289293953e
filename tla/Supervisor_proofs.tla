-------------------------- MODULE Supervisor_proofs --------------------------
(***************************************************************************)
(* Theorems about Supervisor: for every finite set of calls and every set  *)
(* of labels the classifier may give, the counters account for the calls.  *)
(***************************************************************************)
EXTENDS Supervisor, FiniteSetTheorems, TLAPS

(* A call has a label once it is classified, and not before.               *)
LabelFitsProgress ==
  \A c \in Calls : intent[c] \in Intents <=> progress[c] # "called"

(* A call that has returned has executed its agent.                        *)
ReturnedHasExecuted ==
  \A c \in Calls : outcome[c] = "returned" => progress[c] = "executed"

SupervisorInv ==
  SupervisorTypeOK /\ LabelFitsProgress /\ ReturnedHasExecuted /\ CountersAccountForCalls

(* Every label is in the agent map, so that an agent counts as its label.  *)
LEMMA AgentIsLabel == \A l \in Intents : AgentFor(l) = l
  BY DEF AgentFor, AgentMap, Intents

(* The absence of a label is not one.                                      *)
LEMMA NoIntentIsNoLabel == NoIntent \notin Intents
  BY DEF NoIntent, Intents

(* What the counters are compared to is finite.                            *)
LEMMA CountedFinite ==
  \A l \in Intents :
    /\ IsFiniteSet(ClassifiedAs(l)) /\ Cardinality(ClassifiedAs(l)) \in Nat
    /\ IsFiniteSet(RoutedAs(l)) /\ Cardinality(RoutedAs(l)) \in Nat
    /\ IsFiniteSet(ExecutedBy(l)) /\ Cardinality(ExecutedBy(l)) \in Nat
<1>1. \A l \in Intents : /\ ClassifiedAs(l) \subseteq Calls
                         /\ RoutedAs(l) \subseteq Calls
                         /\ ExecutedBy(l) \subseteq Calls
  BY DEF ClassifiedAs, RoutedAs, ExecutedBy
<1> QED
  BY <1>1, CallsAssumption, FS_Subset, FS_CardinalityType

(* A set that gains an element has one more.                               *)
LEMMA OneMore ==
  ASSUME NEW A, NEW x, IsFiniteSet(A), x \notin A
  PROVE  Cardinality(A \cup {x}) = Cardinality(A) + 1
  BY FS_AddElement

(* The first state satisfies the invariant.                                *)
LEMMA SupervisorInvInit == SupervisorInit => SupervisorInv
<1> SUFFICES ASSUME SupervisorInit PROVE SupervisorInv
  OBVIOUS
<1>1. SupervisorTypeOK
  BY DEF SupervisorInit, SupervisorTypeOK, Progress, Outcome
<1>2. LabelFitsProgress /\ ReturnedHasExecuted
  BY NoIntentIsNoLabel DEF SupervisorInit, LabelFitsProgress, ReturnedHasExecuted
<1>3. \A l \in Intents : ClassifiedAs(l) = {} /\ RoutedAs(l) = {} /\ ExecutedBy(l) = {}
  BY NoIntentIsNoLabel DEF SupervisorInit, ClassifiedAs, RoutedAs, ExecutedBy
<1>4. CountersAccountForCalls
  BY <1>3, FS_EmptySet DEF SupervisorInit, CountersAccountForCalls
<1> QED
  BY <1>1, <1>2, <1>4 DEF SupervisorInv

(* Classifying a call counts it under its label.                           *)
LEMMA ClassifyKeepsInv ==
  ASSUME SupervisorInv, NEW c \in Calls, NEW l \in Classifiable, Classify(c, l)
  PROVE  SupervisorInv'
<1> USE DEF SupervisorInv, SupervisorTypeOK, Classify, At
<1>1. l \in Intents
  BY ClassifiableAssumption
<1>2. SupervisorTypeOK' /\ LabelFitsProgress' /\ ReturnedHasExecuted'
  BY <1>1 DEF Progress, LabelFitsProgress, ReturnedHasExecuted
<1>3. /\ c \notin ClassifiedAs(l) /\ ClassifiedAs(l)' = ClassifiedAs(l) \cup {c}
      /\ \A m \in Intents \ {l} : ClassifiedAs(m)' = ClassifiedAs(m)
  BY <1>1 DEF ClassifiedAs, LabelFitsProgress
<1>4. \A m \in Intents : RoutedAs(m)' = RoutedAs(m) /\ ExecutedBy(m)' = ExecutedBy(m)
  BY <1>1 DEF RoutedAs, ExecutedBy, LabelFitsProgress
<1>5. Cardinality(ClassifiedAs(l)') = Cardinality(ClassifiedAs(l)) + 1
  BY <1>1, <1>3, CountedFinite, OneMore
<1>6. \A m \in Intents : intent_classification_total'[m] = Cardinality(ClassifiedAs(m)')
  BY <1>1, <1>3, <1>5 DEF CountersAccountForCalls
<1> QED
  BY <1>2, <1>4, <1>6 DEF CountersAccountForCalls

(* Routing a call counts it under the label it was classified as.          *)
LEMMA RouteKeepsInv ==
  ASSUME SupervisorInv, NEW c \in Calls, Route(c)
  PROVE  SupervisorInv'
<1> USE DEF SupervisorInv, SupervisorTypeOK, Route, At
<1> DEFINE l == intent[c]
<1>1. l \in Intents
  BY DEF LabelFitsProgress
<1>2. SupervisorTypeOK' /\ LabelFitsProgress' /\ ReturnedHasExecuted'
  BY <1>1 DEF Progress, LabelFitsProgress, ReturnedHasExecuted
<1>3. /\ c \notin RoutedAs(l) /\ RoutedAs(l)' = RoutedAs(l) \cup {c}
      /\ \A m \in Intents \ {l} : RoutedAs(m)' = RoutedAs(m)
  BY <1>1 DEF RoutedAs
<1>4. \A m \in Intents : ClassifiedAs(m)' = ClassifiedAs(m) /\ ExecutedBy(m)' = ExecutedBy(m)
  BY DEF ClassifiedAs, ExecutedBy
<1>5. Cardinality(RoutedAs(l)') = Cardinality(RoutedAs(l)) + 1
  BY <1>1, <1>3, CountedFinite, OneMore
<1>6. \A m \in Intents : agent_routing_total'[m] = Cardinality(RoutedAs(m)')
  BY <1>1, <1>3, <1>5 DEF CountersAccountForCalls
<1> QED
  BY <1>2, <1>4, <1>6 DEF CountersAccountForCalls

(* Executing a call counts it under its agent, whose name is its label.    *)
LEMMA ExecuteKeepsInv ==
  ASSUME SupervisorInv, NEW c \in Calls, Execute(c)
  PROVE  SupervisorInv'
<1> USE DEF SupervisorInv, SupervisorTypeOK, Execute, At
<1> DEFINE l == intent[c]
<1>1. l \in Intents /\ AgentFor(l) = l
  BY AgentIsLabel DEF LabelFitsProgress
<1>2. SupervisorTypeOK' /\ LabelFitsProgress' /\ ReturnedHasExecuted'
  BY <1>1 DEF Progress, LabelFitsProgress, ReturnedHasExecuted
<1>3. /\ c \notin ExecutedBy(l) /\ ExecutedBy(l)' = ExecutedBy(l) \cup {c}
      /\ \A m \in Intents \ {l} : ExecutedBy(m)' = ExecutedBy(m)
  BY <1>1 DEF ExecutedBy
<1>4. \A m \in Intents : ClassifiedAs(m)' = ClassifiedAs(m) /\ RoutedAs(m)' = RoutedAs(m)
  BY DEF ClassifiedAs, RoutedAs
<1>5. Cardinality(ExecutedBy(l)') = Cardinality(ExecutedBy(l)) + 1
  BY <1>1, <1>3, CountedFinite, OneMore
<1>6. \A m \in Intents : tool_execution_total'[m] = Cardinality(ExecutedBy(m)')
  BY <1>1, <1>3, <1>5 DEF CountersAccountForCalls
<1> QED
  BY <1>2, <1>4, <1>6 DEF CountersAccountForCalls

(* A call ends without touching what was counted, wherever it is.          *)
LEMMA EndKeepsInv ==
  ASSUME SupervisorInv, NEW c \in Calls, Return(c) \/ Raise(c)
  PROVE  SupervisorInv'
<1>1. UNCHANGED <<progress, intent, intent_classification_total, agent_routing_total,
                  tool_execution_total>>
  BY DEF Return, Raise
<1>2. SupervisorTypeOK' /\ LabelFitsProgress' /\ ReturnedHasExecuted'
  BY DEF Return, Raise, At, SupervisorInv, SupervisorTypeOK, Outcome,
       LabelFitsProgress, ReturnedHasExecuted
<1>3. CountersAccountForCalls'
  BY <1>1 DEF SupervisorInv, CountersAccountForCalls, ClassifiedAs, RoutedAs, ExecutedBy
<1> QED
  BY <1>2, <1>3 DEF SupervisorInv

(* Every step keeps the invariant.                                         *)
LEMMA SupervisorInvStep == SupervisorInv /\ [SupervisorNext]_supervisorVars => SupervisorInv'
<1> SUFFICES ASSUME SupervisorInv, [SupervisorNext]_supervisorVars PROVE SupervisorInv'
  OBVIOUS
<1>1. CASE UNCHANGED supervisorVars
  BY <1>1 DEF supervisorVars, SupervisorInv, SupervisorTypeOK, LabelFitsProgress,
       ReturnedHasExecuted, CountersAccountForCalls, ClassifiedAs, RoutedAs, ExecutedBy
<1> QED
  BY <1>1, ClassifyKeepsInv, RouteKeepsInv, ExecuteKeepsInv, EndKeepsInv DEF SupervisorNext

(* Every reachable state satisfies the invariant.                          *)
LEMMA SupervisorInvAlways == SupervisorSpec => []SupervisorInv
  BY SupervisorInvInit, SupervisorInvStep, PTL DEF SupervisorSpec

(* The calls behind each counter are among the calls behind the one before *)
(* it, so that the counters form a funnel.                                 *)
LEMMA FunnelFromInv == SupervisorInv => FunnelNarrows
<1> SUFFICES ASSUME SupervisorInv PROVE FunnelNarrows
  OBVIOUS
<1>1. ASSUME NEW l \in Intents
      PROVE  /\ agent_routing_total[l] <= intent_classification_total[l]
             /\ tool_execution_total[l] <= agent_routing_total[l]
  <2>1. RoutedAs(l) \subseteq ClassifiedAs(l) /\ ExecutedBy(l) \subseteq RoutedAs(l)
    BY AgentIsLabel DEF RoutedAs, ClassifiedAs, ExecutedBy, SupervisorInv, LabelFitsProgress
  <2>2. /\ Cardinality(RoutedAs(l)) <= Cardinality(ClassifiedAs(l))
        /\ Cardinality(ExecutedBy(l)) <= Cardinality(RoutedAs(l))
    BY <2>1, CountedFinite, FS_Subset
  <2> QED
    BY <2>2 DEF SupervisorInv, CountersAccountForCalls
<1>2. ASSUME NEW c \in Calls, outcome[c] = "returned"
      PROVE  tool_execution_total[AgentFor(intent[c])] > 0
  <2> DEFINE l == intent[c]
  <2>1. l \in Intents /\ AgentFor(l) = l /\ c \in ExecutedBy(l)
    BY <1>2, AgentIsLabel
       DEF SupervisorInv, ReturnedHasExecuted, LabelFitsProgress, ExecutedBy
  <2>2. Cardinality(ExecutedBy(l)) \in Nat /\ Cardinality(ExecutedBy(l)) # 0
    BY <2>1, CountedFinite, FS_EmptySet
  <2> QED
    BY <2>1, <2>2 DEF SupervisorInv, CountersAccountForCalls
<1> QED
  BY <1>1, <1>2 DEF FunnelNarrows

-----------------------------------------------------------------------------
(* However calls interleave and wherever they raise, each counter is the   *)
(* number of calls that came that far under that label (intent.py:56,      *)
(* supervisor.py:43, base.py:44).                                          *)
THEOREM CountersAccountForCallsAlways == SupervisorSpec => []CountersAccountForCalls
<1>1. SupervisorInv => CountersAccountForCalls
  BY DEF SupervisorInv
<1> QED
  BY <1>1, SupervisorInvAlways, PTL

(* The counters keep their types: labels of the map, never negative.       *)
THEOREM SupervisorTypesCorrect == SupervisorSpec => []SupervisorTypeOK
<1>1. SupervisorInv => SupervisorTypeOK
  BY DEF SupervisorInv
<1> QED
  BY <1>1, SupervisorInvAlways, PTL

(* Read off one scrape, the three counters form a funnel per label, and a  *)
(* call that returned went all the way through it (intent.py:56,           *)
(* supervisor.py:43, base.py:44).                                          *)
THEOREM FunnelNarrowsAlways == SupervisorSpec => []FunnelNarrows
  BY FunnelFromInv, SupervisorInvAlways, PTL

=============================================================================
