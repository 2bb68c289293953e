--------------------------- MODULE EventBus_proofs ---------------------------
(***************************************************************************)
(* Theorems about EventBus, for every set of sessions, every script and    *)
(* every bound: its types, the order in which a life of the consumer sees  *)
(* events, how much a run can cost, and that the bus implements            *)
(* EventDelivery.                                                          *)
(***************************************************************************)
EXTENDS EventBus, FiniteSetTheorems, TLAPS

-----------------------------------------------------------------------------
(* What makes the properties hold, and is inductive *)

(* A session waits for one send at most, that of its latest event.         *)
OneInFlight == \A s \in Sessions : inFlight[s] \subseteq {next[s] - 1}

(* What a topic has of a session has been published, in order.             *)
LogInOrder ==
  \A t \in Topics :
    /\ \A k \in DOMAIN log[t] : log[t][k].number < next[log[t][k].session]
    /\ \A j, k \in DOMAIN log[t] : j < k /\ log[t][j].session = log[t][k].session =>
         log[t][j].number <= log[t][k].number

(* There is a message at hand while run handles it, and no run while the   *)
(* client starts or after it could not.                                    *)
LoopFitsClient ==
  /\ loop = "handling" <=> current # NoMessage
  /\ consumer \in {"starting", "failed"} => ~Active

(* Without a client there is no position.  With one, the position is       *)
(* behind nothing that is committed, and the message at hand is the last   *)
(* one fetched from its topic.                                             *)
PositionFitsClient ==
  /\ consumer \in {"none", "starting", "failed"} => position = NoPosition
  /\ consumer \in {"open", "closing"} => \A t \in Topics : committed[t] <= position[t]
  /\ consumer = "left" /\ position # NoPosition => \A t \in Topics : committed[t] <= position[t]
  /\ consumer \in {"open", "closing", "left"} /\ current # NoMessage =>
       current[2] = position[current[1]]

(* What this life has handled is behind the position and the message at    *)
(* hand; a life that is only starting has handled nothing.                 *)
HandledBehind ==
  \A i \in DOMAIN handled :
    /\ handled[i].offset \in DOMAIN log[handled[i].topic]
    /\ handled[i].life <= lives
    /\ handled[i].life = lives =>
         /\ consumer \notin {"starting", "failed"}
         /\ consumer \in {"open", "closing"} => handled[i].offset <= position[handled[i].topic]
         /\ current # NoMessage /\ current[1] = handled[i].topic =>
              handled[i].offset < current[2]

(* What has been fetched, or passed by a commit, and is neither handled    *)
(* nor at hand.                                                            *)
Lost ==
  UNION {{<<t, k>> : k \in {j \in 1..Len(log[t]) :
                              /\ j <= position[t] \/ j <= committed[t]
                              /\ ~Handled(t, j) /\ <<t, j>> # current}} : t \in Topics}

LostWithRuns == IsFiniteSet(Lost) /\ Cardinality(Lost) <= runsOver

BusInv ==
  /\ BusTypeOK
  /\ OneInFlight
  /\ LogInOrder
  /\ LoopFitsClient
  /\ PositionFitsClient
  /\ HandledBehind
  /\ NoRepeatsWithinALife

-----------------------------------------------------------------------------
(* Sequences and topics *)

(* A sequence that an element is appended to keeps what it had.            *)
LEMMA AppendFacts ==
  ASSUME NEW S, NEW q \in Seq(S), NEW e \in S
  PROVE  /\ Append(q, e) \in Seq(S)
         /\ Len(q) \in Nat /\ Len(Append(q, e)) = Len(q) + 1
         /\ DOMAIN q = 1..Len(q) /\ DOMAIN Append(q, e) = 1..Len(q) + 1
         /\ Append(q, e)[Len(q) + 1] = e
         /\ \A k \in DOMAIN q : k \in DOMAIN Append(q, e) /\ Append(q, e)[k] = q[k]
  OBVIOUS

(* No topic is called like the absence of a message.                       *)
LEMMA NoneIsNoTopic == \A t \in Topics : t # "none"
  BY DEF Topics, EventTopicMap

(* A topic is a sequence of events.                                        *)
LEMMA LogFacts ==
  ASSUME LogTypeOK, NEW t \in Topics
  PROVE  /\ log[t] \in Seq(Events) /\ Len(log[t]) \in Nat /\ DOMAIN log[t] = 1..Len(log[t])
         /\ \A k \in DOMAIN log[t] : /\ log[t][k] \in Events
                                     /\ log[t][k].session \in Sessions
                                     /\ log[t][k].number \in Numbers
<1>1. log[t] \in Seq(Events)
  BY DEF LogTypeOK
<1>2. Len(log[t]) \in Nat /\ DOMAIN log[t] = 1..Len(log[t])
  BY <1>1
<1>3. \A k \in DOMAIN log[t] : log[t][k] \in Events
  BY <1>1
<1> QED
  BY <1>1, <1>2, <1>3 DEF Events

(* The numbers of a session's events are those of the script.              *)
LEMMA NumberFacts ==
  /\ Len(Script) \in Nat /\ Numbers = 1..Len(Script)
  /\ \A n \in Numbers : n \in Nat
  BY BusAssumption DEF Numbers

-----------------------------------------------------------------------------
(* The producer's steps *)

(* The broker appends one event to one topic.                              *)
LEMMA BrokerAppendsFacts ==
  ASSUME LogTypeOK, NEW s \in Sessions, NEW n \in Numbers, BrokerAppends(s, n)
  PROVE  /\ LogTypeOK'
         /\ \A t \in Topics : log'[t] = IF t = TopicOf(n) THEN Append(log[t], Event(s, n))
                                        ELSE log[t]
         /\ Event(s, n) \in Events
<1>1. Event(s, n) \in Events
  BY DEF Event, Events
<1>2. \A t \in Topics : log'[t] = IF t = TopicOf(n) THEN Append(log[t], Event(s, n)) ELSE log[t]
  BY DEF BrokerAppends, LogTypeOK
<1>3. ASSUME NEW t \in Topics PROVE log'[t] \in Seq(Events)
  <2>1. log[t] \in Seq(Events)
    BY LogFacts
  <2>2. Append(log[t], Event(s, n)) \in Seq(Events)
    BY <1>1, <2>1, AppendFacts
  <2> QED
    BY <1>2, <2>1, <2>2
<1>4. log' \in [Topics -> Seq(Events)]
  BY <1>3 DEF BrokerAppends, LogTypeOK
<1> QED
  BY <1>1, <1>2, <1>4 DEF LogTypeOK

(* Topics only grow, and what is on them stays what it was.                *)
LEMMA LogGrows ==
  ASSUME LogTypeOK, ProducerNext
  PROVE  /\ LogTypeOK'
         /\ \A t \in Topics :
              /\ Len(log[t]) <= Len(log'[t])
              /\ \A k \in DOMAIN log[t] : k \in DOMAIN log'[t] /\ log'[t][k] = log[t][k]
<1>1. ASSUME NEW s \in Sessions, NEW n \in Numbers, BrokerAppends(s, n)
      PROVE  /\ LogTypeOK'
             /\ \A t \in Topics :
                  /\ Len(log[t]) <= Len(log'[t])
                  /\ \A k \in DOMAIN log[t] : k \in DOMAIN log'[t] /\ log'[t][k] = log[t][k]
  <2> SUFFICES ASSUME NEW t \in Topics
               PROVE  /\ Len(log[t]) <= Len(log'[t])
                      /\ \A k \in DOMAIN log[t] : k \in DOMAIN log'[t] /\ log'[t][k] = log[t][k]
    BY <1>1, BrokerAppendsFacts
  <2>1. CASE t = TopicOf(n)
    <3>1. /\ log'[t] = Append(log[t], Event(s, n))
          /\ log[t] \in Seq(Events) /\ Event(s, n) \in Events
      BY <1>1, <2>1, BrokerAppendsFacts, LogFacts
    <3> QED
      BY <3>1, AppendFacts
  <2>2. CASE t # TopicOf(n)
    BY <1>1, <2>2, BrokerAppendsFacts, LogFacts
  <2> QED
    BY <2>1, <2>2
<1>2. CASE UNCHANGED log
  BY <1>2, LogFacts DEF LogTypeOK
<1>3. (\E s \in Sessions, n \in Numbers : BrokerAppends(s, n)) \/ UNCHANGED log
  BY DEF ProducerNext, Start, Started, Stop, Stopped, PublishDrops, PublishRefused, PublishSends,
       Sending, Acknowledged, SendRaises
<1> QED
  BY <1>1, <1>2, <1>3

(* What becomes of one publish is a fate.                                  *)
LEMMA SettleType ==
  ASSUME NEW F, fate \in [Sessions -> [Numbers -> F]],
         NEW s \in Sessions, NEW n \in Numbers, NEW f \in F, Settle(s, n, f)
  PROVE  fate' \in [Sessions -> [Numbers -> F]]
<1>1. [fate[s] EXCEPT ![n] = f] \in [Numbers -> F]
  OBVIOUS
<1>2. fate' = [fate EXCEPT ![s] = [fate[s] EXCEPT ![n] = f]]
  BY DEF Settle
<1> QED
  BY <1>1, <1>2

(* The producer's variables keep their types.                              *)
LEMMA ProducerTypeStep ==
  ASSUME ProducerTypeOK, ProducerNext
  PROVE  ProducerTypeOK'
<1> USE NumberFacts, BusAssumption DEF ProducerTypeOK
<1>1. CASE Start \/ Started \/ Stop \/ Stopped
  BY <1>1 DEF Start, Started, Stop, Stopped
<1>2. ASSUME NEW s \in Sessions, NEW n \in Numbers,
             PublishDrops(s, n) \/ PublishRefused(s, n) \/ PublishSends(s, n)
      PROVE  ProducerTypeOK'
  <2>1. next' \in [Sessions -> 1..Len(Script) + 1]
    BY <1>2 DEF PublishDrops, PublishRefused, PublishSends
  <2>2. fate' \in [Sessions -> [Numbers -> {"none", "dropped", "acked", "raised"}]]
    BY <1>2, SettleType DEF PublishDrops, PublishRefused, PublishSends
  <2>3. inFlight' \in [Sessions -> SUBSET Numbers]
    BY <1>2 DEF PublishDrops, PublishRefused, PublishSends
  <2> QED
    BY <1>2, <2>1, <2>2, <2>3 DEF PublishDrops, PublishRefused, PublishSends
<1>3. ASSUME NEW s \in Sessions, NEW n \in Numbers, Sending(s, n)
      PROVE  ProducerTypeOK'
  <2>1. fate' \in [Sessions -> [Numbers -> {"none", "dropped", "acked", "raised"}]]
    BY <1>3, SettleType DEF Sending, BrokerAppends, Acknowledged, SendRaises, producerVars
  <2>2. inFlight' \in [Sessions -> SUBSET Numbers]
    BY <1>3 DEF Sending, BrokerAppends, Acknowledged, SendRaises, producerVars
  <2> QED
    BY <1>3, <2>1, <2>2 DEF Sending, BrokerAppends, Acknowledged, SendRaises, producerVars
<1> QED
  BY <1>1, <1>2, <1>3 DEF ProducerNext

(* A session's latest event is the only one that can be in flight, as the  *)
(* session waits for it before it publishes the next.                      *)
LEMMA OneInFlightStep ==
  ASSUME ProducerTypeOK, OneInFlight, ProducerNext
  PROVE  /\ OneInFlight'
         /\ \A s \in Sessions : next[s] <= next'[s]
<1> USE NumberFacts DEF ProducerTypeOK, OneInFlight
<1>1. CASE Start \/ Started \/ Stop \/ Stopped
  BY <1>1 DEF Start, Started, Stop, Stopped
<1>2. ASSUME NEW s \in Sessions, NEW n \in Numbers,
             PublishDrops(s, n) \/ PublishRefused(s, n) \/ PublishSends(s, n)
      PROVE  OneInFlight' /\ \A q \in Sessions : next[q] <= next'[q]
  <2>1. /\ n = next[s] /\ inFlight[s] = {}
        /\ next' = [next EXCEPT ![s] = n + 1]
        /\ inFlight' = inFlight \/ inFlight' = [inFlight EXCEPT ![s] = @ \cup {n}]
    BY <1>2 DEF PublishDrops, PublishRefused, PublishSends, Publishes
  <2>2. /\ next'[s] = n + 1 /\ n \in Nat /\ inFlight'[s] \subseteq {n}
        /\ \A q \in Sessions \ {s} : next'[q] = next[q] /\ inFlight'[q] = inFlight[q]
    BY <2>1
  <2>3. \A q \in Sessions : next[q] \in Nat
    OBVIOUS
  <2> QED
    BY <2>1, <2>2, <2>3
<1>3. ASSUME NEW s \in Sessions, NEW n \in Numbers, Sending(s, n)
      PROVE  OneInFlight' /\ \A q \in Sessions : next[q] <= next'[q]
  <2>1. next' = next /\ \A q \in Sessions : inFlight'[q] \subseteq inFlight[q]
    BY <1>3 DEF Sending, BrokerAppends, Acknowledged, SendRaises, producerVars
  <2>2. \A q \in Sessions : next[q] \in Nat
    OBVIOUS
  <2> QED
    BY <2>1, <2>2
<1> QED
  BY <1>1, <1>2, <1>3 DEF ProducerNext

(* An event is appended only while it is the session's latest, so that     *)
(* what a topic has of the session stays in order, repeats included.       *)
LEMMA LogInOrderStep ==
  ASSUME LogTypeOK, ProducerTypeOK, OneInFlight, LogInOrder, ProducerNext
  PROVE  LogInOrder'
<1>1. ASSUME NEW s \in Sessions, NEW n \in Numbers, BrokerAppends(s, n)
      PROVE  LogInOrder'
  <2>1. next' = next /\ n = next[s] - 1
    BY <1>1 DEF BrokerAppends, producerVars, OneInFlight
  <2>2. /\ Event(s, n).session = s /\ Event(s, n).number = n
        /\ n \in Nat /\ next \in [Sessions -> 1..Len(Script) + 1]
    BY NumberFacts DEF Event, ProducerTypeOK
  <2>3. ASSUME NEW t \in Topics
        PROVE  /\ \A k \in DOMAIN log'[t] : log'[t][k].number < next'[log'[t][k].session]
               /\ \A j, k \in DOMAIN log'[t] :
                    j < k /\ log'[t][j].session = log'[t][k].session =>
                      log'[t][j].number <= log'[t][k].number
    <3>1. CASE t # TopicOf(n)
      BY <1>1, <2>1, <3>1, BrokerAppendsFacts DEF LogInOrder
    <3>2. CASE t = TopicOf(n)
      <4> DEFINE q == log[t]
                 m == Len(q)
      <4>1. /\ log'[t] = Append(q, Event(s, n)) /\ Event(s, n) \in Events
            /\ q \in Seq(Events) /\ m \in Nat
        BY <1>1, <3>2, BrokerAppendsFacts, LogFacts
      <4>2. /\ DOMAIN log'[t] = 1..m + 1 /\ DOMAIN q = 1..m
            /\ log'[t][m + 1] = Event(s, n)
            /\ \A k \in 1..m : log'[t][k] = q[k]
        BY <4>1, AppendFacts
      <4>3. \A k \in 1..m : /\ q[k].number \in Nat /\ q[k].session \in Sessions
                            /\ q[k].number < next[q[k].session]
        BY <4>2, LogFacts, NumberFacts DEF LogInOrder
      <4>4. \A j, k \in 1..m : j < k /\ q[j].session = q[k].session => q[j].number <= q[k].number
        BY <4>2 DEF LogInOrder
      <4>5. \A k \in 1..m : q[k].session = s => q[k].number <= n
        BY <2>1, <2>2, <4>3
      <4>6. \A k \in DOMAIN log'[t] : log'[t][k].number < next'[log'[t][k].session]
        BY <2>1, <2>2, <4>1, <4>2, <4>3
      <4>7. ASSUME NEW j \in DOMAIN log'[t], NEW k \in DOMAIN log'[t], j < k,
                   log'[t][j].session = log'[t][k].session
            PROVE  log'[t][j].number <= log'[t][k].number
        <5>1. j \in 1..m /\ (k \in 1..m \/ k = m + 1)
          BY <4>1, <4>2, <4>7
        <5> QED
          BY <2>2, <4>2, <4>4, <4>5, <4>7, <5>1
      <4> QED
        BY <4>6, <4>7
    <3> QED
      BY <3>1, <3>2
  <2> QED
    BY <2>3 DEF LogInOrder
<1>2. CASE UNCHANGED log
  <2>1. \A s \in Sessions : next[s] \in Nat /\ next'[s] \in Nat /\ next[s] <= next'[s]
    BY OneInFlightStep, ProducerTypeStep DEF ProducerTypeOK
  <2>2. \A t \in Topics : \A k \in DOMAIN log[t] :
          log[t][k].session \in Sessions /\ log[t][k].number \in Nat
    BY LogFacts, NumberFacts
  <2> QED
    BY <1>2, <2>1, <2>2 DEF LogInOrder
<1>3. (\E s \in Sessions, n \in Numbers : BrokerAppends(s, n)) \/ UNCHANGED log
  BY DEF ProducerNext, Start, Started, Stop, Stopped, PublishDrops, PublishRefused, PublishSends,
       Sending, Acknowledged, SendRaises
<1> QED
  BY <1>1, <1>2, <1>3

-----------------------------------------------------------------------------
(* The consumer's steps *)

(* A message is a topic and an offset, and no message is neither.          *)
LEMMA MessageFacts ==
  ASSUME ConsumerTypeOK
  PROVE  /\ current # NoMessage => /\ current[1] \in Topics /\ current[2] \in Nat
                                  /\ current = <<current[1], current[2]>>
         /\ NoMessage[1] \notin Topics
         /\ \A t \in Topics, k \in Nat : <<t, k>> # NoMessage
<1>1. current \in (Topics \X Nat) \cup {NoMessage}
  BY DEF ConsumerTypeOK
<1>2. NoMessage[1] = "none"
  BY DEF NoMessage
<1> QED
  BY <1>1, <1>2, NoneIsNoTopic DEF NoMessage

(* The consumer reads the topics and leaves them as they are.              *)
LEMMA ConsumerLeavesLog == ConsumerNext => UNCHANGED log
  BY DEF ConsumerNext, StartConsumer, ConsumerStarted, ConsumerStartFails, Run, Running, Fetch,
         Handle, HandleRaises, RunEnds, AutoCommit, StopConsumer, LeaveGroup, ConsumerStopped,
         Crash

(* An initial position or a committed one is one.                          *)
LEMMA NoPositionType == NoPosition \in [Topics -> Nat] /\ \A t \in Topics : NoPosition[t] = 0
  BY DEF NoPosition

(* The consumer's variables keep their types.                              *)
LEMMA ConsumerTypeStep ==
  ASSUME LogTypeOK, ConsumerTypeOK, LoopFitsClient, ConsumerNext
  PROVE  ConsumerTypeOK'
<1> DEFINE Messages == [topic : Topics, offset : Nat, life : Nat]
<1>1. UNCHANGED log
  BY ConsumerLeavesLog
<1>2. \A t \in Topics : Len(log[t]) \in Nat /\ DOMAIN log[t] = 1..Len(log[t])
  BY LogFacts
<1>3. /\ consumer' \in {"none", "starting", "open", "failed", "closing", "left"}
      /\ loop' \in {"none", "fetching", "handling", "over"}
      /\ lives' \in 0..MaxLives
      /\ runsOver' \in Nat
  BY BusAssumption
     DEF ConsumerNext, StartConsumer, ConsumerStarted, ConsumerStartFails, Run, Running, Fetch,
         Handle, HandleRaises, RunEnds, AutoCommit, StopConsumer, LeaveGroup, ConsumerStopped,
         Crash, ConsumerTypeOK
<1>4. running' \in BOOLEAN
  BY Zenon
     DEF ConsumerNext, StartConsumer, ConsumerStarted, ConsumerStartFails, Run, Running, Fetch,
         Handle, HandleRaises, RunEnds, AutoCommit, StopConsumer, LeaveGroup, ConsumerStopped,
         Crash, ConsumerTypeOK
<1>5. handled' \in Seq(Messages)
  <2>1. CASE Handle
    <3>1. [topic |-> current[1], offset |-> current[2], life |-> lives] \in Messages
      BY <2>1, MessageFacts, BusAssumption DEF Handle, LoopFitsClient, ConsumerTypeOK
    <3>2. handled \in Seq(Messages)
      BY DEF ConsumerTypeOK
    <3> QED
      BY <2>1, <3>1, <3>2, AppendFacts DEF Handle
  <2>2. CASE UNCHANGED handled
    BY <2>2 DEF ConsumerTypeOK
  <2> QED
    BY <2>1, <2>2
       DEF ConsumerNext, StartConsumer, ConsumerStarted, ConsumerStartFails, Run, Running, Fetch,
           HandleRaises, RunEnds, AutoCommit, StopConsumer, LeaveGroup, ConsumerStopped, Crash
<1>6. /\ position' \in [Topics -> Nat] /\ committed' \in [Topics -> Nat]
      /\ \A t \in Topics : position'[t] <= Len(log[t]) /\ committed'[t] <= Len(log[t])
  <2>1. /\ position \in [Topics -> Nat] /\ committed \in [Topics -> Nat]
        /\ \A t \in Topics : position[t] <= Len(log[t]) /\ committed[t] <= Len(log[t])
    BY DEF ConsumerTypeOK
  <2>2. /\ committed' \in {committed, position}
        /\ \/ position' \in {position, committed, NoPosition}
           \/ \E t \in Topics : /\ position[t] < Len(log[t])
                                /\ position' = [position EXCEPT ![t] = @ + 1]
    BY DEF ConsumerNext, StartConsumer, ConsumerStarted, ConsumerStartFails, Run, Running, Fetch,
           Handle, HandleRaises, RunEnds, AutoCommit, StopConsumer, LeaveGroup, ConsumerStopped,
           Crash
  <2>3. position' \in [Topics -> Nat] /\ \A t \in Topics : position'[t] <= Len(log[t])
    <3>1. CASE position' \in {position, committed, NoPosition}
      BY <1>2, <2>1, <3>1, NoPositionType
    <3>2. ASSUME NEW t \in Topics, position[t] < Len(log[t]),
                 position' = [position EXCEPT ![t] = @ + 1]
          PROVE  position' \in [Topics -> Nat] /\ \A u \in Topics : position'[u] <= Len(log[u])
      <4>1. position[t] \in Nat /\ Len(log[t]) \in Nat
        BY <1>2, <2>1
      <4>2. /\ position' \in [Topics -> Nat]
            /\ position'[t] = position[t] + 1
            /\ \A u \in Topics \ {t} : position'[u] = position[u]
        BY <2>1, <3>2, <4>1
      <4> QED
        BY <2>1, <3>2, <4>1, <4>2
    <3> QED
      BY <2>2, <3>1, <3>2
  <2>4. committed' \in [Topics -> Nat] /\ \A t \in Topics : committed'[t] <= Len(log[t])
    BY <2>1, <2>2
  <2> QED
    BY <2>3, <2>4
<1>7. /\ current' \in (Topics \X Nat) \cup {NoMessage}
      /\ current' # NoMessage => current'[2] \in DOMAIN log[current'[1]]
  <2>1. \/ current' \in {current, NoMessage}
        \/ \E t \in Topics : position[t] < Len(log[t]) /\ current' = <<t, position[t] + 1>>
    BY DEF ConsumerNext, StartConsumer, ConsumerStarted, ConsumerStartFails, Run, Running, Fetch,
           Handle, HandleRaises, RunEnds, AutoCommit, StopConsumer, LeaveGroup, ConsumerStopped,
           Crash
  <2>2. \A t \in Topics : position[t] \in Nat
    BY DEF ConsumerTypeOK
  <2> QED
    BY <1>2, <2>1, <2>2 DEF ConsumerTypeOK
<1> QED
  BY <1>1, <1>3, <1>4, <1>5, <1>6, <1>7 DEF ConsumerTypeOK

(* The loop, the message at hand and the client stay in line.              *)
LEMMA LoopFitsClientStep ==
  ASSUME ConsumerTypeOK, LoopFitsClient, ConsumerNext
  PROVE  LoopFitsClient'
<1> USE DEF LoopFitsClient, Active
<1>1. CASE StartConsumer \/ ConsumerStarted \/ ConsumerStartFails \/ Run
  BY <1>1 DEF StartConsumer, ConsumerStarted, ConsumerStartFails, Run
<1>2. CASE Handle \/ HandleRaises \/ RunEnds
  BY <1>2 DEF Handle, HandleRaises, RunEnds
<1>3. CASE AutoCommit \/ StopConsumer \/ LeaveGroup \/ ConsumerStopped \/ Crash
  BY <1>3 DEF AutoCommit, StopConsumer, LeaveGroup, ConsumerStopped, Crash
<1>4. ASSUME NEW t \in Topics, Fetch(t)
      PROVE  LoopFitsClient'
  <2>1. <<t, position[t] + 1>> # NoMessage
    BY MessageFacts DEF ConsumerTypeOK
  <2> QED
    BY <1>4, <2>1 DEF Fetch
<1> QED
  BY <1>1, <1>2, <1>3, <1>4 DEF ConsumerNext, Running

(* The position, what is committed and the message at hand stay in line.   *)
LEMMA PositionFitsClientStep ==
  ASSUME ConsumerTypeOK, LoopFitsClient, PositionFitsClient, ConsumerNext
  PROVE  PositionFitsClient'
<1> USE NoPositionType DEF LoopFitsClient, Active, PositionFitsClient
<1>1. position \in [Topics -> Nat] /\ committed \in [Topics -> Nat]
  BY DEF ConsumerTypeOK
<1>2. CASE StartConsumer \/ ConsumerStartFails \/ Run \/ RunEnds \/ Handle \/ HandleRaises
  BY <1>2 DEF StartConsumer, ConsumerStartFails, Run, RunEnds, Handle, HandleRaises
<1>3. CASE ConsumerStarted
  BY <1>1, <1>3 DEF ConsumerStarted
<1>4. CASE AutoCommit
  BY <1>1, <1>4 DEF AutoCommit
<1>5. CASE StopConsumer
  BY <1>1, <1>5 DEF StopConsumer
<1>6. CASE LeaveGroup
  BY <1>1, <1>6 DEF LeaveGroup
<1>7. CASE ConsumerStopped \/ Crash
  BY <1>7 DEF ConsumerStopped, Crash
<1>8. ASSUME NEW t \in Topics, Fetch(t)
      PROVE  PositionFitsClient'
  <2>1. /\ consumer \in {"open", "closing"} /\ UNCHANGED <<consumer, committed>>
        /\ position' = [position EXCEPT ![t] = @ + 1]
        /\ loop = "fetching" /\ current = NoMessage
    BY <1>8 DEF Fetch
  <2>2. position'[t] = position[t] + 1 /\ \A u \in Topics : position[u] <= position'[u]
    BY <1>1, <2>1
  <2>3. \A u \in Topics : committed[u] <= position'[u]
    BY <1>1, <2>1, <2>2
  <2>4. current' # NoMessage => current'[1] = t /\ current'[2] = position[t] + 1
    BY <1>8, <2>1 DEF Fetch
  <2> QED
    BY <2>1, <2>2, <2>3, <2>4
<1> QED
  BY <1>2, <1>3, <1>4, <1>5, <1>6, <1>7, <1>8 DEF ConsumerNext, Running

(* What is handled is a message, at hand or handled before.                *)
LEMMA HandledFacts ==
  ASSUME ConsumerTypeOK
  PROVE  /\ handled \in Seq([topic : Topics, offset : Nat, life : Nat])
         /\ Len(handled) \in Nat /\ DOMAIN handled = 1..Len(handled)
         /\ \A i \in DOMAIN handled : /\ handled[i].topic \in Topics
                                      /\ handled[i].offset \in Nat
                                      /\ handled[i].life \in Nat
<1> DEFINE Messages == [topic : Topics, offset : Nat, life : Nat]
<1>1. handled \in Seq(Messages)
  BY DEF ConsumerTypeOK
<1>2. \A m \in Messages : m.topic \in Topics /\ m.offset \in Nat /\ m.life \in Nat
  OBVIOUS
<1>3. /\ Len(handled) \in Nat /\ DOMAIN handled = 1..Len(handled)
      /\ \A i \in DOMAIN handled : handled[i] \in Messages
  <2> HIDE DEF Messages
  <2> QED
    BY <1>1
<1> QED
  BY <1>1, <1>2, <1>3

(* What Handle adds to what has been handled: the message at hand.         *)
LEMMA HandleFacts ==
  ASSUME ConsumerTypeOK, LoopFitsClient, Handle
  PROVE  /\ DOMAIN handled = 1..Len(handled) /\ Len(handled) \in Nat
         /\ DOMAIN handled' = 1..Len(handled) + 1
         /\ \A i \in DOMAIN handled : handled'[i] = handled[i]
         /\ handled'[Len(handled) + 1] =
              [topic |-> current[1], offset |-> current[2], life |-> lives]
         /\ current # NoMessage /\ current[1] \in Topics /\ current[2] \in Nat /\ lives \in Nat
         /\ current[2] \in DOMAIN log[current[1]]
<1> DEFINE message == [topic |-> current[1], offset |-> current[2], life |-> lives]
<1>1. /\ current # NoMessage /\ current[1] \in Topics /\ current[2] \in Nat /\ lives \in Nat
      /\ current[2] \in DOMAIN log[current[1]]
  BY MessageFacts, BusAssumption DEF Handle, LoopFitsClient, ConsumerTypeOK
<1>2. message \in [topic : Topics, offset : Nat, life : Nat]
  BY <1>1
<1>3. handled' = Append(handled, message)
  BY DEF Handle
<1> QED
  BY <1>1, <1>2, <1>3, HandledFacts, AppendFacts

(* What has been handled stays behind the position and the message at hand.*)
LEMMA HandledBehindStep ==
  ASSUME LogTypeOK, ConsumerTypeOK, LoopFitsClient, PositionFitsClient, HandledBehind, ConsumerNext
  PROVE  HandledBehind'
<1>1. UNCHANGED log
  BY ConsumerLeavesLog
<1>2. lives \in Nat /\ \A i \in DOMAIN handled : handled[i].life \in Nat
  <2>1. lives \in Nat
    BY BusAssumption DEF ConsumerTypeOK
  <2> QED
    BY <2>1, HandledFacts
<1>3. CASE StartConsumer
  BY <1>1, <1>2, <1>3 DEF StartConsumer, HandledBehind
<1>4. CASE ConsumerStarted \/ ConsumerStartFails
  BY <1>1, <1>4 DEF ConsumerStarted, ConsumerStartFails, HandledBehind
<1>5. CASE Run \/ AutoCommit \/ StopConsumer \/ LeaveGroup \/ ConsumerStopped
  BY <1>1, <1>5 DEF Run, AutoCommit, StopConsumer, LeaveGroup, ConsumerStopped, HandledBehind
<1>6. CASE RunEnds \/ HandleRaises \/ Crash
  BY <1>1, <1>6, NoneIsNoTopic, HandledFacts DEF RunEnds, HandleRaises, Crash, HandledBehind
<1>7. CASE Handle
  <2>1. /\ DOMAIN handled' = DOMAIN handled \cup {Len(handled) + 1}
        /\ UNCHANGED <<consumer, position, lives>> /\ current' = NoMessage
        /\ consumer \notin {"starting", "failed"}
    BY <1>7, HandleFacts DEF Handle, LoopFitsClient, Active
  <2>2. ASSUME NEW i \in DOMAIN handled
        PROVE  /\ handled'[i].offset \in DOMAIN log'[handled'[i].topic]
               /\ handled'[i].life <= lives'
               /\ handled'[i].life = lives' /\ consumer' \in {"open", "closing"} =>
                    handled'[i].offset <= position'[handled'[i].topic]
    BY <1>1, <1>7, <2>1, HandleFacts DEF HandledBehind
  <2>3. ASSUME NEW i, i = Len(handled) + 1
        PROVE  /\ handled'[i].offset \in DOMAIN log'[handled'[i].topic]
               /\ handled'[i].life <= lives'
               /\ handled'[i].life = lives' /\ consumer' \in {"open", "closing"} =>
                    handled'[i].offset <= position'[handled'[i].topic]
    BY <1>1, <1>7, <2>1, <2>3, HandleFacts DEF PositionFitsClient
  <2> QED
    BY <2>1, <2>2, <2>3 DEF HandledBehind
<1>8. ASSUME NEW t \in Topics, Fetch(t)
      PROVE  HandledBehind'
  <2>1. /\ UNCHANGED <<consumer, handled, lives>> /\ consumer \in {"open", "closing"}
        /\ position \in [Topics -> Nat] /\ position' = [position EXCEPT ![t] = @ + 1]
        /\ current = NoMessage
    BY <1>8 DEF Fetch, ConsumerTypeOK, LoopFitsClient
  <2>2. \A u \in Topics : position[u] \in Nat /\ position'[u] \in Nat /\ position[u] <= position'[u]
    BY <2>1
  <2>3. current' # NoMessage => current'[1] = t /\ current'[2] = position[t] + 1
    BY <1>8, <2>1 DEF Fetch
  <2>4. ASSUME NEW i \in DOMAIN handled
        PROVE  /\ handled[i].offset \in DOMAIN log[handled[i].topic]
               /\ handled[i].life <= lives
               /\ handled[i].life = lives =>
                    /\ consumer \notin {"starting", "failed"}
                    /\ handled[i].offset <= position'[handled[i].topic]
                    /\ current' # NoMessage /\ current'[1] = handled[i].topic =>
                         handled[i].offset < current'[2]
    BY <2>1, <2>2, <2>3, HandledFacts DEF HandledBehind
  <2> QED
    BY <1>1, <2>1, <2>4 DEF HandledBehind
<1> QED
  BY <1>3, <1>4, <1>5, <1>6, <1>7, <1>8 DEF ConsumerNext, Running

(* Only Handle adds to what has been handled.                              *)
LEMMA OnlyHandleHandles == ConsumerNext => Handle \/ UNCHANGED handled
  BY DEF ConsumerNext, StartConsumer, ConsumerStarted, ConsumerStartFails, Run, Running, Fetch,
         HandleRaises, RunEnds, AutoCommit, StopConsumer, LeaveGroup, ConsumerStopped, Crash

(* The message at hand is beyond all that this life has handled of its     *)
(* topic.                                                                  *)
LEMMA NoRepeatsStep ==
  ASSUME ConsumerTypeOK, LoopFitsClient, HandledBehind, NoRepeatsWithinALife, ConsumerNext
  PROVE  NoRepeatsWithinALife'
<1>1. CASE UNCHANGED handled
  BY <1>1 DEF NoRepeatsWithinALife
<1>2. CASE Handle
  <2> DEFINE m == Len(handled) + 1
  <2>1. /\ m \in Nat /\ DOMAIN handled = 1..m - 1 /\ DOMAIN handled' = 1..m
        /\ \A i \in 1..m - 1 : handled'[i] = handled[i]
        /\ handled'[m].topic = current[1] /\ handled'[m].offset = current[2]
        /\ handled'[m].life = lives /\ current # NoMessage
    BY <1>2, HandleFacts
  <2>2. ASSUME NEW i \in DOMAIN handled', NEW j \in DOMAIN handled', i < j,
               handled'[i].topic = handled'[j].topic, handled'[i].life = handled'[j].life
        PROVE  handled'[i].offset < handled'[j].offset
    <3>1. i \in 1..m - 1 /\ (j \in 1..m - 1 \/ j = m)
      BY <2>1, <2>2
    <3>2. CASE j \in 1..m - 1
      BY <2>1, <2>2, <3>1, <3>2 DEF NoRepeatsWithinALife
    <3>3. CASE j = m
      BY <2>1, <2>2, <3>1, <3>3 DEF HandledBehind
    <3> QED
      BY <3>1, <3>2, <3>3
  <2> QED
    BY <2>2 DEF NoRepeatsWithinALife
<1> QED
  BY <1>1, <1>2, OnlyHandleHandles

-----------------------------------------------------------------------------
(* The bus *)

(* Nothing is published, fetched or handled yet.                           *)
LEMMA BusInvInit == Init => BusInv
<1> SUFFICES ASSUME Init
             PROVE  BusInv
  OBVIOUS
<1> USE NumberFacts, BusAssumption, NoPositionType
    DEF Init, LogInit, ProducerInit, ConsumerInit
<1>1. LogTypeOK /\ LogInOrder
  BY DEF LogTypeOK, LogInOrder
<1>2. ProducerTypeOK /\ OneInFlight
  BY DEF ProducerTypeOK, OneInFlight
<1>3. ConsumerTypeOK
  <2>1. handled \in Seq([topic : Topics, offset : Nat, life : Nat])
    OBVIOUS
  <2>2. /\ position \in [Topics -> Nat] /\ committed \in [Topics -> Nat]
        /\ \A t \in Topics : position[t] <= Len(log[t]) /\ committed[t] <= Len(log[t])
    OBVIOUS
  <2>3. lives \in 0..MaxLives /\ runsOver \in Nat
    OBVIOUS
  <2>4. running \in BOOLEAN
    BY Zenon
  <2> QED
    BY <2>1, <2>2, <2>3, <2>4 DEF ConsumerTypeOK
<1>4. LoopFitsClient /\ PositionFitsClient /\ HandledBehind /\ NoRepeatsWithinALife
  BY DEF LoopFitsClient, PositionFitsClient, HandledBehind, NoRepeatsWithinALife, Active
<1> QED
  BY <1>1, <1>2, <1>3, <1>4 DEF BusInv, BusTypeOK

(* The producer's steps: topics grow beneath an idle consumer.             *)
LEMMA BusInvProducerStep ==
  ASSUME BusInv, ProducerNext, UNCHANGED consumerVars
  PROVE  BusInv'
<1> USE DEF BusInv, BusTypeOK
<1>1. LogTypeOK' /\ ProducerTypeOK' /\ OneInFlight' /\ LogInOrder'
  BY LogGrows, ProducerTypeStep, OneInFlightStep, LogInOrderStep
<1>2. \A t \in Topics :
        /\ Len(log[t]) \in Nat /\ Len(log'[t]) \in Nat /\ Len(log[t]) <= Len(log'[t])
        /\ DOMAIN log[t] \subseteq DOMAIN log'[t]
  BY <1>1, LogGrows, LogFacts DEF LogTypeOK
<1>3. ConsumerTypeOK'
  <2>1. \A t \in Topics : /\ position[t] \in Nat /\ committed[t] \in Nat
                          /\ position[t] <= Len(log[t]) /\ committed[t] <= Len(log[t])
    BY DEF ConsumerTypeOK
  <2>2. \A t \in Topics : position[t] <= Len(log'[t]) /\ committed[t] <= Len(log'[t])
    BY <1>2, <2>1
  <2>3. current # NoMessage => current[1] \in Topics /\ current[2] \in DOMAIN log[current[1]]
    BY MessageFacts DEF ConsumerTypeOK
  <2>4. current # NoMessage => current[2] \in DOMAIN log'[current[1]]
    BY <1>2, <2>3
  <2> QED
    BY <2>2, <2>4 DEF ConsumerTypeOK, consumerVars
<1>4. HandledBehind'
  BY <1>2, HandledFacts DEF HandledBehind, consumerVars
<1>5. LoopFitsClient' /\ PositionFitsClient' /\ NoRepeatsWithinALife'
  BY DEF LoopFitsClient, PositionFitsClient, NoRepeatsWithinALife, Active, consumerVars
<1> QED
  BY <1>1, <1>3, <1>4, <1>5

(* The consumer's steps.                                                   *)
LEMMA BusInvConsumerStep ==
  ASSUME BusInv, ConsumerNext, UNCHANGED producerVars
  PROVE  BusInv'
<1> USE DEF BusInv, BusTypeOK
<1>1. UNCHANGED log
  BY ConsumerLeavesLog
<1>2. LogTypeOK' /\ ProducerTypeOK' /\ OneInFlight' /\ LogInOrder'
  BY <1>1 DEF LogTypeOK, ProducerTypeOK, OneInFlight, LogInOrder, producerVars
<1>3. ConsumerTypeOK' /\ LoopFitsClient' /\ PositionFitsClient'
  BY ConsumerTypeStep, LoopFitsClientStep, PositionFitsClientStep
<1>4. HandledBehind' /\ NoRepeatsWithinALife'
  BY HandledBehindStep, NoRepeatsStep
<1> QED
  BY <1>2, <1>3, <1>4

(* No step leaves the inductive invariant.                                 *)
LEMMA BusInvStep == BusInv /\ [Next]_vars => BusInv'
<1> SUFFICES ASSUME BusInv, [Next]_vars
             PROVE  BusInv'
  OBVIOUS
<1>1. CASE UNCHANGED vars
  BY <1>1 DEF vars, producerVars, consumerVars, BusInv, BusTypeOK, LogTypeOK, ProducerTypeOK,
       ConsumerTypeOK, OneInFlight, LogInOrder, LoopFitsClient, PositionFitsClient, HandledBehind,
       NoRepeatsWithinALife, Active
<1> QED
  BY <1>1, BusInvProducerStep, BusInvConsumerStep DEF Next

(* The inductive invariant holds always.                                   *)
LEMMA BusInvAlways == Spec => []BusInv
  BY BusInvInit, BusInvStep, PTL DEF Spec

(* Every variable of the bus has its type, and neither the position nor    *)
(* the committed offset of a topic is beyond its end.                      *)
THEOREM BusTypeCorrect == Spec => []BusTypeOK
<1>1. BusInv => BusTypeOK
  BY DEF BusInv
<1> QED
  BY <1>1, BusInvAlways, PTL

(* Within one life of the consumer, each topic is handled from front to    *)
(* back and no message twice (consumer.py:36, 56).                         *)
THEOREM LivesNeverRepeat == Spec => []NoRepeatsWithinALife
<1>1. BusInv => NoRepeatsWithinALife
  BY DEF BusInv
<1> QED
  BY <1>1, BusInvAlways, PTL

(* Within one life of the consumer, a session's events on a topic are seen *)
(* in the order the session published them: the topic has them in that     *)
(* order, repeats included, and the life passes the topic front to back    *)
(* (producer.py:69, consumer.py:56).                                       *)
THEOREM SessionsInOrder == Spec => []SessionsSeenInOrder
<1>1. ASSUME BusInv
      PROVE  SessionsSeenInOrder
  <2> SUFFICES ASSUME NEW i \in DOMAIN handled, NEW j \in DOMAIN handled,
                      i < j, handled[i].topic = handled[j].topic,
                      handled[i].life = handled[j].life,
                      EventHandled(i).session = EventHandled(j).session
               PROVE  EventHandled(i).number <= EventHandled(j).number
    BY DEF SessionsSeenInOrder
  <2>1. handled[i].offset < handled[j].offset
    BY <1>1 DEF BusInv, NoRepeatsWithinALife
  <2>2. /\ handled[i].topic \in Topics
        /\ handled[i].offset \in DOMAIN log[handled[i].topic]
        /\ handled[j].offset \in DOMAIN log[handled[i].topic]
    BY <1>1, HandledFacts DEF BusInv, BusTypeOK, HandledBehind
  <2> QED
    BY <1>1, <2>1, <2>2 DEF BusInv, LogInOrder, EventHandled
<1> QED
  BY <1>1, BusInvAlways, PTL

-----------------------------------------------------------------------------
(* What a run costs *)

(* What is lost: fetched, or passed by a commit, neither handled nor at    *)
(* hand.                                                                   *)
LEMMA LostFacts ==
  ASSUME LogTypeOK, ConsumerTypeOK
  PROVE  /\ \A x \in Lost : \E t \in Topics, k \in Nat : x = <<t, k>>
         /\ \A t \in Topics, k \in Nat :
              <<t, k>> \in Lost <=> /\ 1 <= k /\ (k <= position[t] \/ k <= committed[t])
                                    /\ ~Handled(t, k) /\ <<t, k>> # current
<1>1. \A t \in Topics : /\ position[t] \in Nat /\ committed[t] \in Nat /\ Len(log[t]) \in Nat
                        /\ position[t] <= Len(log[t]) /\ committed[t] <= Len(log[t])
  BY LogFacts DEF ConsumerTypeOK
<1>2. \A t \in Topics : 1..Len(log[t]) \subseteq Nat
  BY <1>1
<1>3. ASSUME NEW x \in Lost PROVE \E t \in Topics, k \in Nat : x = <<t, k>>
  BY <1>2 DEF Lost
<1>4. ASSUME NEW t \in Topics, NEW k \in Nat
      PROVE  <<t, k>> \in Lost <=> /\ k \in 1..Len(log[t])
                                   /\ k <= position[t] \/ k <= committed[t]
                                   /\ ~Handled(t, k) /\ <<t, k>> # current
  BY DEF Lost
<1> QED
  BY <1>1, <1>3, <1>4

(* What has been handled stays handled.                                    *)
LEMMA HandledStays ==
  ASSUME ConsumerTypeOK, LoopFitsClient, ConsumerNext, NEW t, NEW k, Handled(t, k)
  PROVE  Handled(t, k)'
<1>1. PICK i \in DOMAIN handled : handled[i].topic = t /\ handled[i].offset = k
  BY DEF Handled
<1>2. i \in DOMAIN handled' /\ handled'[i] = handled[i]
  <2>1. CASE Handle
    BY <2>1, HandleFacts
  <2> QED
    BY <2>1, OnlyHandleHandles
<1> QED
  BY <1>1, <1>2 DEF Handled

(* What a step of the consumer can lose: the message at hand, or the one   *)
(* it fetches, and only with the run.                                      *)
LEMMA LostStep ==
  ASSUME BusInv, ConsumerNext, UNCHANGED producerVars
  PROVE  \/ Lost' \subseteq Lost /\ runsOver' \in {runsOver, runsOver + 1}
         \/ \E x : Lost' \subseteq Lost \cup {x} /\ runsOver' = runsOver + 1
<1>1. /\ LogTypeOK /\ ConsumerTypeOK /\ LoopFitsClient /\ PositionFitsClient
      /\ LogTypeOK' /\ ConsumerTypeOK'
  BY BusInvConsumerStep DEF BusInv, BusTypeOK
<1>2. /\ \A x \in Lost' : \E t \in Topics, k \in Nat : x = <<t, k>>
      /\ \A t \in Topics, k \in Nat :
           <<t, k>> \in Lost' <=> /\ 1 <= k /\ (k <= position'[t] \/ k <= committed'[t])
                                  /\ ~Handled(t, k)' /\ <<t, k>> # current'
  <2>1. (LogTypeOK /\ ConsumerTypeOK =>
           /\ \A x \in Lost : \E t \in Topics, k \in Nat : x = <<t, k>>
           /\ \A t \in Topics, k \in Nat :
                <<t, k>> \in Lost <=> /\ 1 <= k /\ (k <= position[t] \/ k <= committed[t])
                                      /\ ~Handled(t, k) /\ <<t, k>> # current)'
    BY LostFacts, PTL
  <2> QED
    BY <1>1, <2>1
<1>3. \A t \in Topics, k \in Nat : ~Handled(t, k)' => ~Handled(t, k)
  BY <1>1, HandledStays
<1>4. \A t \in Topics : /\ position[t] \in Nat /\ committed[t] \in Nat /\ NoPosition[t] = 0
  BY <1>1, NoPositionType DEF ConsumerTypeOK
<1>5. runsOver \in Nat
  BY <1>1 DEF ConsumerTypeOK
(* Without the message at hand, what a position or a commit passes.        *)
<1>6. ASSUME UNCHANGED runsOver,
             current' = current \/ Handle,
             position' \in {position, committed, NoPosition},
             committed' \in {committed, position}
      PROVE  Lost' \subseteq Lost
  <2> SUFFICES ASSUME NEW t \in Topics, NEW k \in Nat, <<t, k>> \in Lost'
               PROVE  <<t, k>> \in Lost
    BY <1>2
  <2>1. 1 <= k /\ (k <= position[t] \/ k <= committed[t]) /\ ~Handled(t, k)
    BY <1>2, <1>3, <1>4, <1>6
  <2>2. <<t, k>> # current
    <3>1. CASE Handle
      <4>1. ASSUME current = <<t, k>> PROVE Handled(t, k)'
        BY <1>1, <3>1, <4>1, HandleFacts DEF Handled
      <4> QED
        BY <1>2, <4>1
    <3> QED
      BY <1>2, <1>6, <3>1
  <2> QED
    BY <1>1, <2>1, <2>2, LostFacts
<1>7. ASSUME current' = NoMessage \/ current' = current,
             position' \in {position, NoPosition},
             UNCHANGED committed
      PROVE  Lost' \subseteq Lost \cup {current}
  <2> SUFFICES ASSUME NEW t \in Topics, NEW k \in Nat, <<t, k>> \in Lost', <<t, k>> # current
               PROVE  <<t, k>> \in Lost
    BY <1>2
  <2>1. 1 <= k /\ (k <= position[t] \/ k <= committed[t]) /\ ~Handled(t, k)
    BY <1>2, <1>3, <1>4, <1>7
  <2> QED
    BY <1>1, <2>1, LostFacts
<1>8. ASSUME NEW t \in Topics, Fetch(t)
      PROVE  \/ Lost' \subseteq Lost /\ runsOver' \in {runsOver, runsOver + 1}
             \/ \E x : Lost' \subseteq Lost \cup {x} /\ runsOver' = runsOver + 1
  <2>1. /\ current = NoMessage /\ UNCHANGED committed
        /\ position' = [position EXCEPT ![t] = @ + 1]
    BY <1>1, <1>8 DEF Fetch, LoopFitsClient
  <2>2. position \in [Topics -> Nat]
    BY <1>1 DEF ConsumerTypeOK
  <2>3. /\ position'[t] = position[t] + 1
        /\ \A u \in Topics \ {t} : position'[u] = position[u]
    BY <2>1, <2>2
  <2>4. Lost' \subseteq Lost \cup {<<t, position[t] + 1>>}
    <3> SUFFICES ASSUME NEW u \in Topics, NEW k \in Nat, <<u, k>> \in Lost',
                        <<u, k>> # <<t, position[t] + 1>>
                 PROVE  <<u, k>> \in Lost
      BY <1>2
    <3>1. 1 <= k /\ (k <= position'[u] \/ k <= committed[u]) /\ ~Handled(u, k)
      BY <1>2, <1>3, <2>1
    <3>2. k <= position[u] \/ k <= committed[u]
      BY <1>4, <2>3, <3>1
    <3>3. <<u, k>> # current
      BY <1>1, <2>1, MessageFacts
    <3> QED
      BY <1>1, <3>1, <3>2, <3>3, LostFacts
  <2>5. CASE current' = <<t, position[t] + 1>> /\ UNCHANGED runsOver
    <3>1. <<t, position[t] + 1>> \notin Lost'
      BY <1>2, <1>4, <2>5
    <3> QED
      BY <2>4, <2>5, <3>1
  <2>6. CASE runsOver' = runsOver + 1
    BY <2>4, <2>6
  <2> QED
    BY <1>8, <2>5, <2>6 DEF Fetch
<1>9. CASE \/ StartConsumer \/ ConsumerStarted \/ ConsumerStartFails \/ Run \/ Handle
           \/ AutoCommit \/ StopConsumer \/ LeaveGroup \/ ConsumerStopped
  <2>1. /\ UNCHANGED runsOver
        /\ current' = current \/ Handle
        /\ position' \in {position, committed, NoPosition}
        /\ committed' \in {committed, position}
    BY <1>9 DEF StartConsumer, ConsumerStarted, ConsumerStartFails, Run, Handle, AutoCommit,
         StopConsumer, LeaveGroup, ConsumerStopped
  <2> QED
    BY <1>6, <2>1
<1>10. CASE HandleRaises \/ RunEnds \/ (Crash /\ Active)
  <2>1. /\ runsOver' = runsOver + 1
        /\ current' = NoMessage \/ current' = current
        /\ position' \in {position, NoPosition}
        /\ UNCHANGED committed
    BY <1>10 DEF HandleRaises, RunEnds, Crash
  <2> QED
    BY <1>7, <2>1
<1>11. CASE Crash /\ ~Active
  <2>1. /\ UNCHANGED runsOver /\ current' = current
        /\ position' = NoPosition
        /\ UNCHANGED committed
    BY <1>1, <1>11 DEF Crash, LoopFitsClient, Active
  <2> QED
    BY <1>6, <2>1
<1> QED
  BY <1>8, <1>9, <1>10, <1>11 DEF ConsumerNext, Running

(* Growing topics lose nothing.                                            *)
LEMMA NothingLostByProducer ==
  ASSUME BusInv, ProducerNext, UNCHANGED consumerVars
  PROVE  Lost' = Lost
<1>1. LogTypeOK /\ ConsumerTypeOK /\ LogTypeOK' /\ ConsumerTypeOK'
  BY BusInvProducerStep DEF BusInv, BusTypeOK
<1>2. (LogTypeOK /\ ConsumerTypeOK =>
         /\ \A x \in Lost : \E t \in Topics, k \in Nat : x = <<t, k>>
         /\ \A t \in Topics, k \in Nat :
              <<t, k>> \in Lost <=> /\ 1 <= k /\ (k <= position[t] \/ k <= committed[t])
                                    /\ ~Handled(t, k) /\ <<t, k>> # current)'
  BY LostFacts, PTL
<1>3. UNCHANGED <<position, committed, current>> /\ \A t, k : Handled(t, k)' <=> Handled(t, k)
  BY DEF Handled, consumerVars
<1>4. \A t \in Topics, k \in Nat : <<t, k>> \in Lost' <=> <<t, k>> \in Lost
  BY <1>1, <1>2, <1>3, LostFacts
<1> QED
  BY <1>1, <1>2, <1>4, LostFacts

(* Each call of run loses one message at most.                             *)
LEMMA LostWithRunsStep == BusInv /\ LostWithRuns /\ [Next]_vars => LostWithRuns'
<1> SUFFICES ASSUME BusInv, LostWithRuns, [Next]_vars
             PROVE  LostWithRuns'
  OBVIOUS
<1>1. IsFiniteSet(Lost) /\ Cardinality(Lost) \in Nat /\ Cardinality(Lost) <= runsOver
      /\ runsOver \in Nat
  BY FS_CardinalityType DEF LostWithRuns, BusInv, BusTypeOK, ConsumerTypeOK
<1>2. ASSUME Lost' \subseteq Lost, runsOver' \in {runsOver, runsOver + 1}
      PROVE  LostWithRuns'
  <2>1. /\ IsFiniteSet(Lost') /\ Cardinality(Lost') <= Cardinality(Lost)
        /\ Cardinality(Lost') \in Nat
    BY <1>1, <1>2, FS_Subset, FS_CardinalityType
  <2> QED
    BY <1>1, <1>2, <2>1 DEF LostWithRuns
<1>3. ASSUME NEW x, Lost' \subseteq Lost \cup {x}, runsOver' = runsOver + 1
      PROVE  LostWithRuns'
  <2>1. /\ IsFiniteSet(Lost \cup {x}) /\ Cardinality(Lost \cup {x}) \in Nat
        /\ Cardinality(Lost \cup {x}) <= Cardinality(Lost) + 1
    BY <1>1, FS_AddElement, FS_CardinalityType
  <2>2. /\ IsFiniteSet(Lost') /\ Cardinality(Lost') <= Cardinality(Lost \cup {x})
        /\ Cardinality(Lost') \in Nat
    BY <1>3, <2>1, FS_Subset, FS_CardinalityType
  <2> QED
    BY <1>1, <1>3, <2>1, <2>2 DEF LostWithRuns
<1>4. CASE UNCHANGED vars
  <2>1. Lost' = Lost /\ runsOver' = runsOver
    BY <1>4 DEF vars, consumerVars, Lost, Handled
  <2> QED
    BY <1>2, <2>1
<1>5. CASE ProducerNext /\ UNCHANGED consumerVars
  BY <1>2, <1>5, NothingLostByProducer DEF consumerVars
<1>6. CASE ConsumerNext /\ UNCHANGED producerVars
  BY <1>2, <1>3, <1>6, LostStep
<1> QED
  BY <1>4, <1>5, <1>6 DEF Next

(* Whatever the client commits behind its back, each call of run costs the *)
(* group one message at most (consumer.py:36, 56-64).                      *)
THEOREM RunsSkipOneAtMost == Spec => []RunSkipsOneAtMost
<1>1. Init => LostWithRuns
  <2> SUFFICES ASSUME Init
               PROVE  LostWithRuns
    OBVIOUS
  <2>1. Lost = {}
    <3>1. \A t \in Topics : position[t] = 0 /\ committed[t] = 0
      BY NoPositionType DEF Init, ConsumerInit
    <3>2. LogTypeOK /\ ConsumerTypeOK
      BY BusInvInit DEF BusInv, BusTypeOK
    <3> QED
      BY <3>1, <3>2, LostFacts
  <2> QED
    BY <2>1, FS_EmptySet DEF LostWithRuns, Init, ConsumerInit
<1>2. BusInv /\ LostWithRuns => RunSkipsOneAtMost
  <2> SUFFICES ASSUME BusInv, LostWithRuns
               PROVE  RunSkipsOneAtMost
    OBVIOUS
  <2>1. LogTypeOK /\ ConsumerTypeOK /\ \A t \in Topics : committed[t] \in Nat
    BY DEF BusInv, BusTypeOK, ConsumerTypeOK
  <2>2. Skipped \subseteq Lost
    <3> SUFFICES ASSUME NEW t \in Topics, NEW k \in 1..committed[t],
                        ~Handled(t, k), <<t, k>> # current
                 PROVE  <<t, k>> \in Lost
      BY DEF Skipped
    <3>1. k \in Nat /\ 1 <= k /\ k <= committed[t]
      BY <2>1
    <3> QED
      BY <2>1, <3>1, LostFacts
  <2>3. /\ Cardinality(Skipped) <= Cardinality(Lost) /\ Cardinality(Skipped) \in Nat
        /\ Cardinality(Lost) \in Nat
    BY <2>2, FS_Subset, FS_CardinalityType DEF LostWithRuns
  <2>4. runsOver \in Nat
    BY <2>1 DEF ConsumerTypeOK
  <2> QED
    BY <2>3, <2>4 DEF LostWithRuns, RunSkipsOneAtMost
<1> QED
  BY <1>1, <1>2, BusInvAlways, LostWithRunsStep, PTL DEF Spec

-----------------------------------------------------------------------------
(* The bus delivers from checkpoints: the mapping, step by step *)

Size   == [t \in Topics |-> Len(log[t])]
Cursor == [t \in Topics |-> Passed(t)]

(* Where the consumer stands on a topic: behind the message at hand, or at *)
(* the position of its client, or else at what is committed.               *)
LEMMA PassedFacts ==
  ASSUME BusInv, NEW t \in Topics
  PROVE  /\ Passed(t) \in Nat
         /\ current[1] = t => /\ current # NoMessage /\ current[2] = Passed(t) + 1
                              /\ Passed(t) < Len(log[t])
         /\ current[1] # t /\ committed[t] <= position[t] => Passed(t) = position[t]
         /\ current[1] # t /\ position = NoPosition => Passed(t) = committed[t]
<1>1. /\ position[t] \in Nat /\ committed[t] \in Nat /\ NoPosition[t] = 0
      /\ current # NoMessage => current[2] \in DOMAIN log[current[1]]
      /\ Len(log[t]) \in Nat /\ DOMAIN log[t] = 1..Len(log[t])
  BY NoPositionType, LogFacts DEF BusInv, BusTypeOK, ConsumerTypeOK
<1>2. current[1] = t => /\ current # NoMessage
                        /\ current[2] \in 1..Len(log[t])
                        /\ Passed(t) = current[2] - 1
  BY <1>1, MessageFacts DEF BusInv, BusTypeOK, Passed
<1>3. current[1] # t => Passed(t) = IF position[t] > committed[t] THEN position[t] ELSE committed[t]
  BY DEF Passed
<1>4. Passed(t) \in Nat
  BY <1>1, <1>2, <1>3
<1> QED
  BY <1>1, <1>2, <1>3, <1>4

(* When the message at hand is let go, its topic has passed it, or is back *)
(* at the checkpoint, as the client that fetched it is gone.               *)
LEMMA LetGoPasses ==
  ASSUME BusInv, loop = "handling", current' = NoMessage,
         UNCHANGED <<position, committed>>
  PROVE  /\ current[1] \in Topics
         /\ \E k \in {Passed(current[1]) + 1, committed[current[1]]} :
              Cursor' = [Cursor EXCEPT ![current[1]] = k]
<1>0. PICK t \in Topics : t = current[1] /\ current # NoMessage
  BY MessageFacts DEF BusInv, BusTypeOK, LoopFitsClient
<1>1. /\ current[1] = t /\ current # NoMessage
      /\ consumer \in {"none", "open", "closing", "left"}
      /\ position[t] \in Nat /\ committed[t] \in Nat /\ NoPosition[t] = 0
  BY <1>0, NoPositionType DEF BusInv, BusTypeOK, ConsumerTypeOK, LoopFitsClient, Active
<1>2. Passed(t)' = IF position[t] > committed[t] THEN position[t] ELSE committed[t]
  BY <1>1, MessageFacts DEF BusInv, BusTypeOK, Passed
<1>3. Passed(t)' \in {Passed(t) + 1, committed[t]}
  <2>1. CASE consumer = "none"
    <3>1. position[t] = 0
      BY <1>1, <2>1 DEF BusInv, PositionFitsClient
    <3> QED
      BY <1>1, <1>2, <3>1
  <2>2. CASE consumer \in {"open", "closing", "left"}
    <3>1. current[2] = position[t] /\ position[t] = Passed(t) + 1 /\ Passed(t) \in Nat
      BY <1>1, <2>2, PassedFacts DEF BusInv, PositionFitsClient
    <3>2. committed[t] <= position[t]
      BY <1>1, <2>2, <3>1 DEF BusInv, PositionFitsClient
    <3> QED
      BY <1>1, <1>2, <3>1, <3>2
  <2> QED
    BY <1>1, <2>1, <2>2
<1>4. \A u \in Topics \ {t} : Passed(u)' = Passed(u)
  BY <1>1, MessageFacts DEF BusInv, BusTypeOK, Passed
<1>5. Cursor' = [Cursor EXCEPT ![t] = Passed(t)']
  BY <1>1, <1>4 DEF Cursor
<1> QED
  BY <1>1, <1>3, <1>5

(* Initially nothing has been passed.                                      *)
LEMMA DeliveryInit == Init => Delivery!Init
<1> SUFFICES ASSUME Init
             PROVE  Delivery!Init
  OBVIOUS
<1>1. \A t \in Topics : Len(log[t]) = 0
  BY DEF Init, LogInit
<1>2. \A t \in Topics : Passed(t) = 0
  BY NoneIsNoTopic, NoPositionType DEF Init, ConsumerInit, NoMessage, Passed
<1> QED
  BY <1>1, <1>2 DEF Init, ConsumerInit, Delivery!Init

(* What the producer does only makes topics grow.                          *)
LEMMA ProducerGrows ==
  ASSUME BusInv, ProducerNext, UNCHANGED consumerVars
  PROVE  Delivery!Grow
<1>1. \A t \in Topics : Len(log[t]) \in Nat /\ Len(log'[t]) \in Nat /\ Len(log[t]) <= Len(log'[t])
  BY LogGrows, LogFacts DEF BusInv, BusTypeOK, LogTypeOK
<1>2. \A t \in Topics : Passed(t)' = Passed(t)
  BY DEF Passed, consumerVars
<1> QED
  BY <1>1, <1>2 DEF Delivery!Grow, consumerVars

(* What the consumer does passes the topics, or takes it back.             *)
LEMMA ConsumerDelivers ==
  ASSUME BusInv, ConsumerNext
  PROVE  [Delivery!Next]_(Delivery!vars)
<1>1. UNCHANGED log /\ Size' = Size
  BY ConsumerLeavesLog DEF Size
<1>2. \A t \in Topics : /\ position[t] \in Nat /\ committed[t] \in Nat /\ Passed(t) \in Nat
                        /\ Cursor[t] = Passed(t) /\ Size[t] = Len(log[t]) /\ NoPosition[t] = 0
  BY PassedFacts, NoPositionType DEF BusInv, BusTypeOK, ConsumerTypeOK, Cursor, Size
<1>3. ASSUME UNCHANGED <<current, position, committed>>
      PROVE  Cursor' = Cursor
  BY <1>3 DEF Cursor, Passed
<1>4. ASSUME UNCHANGED <<Cursor, committed, lives, handled>>
      PROVE  UNCHANGED Delivery!vars
  BY <1>1, <1>4 DEF Delivery!vars, Cursor, Size
<1>5. CASE StartConsumer
  <2>1. Delivery!NewLife
    BY <1>1, <1>3, <1>5 DEF StartConsumer, Delivery!NewLife, Cursor, Size
  <2> QED
    BY <2>1 DEF Delivery!Next
<1>6. CASE ConsumerStartFails \/ Run \/ RunEnds \/ StopConsumer
  BY <1>3, <1>4, <1>6 DEF ConsumerStartFails, Run, RunEnds, StopConsumer
<1>7. CASE ConsumerStarted
  <2>1. current = NoMessage /\ current' = NoMessage /\ position = NoPosition
        /\ position' = committed /\ UNCHANGED <<committed, lives, handled>>
    BY <1>7 DEF ConsumerStarted, BusInv, LoopFitsClient, PositionFitsClient, Active
  <2>2. \A t \in Topics : Passed(t)' = committed[t] /\ Passed(t) = committed[t]
    BY <1>2, <2>1, MessageFacts DEF BusInv, BusTypeOK, Passed
  <2>3. Cursor' = Cursor
    BY <2>2 DEF Cursor
  <2> QED
    BY <1>4, <2>1, <2>3
<1>8. ASSUME NEW t \in Topics, Fetch(t)
      PROVE  [Delivery!Next]_(Delivery!vars)
  <2>1. /\ current = NoMessage /\ \A u \in Topics : current[1] # u
        /\ \A u \in Topics : committed[u] <= position[u]
        /\ position \in [Topics -> Nat] /\ position' = [position EXCEPT ![t] = @ + 1]
        /\ position[t] < Len(log[t])
        /\ UNCHANGED <<committed, lives, handled>>
    BY <1>8, MessageFacts
       DEF Fetch, BusInv, BusTypeOK, ConsumerTypeOK, LoopFitsClient, PositionFitsClient
  <2>2. /\ \A u \in Topics : Passed(u) = position[u]
        /\ position'[t] = position[t] + 1
        /\ \A u \in Topics \ {t} : position'[u] = position[u]
    BY <2>1, PassedFacts
  <2>3. CASE current' = <<t, position[t] + 1>>
    <3>1. Passed(t)' = position[t]
      BY <1>2, <2>3 DEF Passed
    <3>2. \A u \in Topics \ {t} : Passed(u)' = position[u]
      BY <1>2, <2>1, <2>2, <2>3 DEF Passed
    <3>3. Cursor' = Cursor
      BY <2>2, <3>1, <3>2 DEF Cursor
    <3> QED
      BY <1>4, <2>1, <3>3
  <2>4. CASE UNCHANGED current
    <3>1. \A u \in Topics : Passed(u)' = position'[u]
      BY <1>2, <2>1, <2>2, <2>4 DEF Passed
    <3>2. Cursor' = [Cursor EXCEPT ![t] = Cursor[t] + 1]
      BY <1>2, <2>2, <3>1 DEF Cursor
    <3>3. Cursor[t] < Size[t]
      BY <1>2, <2>1, <2>2
    <3>4. Delivery!Lose(t)
      BY <1>1, <2>1, <3>2, <3>3 DEF Delivery!Lose, Delivery!Pass, Cursor, Size
    <3> QED
      BY <3>4 DEF Delivery!Next
  <2> QED
    BY <1>8, <2>3, <2>4 DEF Fetch
<1>9. CASE Handle \/ HandleRaises
  <2> DEFINE t == current[1]
  <2>1. /\ loop = "handling" /\ current' = NoMessage
        /\ UNCHANGED <<position, committed, lives>>
    BY <1>9 DEF Handle, HandleRaises
  <2>2. t \in Topics /\ \E k \in {Cursor[t] + 1, committed[t]} : Cursor' = [Cursor EXCEPT ![t] = k]
    BY <1>2, <2>1, LetGoPasses
  <2>3. Cursor[t] < Size[t] /\ current[2] = Cursor[t] + 1
    BY <1>2, <2>2, PassedFacts
  <2>4. Delivery!Pass(t)
    BY <1>1, <2>1, <2>2, <2>3 DEF Delivery!Pass, Cursor, Size
  <2>5. CASE Handle
    <3>1. Delivery!Deliver(t)
      BY <2>3, <2>4, <2>5 DEF Handle, Delivery!Deliver, Cursor
    <3> QED
      BY <2>2, <3>1 DEF Delivery!Next
  <2>6. CASE HandleRaises
    <3>1. Delivery!Lose(t)
      BY <2>4, <2>6 DEF HandleRaises, Delivery!Lose
    <3> QED
      BY <2>2, <3>1 DEF Delivery!Next
  <2> QED
    BY <1>9, <2>5, <2>6
<1>10. CASE AutoCommit \/ LeaveGroup
  <2>1. /\ consumer \in {"open", "closing"} /\ UNCHANGED <<current, position, lives, handled>>
        /\ committed' \in {committed, position}
        /\ \A t \in Topics : committed[t] <= position[t]
    BY <1>10 DEF AutoCommit, LeaveGroup, BusInv, PositionFitsClient
  <2>2. \A t \in Topics : Passed(t)' = Passed(t)
    BY <1>2, <2>1 DEF Passed
  <2>3. \A t \in Topics : position[t] <= Passed(t) + 1
    <3>1. \A t \in Topics : current[1] = t => position[t] = Passed(t) + 1
      BY <2>1, PassedFacts DEF BusInv, PositionFitsClient
    <3>2. \A t \in Topics : current[1] # t => position[t] = Passed(t)
      BY <2>1, PassedFacts
    <3> QED
      BY <1>2, <3>1, <3>2
  <2>4. \A t \in Topics : committed[t] <= committed'[t] /\ committed'[t] <= Cursor[t] + 1
    BY <1>2, <2>1, <2>3
  <2>5. Cursor' = Cursor
    BY <2>2 DEF Cursor
  <2>6. Delivery!Checkpoint
    BY <1>1, <2>1, <2>4, <2>5 DEF Delivery!Checkpoint, Cursor, Size
  <2> QED
    BY <2>6 DEF Delivery!Next
<1>11. CASE ConsumerStopped \/ Crash
  <2>1. /\ current' \in {current, NoMessage} /\ position' = NoPosition
        /\ UNCHANGED <<committed, lives, handled>>
    BY <1>11 DEF ConsumerStopped, Crash
  <2>2. \A t \in Topics : Passed(t)' \in {Passed(t), committed[t]}
    BY <1>2, <2>1, MessageFacts DEF BusInv, BusTypeOK, Passed
  <2>3. \A t \in Topics : Cursor'[t] \in {Cursor[t], committed[t]}
    BY <2>2 DEF Cursor
  <2>4. Delivery!GoBack
    BY <1>1, <2>1, <2>3 DEF Delivery!GoBack, Cursor, Size
  <2> QED
    BY <2>4 DEF Delivery!Next
<1> QED
  BY <1>5, <1>6, <1>7, <1>8, <1>9, <1>10, <1>11 DEF ConsumerNext, Running

(* The bus implements EventDelivery: across stops, restarts, crashes,      *)
(* exceptions and commits behind its back, the consumer passes each topic  *)
(* one message at a time, and what makes it go back takes it to the        *)
(* committed offset (consumer.py:28-64).                                   *)
THEOREM BusImplementsDelivery == Spec => BusDeliversFromCheckpoints
<1>1. ASSUME BusInv, [Next]_vars
      PROVE  [Delivery!Next]_(Delivery!vars)
  <2>1. CASE UNCHANGED vars
    <3>1. \A t : Passed(t)' = Passed(t)
      BY <2>1 DEF vars, consumerVars, Passed
    <3> QED
      BY <2>1, <3>1 DEF vars, consumerVars, Delivery!vars
  <2>2. CASE ProducerNext /\ UNCHANGED consumerVars
    BY <1>1, <2>2, ProducerGrows DEF Delivery!Next
  <2> QED
    BY <1>1, <2>1, <2>2, ConsumerDelivers DEF Next
<1> QED
  BY <1>1, DeliveryInit, BusInvAlways, PTL DEF Spec, BusDeliversFromCheckpoints, Delivery!Spec

=============================================================================
