-------------------------- MODULE WorkQueueProofs --------------------------
(***************************************************************************)
(* Proofs about the work queue, for any number of jobs, consumers, losses  *)
(* and any prefetch.                                                       *)
(*                                                                         *)
(* Nothing is dropped because each side gets past its start-up only after  *)
(* it has declared the whole topology (TopologyOK).  The bound on the      *)
(* emails sent per job needs a count of the emails that may still come     *)
(* (Budget): the job itself while it is queued, one for each consumer that *)
(* holds a delivery of it and has not sent it, also on a channel that has  *)
(* ended, and one for each shutdown that has yet to end a channel.         *)
(***************************************************************************)
EXTENDS WorkQueue, FiniteSetTheorems, TLAPS

\* What a side has declared exists; who is past its start-up has declared all.
TopologyOK ==
    /\ \A s \in Sides : \A i \in 1 .. declared[s] : Declaration[i] \in entities
    /\ publisher = "up" \/ wire # {} => Declared("api")
    /\ \A c \in Consumers : phase[c] \notin {"declare", "down"} => Declared(c)

\* A job the broker has read is in one place; only requested jobs are in one.
PlacesOK ==
    /\ dropped = {}
    /\ \A j \in Jobs :
         /\ j \in wire => j \notin ready \cup acked \cup dead
         /\ j \in ready => j \notin acked \cup dead
         /\ j \in acked => j \notin dead
         /\ j \in wire \cup ready \cup acked \cup dead => request[j] = "published"
         /\ publisher # "off" /\ request[j] = "published" =>
              \/ j \in wire \cup ready \cup acked \cup dead
              \/ \E c \in Consumers : j \in unacked[c]
    /\ \A c \in Consumers : \A j \in unacked[c] :
         /\ request[j] = "published"
         /\ j \notin wire \cup ready \cup acked \cup dead
         /\ \A d \in Consumers \ {c} : j \notin unacked[d]

\* What a consumer holds, and what it knows of the delivery in its hand.
ConsumersOK ==
    \A c \in Consumers :
        /\ open[c] => buffer[c] \subseteq unacked[c]
        /\ open[c] /\ current[c] # NoJob => current[c] \in unacked[c]
        /\ ~open[c] => unacked[c] = {}
        /\ current[c] \notin buffer[c]
        /\ phase[c] = "declare" => open[c] /\ unacked[c] = {}
        /\ phase[c] \in {"declare", "down"} => ~cancelled[c]
        /\ phase[c] = "ack" => sends[current[c]] > 0
        /\ phase[c] = "nack" => current[c] \in failed

\* The ways in which one more email of job j may still come: consumers that
\* hold it and have not sent it, shutdowns that have yet to end a channel, and
\* the job itself before it is delivered.
Holders(j) ==
    {c \in Consumers : j \in buffer[c] \/ (phase[c] = "handle" /\ current[c] = j)}
Ending == {c \in Consumers : cancelled[c] /\ open[c]}
Queued(j) == request[j] = "none" \/ j \in wire \/ j \in ready
Waiting(j) == IF Queued(j) THEN 1 ELSE 0

\* Every email sent or still to come is paid for by the first one or a loss.
BudgetOf(j) ==
    sends[j] + Waiting(j) + Cardinality(Holders(j)) + Cardinality(Ending) <= 1 + losses

Budget == \A j \in Jobs : BudgetOf(j)

QueueInv == TypeOK /\ TopologyOK /\ PlacesOK /\ ConsumersOK /\ SettledForAReason /\ Budget

----------------------------------------------------------------------------
(***************************************************************************)
(* Start-up and types.                                                     *)
(***************************************************************************)

\* The six declarations.
LEMMA DeclarationFacts ==
    /\ Len(Declaration) = 6 /\ DOMAIN Declaration = 1 .. 6
    /\ \A x \in {"exchange", "dlx", "dead queue", "dead binding", "queue", "binding"} :
          \E i \in 1 .. 6 : Declaration[i] = x
<1>1. Len(Declaration) = 6 /\ DOMAIN Declaration = 1 .. 6
  BY DEF Declaration
<1>2. /\ Declaration[1] = "exchange" /\ Declaration[2] = "dlx"
      /\ Declaration[3] = "dead queue" /\ Declaration[4] = "dead binding"
      /\ Declaration[5] = "queue" /\ Declaration[6] = "binding"
  BY DEF Declaration
<1>3. \A x \in {"exchange", "dlx", "dead queue", "dead binding", "queue", "binding"} :
         \E i \in 1 .. 6 : Declaration[i] = x
  <2>1. 1 \in 1 .. 6 /\ 2 \in 1 .. 6 /\ 3 \in 1 .. 6 /\ 4 \in 1 .. 6 /\ 5 \in 1 .. 6
        /\ 6 \in 1 .. 6
    OBVIOUS
  <2> QED  BY <1>2, <2>1, Zenon
<1> QED  BY <1>1, <1>3

\* A side that has declared all has the whole topology in the broker.
LEMMA AllDeclared ==
    ASSUME TopologyOK, NEW s \in Sides, Declared(s)
    PROVE  /\ {"exchange", "queue", "binding"} \subseteq entities
           /\ {"dlx", "dead queue", "dead binding"} \subseteq entities
<1>1. \A i \in 1 .. 6 : Declaration[i] \in entities
  BY DeclarationFacts DEF TopologyOK, Declared
<1> QED  BY <1>1, DeclarationFacts

\* Types of the broker's and the producer's variables.
BrokerTypeOK ==
    /\ publisher \in {"declare", "up", "off"}
    /\ request \in [Jobs -> {"none", "published", "skipped"}]
    /\ wire \subseteq Jobs /\ ready \subseteq Jobs
    /\ unacked \in [Consumers -> SUBSET Jobs]
    /\ acked \subseteq Jobs /\ dead \subseteq Jobs /\ dropped \subseteq Jobs
    /\ failed \subseteq Jobs
    /\ sends \in [Jobs -> Nat]
    /\ losses \in 0 .. MaxLosses

DeclareTypeOK ==
    /\ entities \subseteq {Declaration[i] : i \in DOMAIN Declaration}
    /\ declared \in [Sides -> 0 .. Len(Declaration)]

Phases == {"declare", "select", "handle", "ack", "nack", "returned", "down"}

ClientTypeOK ==
    /\ phase \in [Consumers -> Phases]
    /\ buffer \in [Consumers -> SUBSET Jobs]
    /\ current \in [Consumers -> Jobs \cup {NoJob}]
    /\ \A c \in Consumers : current[c] # NoJob <=> phase[c] \in {"handle", "ack", "nack"}

FlagsOK == open \in [Consumers -> BOOLEAN] /\ cancelled \in [Consumers -> BOOLEAN]

StoppedOK ==
    \A c \in Consumers : phase[c] \in {"returned", "down"} => ~open[c] /\ buffer[c] = {}

LEMMA TypeParts ==
    TypeOK <=> BrokerTypeOK /\ DeclareTypeOK /\ ClientTypeOK /\ FlagsOK /\ StoppedOK
BY DEF TypeOK, BrokerTypeOK, DeclareTypeOK, ClientTypeOK, FlagsOK, StoppedOK, Phases

\* The producer's steps and those of the broker that concern no consumer.
ProducerStep ==
    \/ DeclareAPI \/ NewPublisher \/ PublisherLost
    \/ \E j \in Jobs : Publish(j) \/ SkipEmail(j) \/ Route(j)

ConsumerStep(c) ==
    \/ DeclareConsumer(c) \/ NewConsumer(c)
    \/ \E j \in Jobs : Deliver(c, j) \/ Take(c, j)
    \/ HandleSends(c) \/ HandleFails(c) \/ Ack(c) \/ Nack(c)
    \/ CtxDone(c) \/ DeliveriesClosed(c)
    \/ ConnectionLost(c) \/ Shutdown(c) \/ Exit(c) \/ Crash(c) \/ Restart(c)

LEMMA NextCases ==
    ASSUME [Next]_vars
    PROVE  ProducerStep \/ (\E c \in Consumers : ConsumerStep(c)) \/ UNCHANGED vars
BY DEF Next, API, Start, Run, Quiet, ProducerStep, ConsumerStep

\* A channel's end.
LEMMA RequeueTyped ==
    ASSUME BrokerTypeOK, NEW c \in Consumers, Requeue(c)
    PROVE  ready' \subseteq Jobs /\ unacked' \in [Consumers -> SUBSET Jobs]
BY DEF BrokerTypeOK, Requeue

LEMMA BrokerTypeStep ==
    ASSUME TypeOK, [Next]_vars
    PROVE  BrokerTypeOK'
<1> USE DEF producer, ended
<1>0. BrokerTypeOK /\ ClientTypeOK /\ MaxLosses \in Nat
  BY TypeParts, QueueAssumption
<1>1. CASE UNCHANGED vars
  BY <1>0, <1>1 DEF vars, BrokerTypeOK
<1>2. CASE ProducerStep
  BY <1>0, <1>2
     DEF BrokerTypeOK, ProducerStep, DeclareAPI, NewPublisher, PublisherLost, Publish,
         SkipEmail, Route
<1>3. ASSUME NEW c \in Consumers, ConsumerStep(c) PROVE BrokerTypeOK'
  <2>1. CASE DeclareConsumer(c) \/ NewConsumer(c) \/ DeliveriesClosed(c) \/ Restart(c)
    BY <1>0, <2>1 DEF BrokerTypeOK, DeclareConsumer, NewConsumer, DeliveriesClosed, Restart
  <2>2. CASE \E j \in Jobs : Deliver(c, j) \/ Take(c, j)
    BY <1>0, <2>2 DEF BrokerTypeOK, Deliver, Take
  <2>3. CASE HandleSends(c) \/ HandleFails(c)
    <3>1. current[c] \in Jobs
      BY <1>0, <2>3 DEF ClientTypeOK, HandleSends, HandleFails
    <3> QED  BY <1>0, <2>3, <3>1 DEF BrokerTypeOK, HandleSends, HandleFails
  <2>4. CASE Ack(c) \/ Nack(c)
    BY <1>0, <2>4 DEF BrokerTypeOK, Ack, Nack
  <2>5. CASE CtxDone(c) \/ Exit(c)
    BY <1>0, <2>5, RequeueTyped DEF BrokerTypeOK, CtxDone, Exit, Gone
  <2>6. CASE ConnectionLost(c) \/ Crash(c)
    BY <1>0, <2>6, RequeueTyped DEF BrokerTypeOK, ConnectionLost, Crash, Gone
  <2>7. CASE Shutdown(c)
    BY <1>0, <2>7 DEF BrokerTypeOK, Shutdown
  <2> QED  BY <1>3, <2>1, <2>2, <2>3, <2>4, <2>5, <2>6, <2>7 DEF ConsumerStep
<1> QED  BY <1>1, <1>2, <1>3, NextCases

LEMMA DeclareTypeStep ==
    ASSUME TypeOK, [Next]_vars
    PROVE  DeclareTypeOK'
<1>0. DeclareTypeOK
  BY TypeParts
<1>1. ASSUME NEW s \in Sides, Declare(s) PROVE DeclareTypeOK'
  <2>1. declared[s] \in 0 .. 6 /\ declared[s] < 6
    BY <1>0, <1>1, DeclarationFacts DEF DeclareTypeOK, Declare
  <2>2. declared[s] + 1 \in 0 .. 6 /\ declared[s] + 1 \in 1 .. 6
    BY <2>1
  <2>3. declared' \in [Sides -> 0 .. Len(Declaration)]
    BY <1>0, <1>1, <2>2, DeclarationFacts DEF DeclareTypeOK, Declare
  <2>4. entities' \subseteq {Declaration[i] : i \in DOMAIN Declaration}
    BY <1>0, <1>1, <2>2, DeclarationFacts DEF DeclareTypeOK, Declare
  <2> QED  BY <2>3, <2>4 DEF DeclareTypeOK
<1>2. ASSUME UNCHANGED topology PROVE DeclareTypeOK'
  BY <1>0, <1>2 DEF topology, DeclareTypeOK
<1>3. CASE ProducerStep
  BY <1>1, <1>2, <1>3
     DEF Sides, ProducerStep, DeclareAPI, NewPublisher, PublisherLost, Publish,
         SkipEmail, Route
<1>4. ASSUME NEW c \in Consumers, ConsumerStep(c) PROVE DeclareTypeOK'
  <2>1. CASE Restart(c)
    <3>1. c \in Sides
      BY DEF Sides
    <3>2. Len(Declaration) = 6
      BY DeclarationFacts
    <3> QED  BY <1>0, <2>1, <3>1, <3>2 DEF DeclareTypeOK, Restart
  <2>2. CASE DeclareConsumer(c)
    BY <1>1, <2>2 DEF Sides, DeclareConsumer
  <2> QED  BY <1>2, <1>4, <2>1, <2>2
           DEF ConsumerStep, NewConsumer, Deliver, Take, HandleSends, HandleFails, Ack, Nack,
               CtxDone, DeliveriesClosed, ConnectionLost, Shutdown, Exit, Crash
<1> QED  BY <1>2, <1>3, <1>4, NextCases DEF vars

LEMMA ClientTypeStep ==
    ASSUME TypeOK, [Next]_vars
    PROVE  ClientTypeOK'
<1> USE DEF client
<1>0. ClientTypeOK /\ NoJob \notin Jobs
  BY TypeParts, QueueAssumption
<1>1. CASE UNCHANGED vars
  BY <1>0, <1>1 DEF vars, ClientTypeOK
<1>2. CASE ProducerStep
  BY <1>0, <1>2
     DEF ClientTypeOK, ProducerStep, DeclareAPI, NewPublisher, PublisherLost, Publish,
         SkipEmail, Route
<1>3. ASSUME NEW c \in Consumers, ConsumerStep(c) PROVE ClientTypeOK'
  <2> USE DEF ClientTypeOK, Phases
  <2>1. CASE DeclareConsumer(c) \/ NewConsumer(c) \/ DeliveriesClosed(c) \/ Restart(c)
    BY <1>0, <2>1 DEF DeclareConsumer, NewConsumer, DeliveriesClosed, Restart
  <2>2. CASE \E j \in Jobs : Deliver(c, j)
    BY <1>0, <2>2 DEF Deliver
  <2>3. CASE \E j \in Jobs : Take(c, j)
    BY <1>0, <2>3 DEF Take
  <2>4. CASE HandleSends(c) \/ HandleFails(c)
    BY <1>0, <2>4 DEF HandleSends, HandleFails
  <2>5. CASE Ack(c) \/ Nack(c)
    BY <1>0, <2>5 DEF Ack, Nack, Settled
  <2>6. CASE CtxDone(c) \/ ConnectionLost(c) \/ Shutdown(c)
    BY <1>0, <2>6 DEF CtxDone, ConnectionLost, Shutdown
  <2>7. CASE Exit(c) \/ Crash(c)
    BY <1>0, <2>7 DEF Exit, Crash, Gone
  <2> QED  BY <1>3, <2>1, <2>2, <2>3, <2>4, <2>5, <2>6, <2>7 DEF ConsumerStep
<1> QED  BY <1>1, <1>2, <1>3, NextCases

LEMMA FlagsStep ==
    ASSUME TypeOK, [Next]_vars
    PROVE  FlagsOK'
<1> USE DEF client
<1>0. FlagsOK
  BY TypeParts
<1>1. ASSUME UNCHANGED <<open, cancelled>> PROVE FlagsOK'
  BY <1>0, <1>1 DEF FlagsOK
<1>2. ASSUME NEW c \in Consumers, Requeue(c),
             UNCHANGED cancelled \/ cancelled' = [cancelled EXCEPT ![c] = FALSE]
      PROVE  FlagsOK'
  BY <1>0, <1>2, Zenon DEF FlagsOK, Requeue
<1>3. CASE ProducerStep
  BY <1>1, <1>3
     DEF ProducerStep, DeclareAPI, NewPublisher, PublisherLost, Publish, SkipEmail, Route
<1>4. ASSUME NEW c \in Consumers, ConsumerStep(c) PROVE FlagsOK'
  <2>1. CASE CtxDone(c) \/ ConnectionLost(c) \/ Exit(c) \/ Crash(c)
    BY <1>2, <2>1 DEF CtxDone, ConnectionLost, Exit, Crash, Gone
  <2>2. CASE Shutdown(c)
    BY <1>0, <2>2 DEF FlagsOK, Shutdown
  <2>3. CASE Restart(c)
    BY <1>0, <2>3 DEF FlagsOK, Restart
  <2> QED  BY <1>1, <1>4, <2>1, <2>2, <2>3
           DEF ConsumerStep, DeclareConsumer, NewConsumer, Deliver, Take, HandleSends,
               HandleFails, Ack, Nack, DeliveriesClosed
<1> QED  BY <1>1, <1>3, <1>4, NextCases DEF vars

\* A consumer that has returned, or is down, has no channel and no deliveries.
LEMMA StoppedStep ==
    ASSUME TypeOK, ConsumersOK, [Next]_vars
    PROVE  StoppedOK'
<1> USE DEF client
<1>0. ClientTypeOK /\ FlagsOK /\ StoppedOK
  BY TypeParts
<1>1. ASSUME UNCHANGED <<open, phase, buffer>> PROVE StoppedOK'
  BY <1>0, <1>1 DEF StoppedOK
<1>2. CASE ProducerStep
  BY <1>1, <1>2
     DEF ProducerStep, DeclareAPI, NewPublisher, PublisherLost, Publish, SkipEmail, Route
<1>3. ASSUME NEW c \in Consumers, ConsumerStep(c) PROVE StoppedOK'
  <2> USE DEF StoppedOK, ClientTypeOK
  <2>1. CASE DeclareConsumer(c) \/ Shutdown(c)
    BY <1>1, <2>1 DEF DeclareConsumer, Shutdown
  <2>2. CASE NewConsumer(c) \/ HandleSends(c) \/ HandleFails(c)
    BY <1>0, <2>2 DEF NewConsumer, HandleSends, HandleFails
  <2>3. CASE \E j \in Jobs : Deliver(c, j)
    BY <1>0, <2>3 DEF Deliver, Subscribed
  <2>4. CASE \E j \in Jobs : Take(c, j)
    BY <1>0, <2>4 DEF Take
  <2>5. CASE Ack(c) \/ Nack(c)
    BY <1>0, <2>5 DEF Ack, Nack, Settled
  <2>6. CASE DeliveriesClosed(c)
    BY <1>0, <2>6 DEF DeliveriesClosed
  <2>7. CASE CtxDone(c)
    BY <1>0, <2>7 DEF CtxDone, Requeue, FlagsOK
  <2>8. CASE ConnectionLost(c)
    <3>1. phase[c] = "declare" => buffer[c] \subseteq {}
      BY <2>8 DEF ConsumersOK
    <3> QED  BY <1>0, <2>8, <3>1 DEF ConnectionLost, Requeue, FlagsOK
  <2>9. CASE Exit(c) \/ Crash(c)
    BY <1>0, <2>9 DEF Exit, Crash, Gone, Requeue, FlagsOK
  <2>10. CASE Restart(c)
    BY <1>0, <2>10 DEF Restart, FlagsOK
  <2> QED  BY <1>3, <2>1, <2>2, <2>3, <2>4, <2>5, <2>6, <2>7, <2>8, <2>9, <2>10
           DEF ConsumerStep
<1> QED  BY <1>1, <1>2, <1>3, NextCases DEF vars

\* The topology only grows, and nobody gets past its start-up without it.
LEMMA TopologyStep ==
    ASSUME TypeOK, TopologyOK, [Next]_vars
    PROVE  TopologyOK'
<1> USE DEF topology, producer, client
<1>0. BrokerTypeOK /\ DeclareTypeOK /\ ClientTypeOK /\ Len(Declaration) = 6
  BY TypeParts, DeclarationFacts
<1>1. ASSUME UNCHANGED <<entities, declared, publisher, wire, phase>> PROVE TopologyOK'
  BY <1>1 DEF TopologyOK, Declared
<1>2. ASSUME NEW s \in Sides, Declare(s)
      PROVE  \A t \in Sides : \A i \in 1 .. declared'[t] : Declaration[i] \in entities'
  <2>1. declared[s] \in 0 .. 6 /\ declared'[s] = declared[s] + 1
    BY <1>0, <1>2 DEF DeclareTypeOK, Declare
  <2>2. \A i \in 1 .. declared'[s] : i \in 1 .. declared[s] \/ i = declared[s] + 1
    BY <2>1
  <2>3. \A t \in Sides \ {s} : declared'[t] = declared[t]
    BY <1>0, <1>2 DEF DeclareTypeOK, Declare
  <2>4. entities' = entities \cup {Declaration[declared[s] + 1]}
    BY <1>2 DEF Declare
  <2> QED  BY <2>2, <2>3, <2>4 DEF TopologyOK
<1>3. CASE ProducerStep
  <2>1. CASE DeclareAPI
    <3>1. "api" \in Sides /\ ~Declared("api")
      BY <1>0, <2>1 DEF Sides, DeclareAPI, Declare, Declared, DeclareTypeOK
    <3>2. \A t \in Sides : \A i \in 1 .. declared'[t] : Declaration[i] \in entities'
      BY <1>2, <2>1, <3>1 DEF DeclareAPI
    <3>3. \A c \in Consumers : declared'[c] = declared[c]
      BY <1>0, <2>1, QueueAssumption DEF Sides, DeclareAPI, Declare, DeclareTypeOK
    <3> QED  BY <2>1, <3>1, <3>2, <3>3 DEF TopologyOK, DeclareAPI, Declared
  <2>2. CASE NewPublisher
    BY <2>2 DEF TopologyOK, NewPublisher, Declared
  <2>3. CASE PublisherLost
    BY <2>3 DEF TopologyOK, PublisherLost, Declared
  <2>4. CASE \E j \in Jobs : Publish(j) \/ SkipEmail(j) \/ Route(j)
    BY <2>4 DEF TopologyOK, Publish, SkipEmail, Route, Declared
  <2> QED  BY <1>3, <2>1, <2>2, <2>3, <2>4 DEF ProducerStep
<1>4. ASSUME NEW c \in Consumers, ConsumerStep(c) PROVE TopologyOK'
  <2>a. c \in Sides /\ "api" \in Sides /\ c # "api"
    BY QueueAssumption DEF Sides
  <2>1. CASE DeclareConsumer(c)
    <3>1. \A t \in Sides : \A i \in 1 .. declared'[t] : Declaration[i] \in entities'
      BY <1>2, <2>1, <2>a DEF DeclareConsumer
    <3>2. \A t \in Sides \ {c} : declared'[t] = declared[t]
      BY <1>0, <2>1 DEF DeclareConsumer, Declare, DeclareTypeOK
    <3> QED  BY <2>1, <2>a, <3>1, <3>2 DEF TopologyOK, DeclareConsumer, Declared, Sides
  <2>2. CASE Restart(c)
    <3>1. declared'[c] = 0 /\ \A t \in Sides \ {c} : declared'[t] = declared[t]
      BY <1>0, <2>2, <2>a DEF Restart, DeclareTypeOK
    <3>2. phase'[c] = "declare" /\ \A d \in Consumers \ {c} : phase'[d] = phase[d]
      BY <1>0, <2>2 DEF Restart, ClientTypeOK
    <3>3. \A i \in 1 .. declared'[c] : FALSE
      BY <3>1
    <3> QED  BY <2>2, <2>a, <3>1, <3>2, <3>3 DEF TopologyOK, Restart, Declared, Sides
  <2>3. ASSUME UNCHANGED <<entities, declared, publisher, wire>>,
               \A d \in Consumers \ {c} : phase'[d] = phase[d],
               phase'[c] \in {"declare", "down"} \/ Declared(c)
        PROVE  TopologyOK'
    BY <2>3 DEF TopologyOK, Declared
  <2>4. CASE NewConsumer(c)
    BY <1>0, <2>3, <2>4 DEF NewConsumer, ClientTypeOK
  <2>5. CASE \E j \in Jobs : Deliver(c, j) \/ Take(c, j)
    BY <1>0, <1>1, <2>3, <2>5 DEF Deliver, Take, ClientTypeOK, TopologyOK
  <2>6. CASE HandleSends(c) \/ HandleFails(c)
    BY <1>0, <2>3, <2>6 DEF HandleSends, HandleFails, ClientTypeOK, TopologyOK
  <2>7. CASE Ack(c) \/ Nack(c)
    BY <1>0, <2>3, <2>7 DEF Ack, Nack, Settled, ClientTypeOK, TopologyOK
  <2>8. CASE CtxDone(c) \/ DeliveriesClosed(c) \/ ConnectionLost(c)
    BY <1>0, <2>3, <2>8 DEF CtxDone, DeliveriesClosed, ConnectionLost, ClientTypeOK, TopologyOK
  <2>9. CASE Shutdown(c)
    BY <1>1, <2>9 DEF Shutdown
  <2>10. CASE Exit(c) \/ Crash(c)
    BY <1>0, <2>3, <2>10 DEF Exit, Crash, Gone, ClientTypeOK
  <2> QED  BY <1>4, <2>1, <2>2, <2>4, <2>5, <2>6, <2>7, <2>8, <2>9, <2>10 DEF ConsumerStep
<1> QED  BY <1>1, <1>3, <1>4, NextCases DEF vars

----------------------------------------------------------------------------
(***************************************************************************)
(* Where the jobs are.                                                     *)
(***************************************************************************)

\* A channel that ends gives its jobs back, each of them to the queue only.
LEMMA RequeuePlaces ==
    ASSUME TypeOK, PlacesOK, NEW c \in Consumers, Requeue(c),
           UNCHANGED <<publisher, request, wire, acked, dead, dropped>>
    PROVE  PlacesOK'
<1>1. unacked \in [Consumers -> SUBSET Jobs]
  BY DEF TypeOK
<1>2. /\ ready' = ready \cup unacked[c] /\ unacked'[c] = {}
      /\ \A d \in Consumers \ {c} : unacked'[d] = unacked[d]
  BY <1>1 DEF Requeue
<1> QED  BY <1>1, <1>2 DEF PlacesOK

\* A settled job leaves the consumer's channel for one of two places.
LEMMA SettlePlaces ==
    ASSUME TypeOK, PlacesOK, NEW c \in Consumers,
           unacked' = [unacked EXCEPT ![c] = @ \ {current[c]}],
           \/ acked' = acked \cup (unacked[c] \cap {current[c]}) /\ UNCHANGED dead
           \/ dead' = dead \cup (unacked[c] \cap {current[c]}) /\ UNCHANGED acked,
           UNCHANGED <<publisher, request, wire, ready, dropped>>
    PROVE  PlacesOK'
<1>1. unacked \in [Consumers -> SUBSET Jobs]
  BY DEF TypeOK
<1>2. /\ unacked'[c] = unacked[c] \ {current[c]}
      /\ \A d \in Consumers \ {c} : unacked'[d] = unacked[d]
  BY <1>1
<1> QED  BY <1>1, <1>2 DEF PlacesOK

\* No step drops a job or puts it into a second place.
LEMMA PlacesStep ==
    ASSUME TypeOK, TopologyOK, PlacesOK, [Next]_vars
    PROVE  PlacesOK'
<1> USE DEF producer, ended
<1>1. ASSUME UNCHANGED <<publisher, request, wire, ready, unacked, acked, dead, dropped>>
      PROVE  PlacesOK'
  BY <1>1 DEF PlacesOK
<1>2. CASE ProducerStep
  <2>1. CASE DeclareAPI
    BY <1>1, <2>1 DEF DeclareAPI
  <2>2. CASE NewPublisher \/ PublisherLost
    BY <2>2 DEF PlacesOK, NewPublisher, PublisherLost
  <2>3. ASSUME NEW j \in Jobs, Publish(j) PROVE PlacesOK'
    BY <2>3 DEF PlacesOK, Publish, TypeOK
  <2>4. ASSUME NEW j \in Jobs, SkipEmail(j) PROVE PlacesOK'
    BY <2>4 DEF PlacesOK, SkipEmail, TypeOK
  <2>5. ASSUME NEW j \in Jobs, Route(j) PROVE PlacesOK'
    <3>1. {"exchange", "queue", "binding"} \subseteq entities
      BY <2>5, AllDeclared DEF Route, TopologyOK, Sides
    <3>2. ready' = ready \cup {j} /\ UNCHANGED dropped
      BY <2>5, <3>1 DEF Route
    <3> QED  BY <2>5, <3>2 DEF PlacesOK, Route
  <2> QED  BY <1>2, <2>1, <2>2, <2>3, <2>4, <2>5 DEF ProducerStep
<1>3. ASSUME NEW c \in Consumers, ConsumerStep(c) PROVE PlacesOK'
  <2>1. ASSUME NEW j \in Jobs, Deliver(c, j) PROVE PlacesOK'
    <3>1. /\ unacked'[c] = unacked[c] \cup {j} /\ ready' = ready \ {j} /\ j \in ready
          /\ \A d \in Consumers \ {c} : unacked'[d] = unacked[d]
      BY <2>1 DEF TypeOK, Deliver
    <3> QED  BY <2>1, <3>1 DEF PlacesOK, Deliver
  <2>2. CASE Ack(c)
    BY <2>2, SettlePlaces DEF Ack
  <2>3. CASE Nack(c)
    <3>1. {"dlx", "dead queue", "dead binding"} \subseteq entities
      BY <2>3, AllDeclared DEF Nack, TopologyOK, Sides
    <3> QED  BY <2>3, <3>1, SettlePlaces DEF Nack
  <2>4. CASE CtxDone(c) \/ ConnectionLost(c) \/ Exit(c) \/ Crash(c)
    BY <2>4, RequeuePlaces DEF CtxDone, ConnectionLost, Exit, Crash, Gone
  <2> QED  BY <1>1, <1>3, <2>1, <2>2, <2>3, <2>4
           DEF ConsumerStep, DeclareConsumer, NewConsumer, Take, HandleSends, HandleFails,
               DeliveriesClosed, Shutdown, Restart
<1> QED  BY <1>1, <1>2, <1>3, NextCases DEF vars

\* What ConsumersOK says of one consumer.
HandOK(c) ==
    /\ open[c] => buffer[c] \subseteq unacked[c]
    /\ open[c] /\ current[c] # NoJob => current[c] \in unacked[c]
    /\ ~open[c] => unacked[c] = {}
    /\ current[c] \notin buffer[c]
    /\ phase[c] = "declare" => open[c] /\ unacked[c] = {}
    /\ phase[c] \in {"declare", "down"} => ~cancelled[c]
    /\ phase[c] = "ack" => sends[current[c]] > 0
    /\ phase[c] = "nack" => current[c] \in failed

\* A step of one consumer leaves the others alone.
LEMMA OthersKeep ==
    ASSUME TypeOK, NEW c \in Consumers, ConsumerStep(c), NEW d \in Consumers, d # c
    PROVE  /\ open'[d] = open[d] /\ phase'[d] = phase[d] /\ buffer'[d] = buffer[d]
           /\ current'[d] = current[d] /\ cancelled'[d] = cancelled[d]
           /\ unacked'[d] = unacked[d]
<1> USE DEF client, TypeOK
<1>1. CASE DeclareConsumer(c) \/ NewConsumer(c) \/ DeliveriesClosed(c) \/ Restart(c)
  BY <1>1 DEF DeclareConsumer, NewConsumer, DeliveriesClosed, Restart
<1>2. CASE \E j \in Jobs : Deliver(c, j) \/ Take(c, j)
  BY <1>2 DEF Deliver, Take
<1>3. CASE HandleSends(c) \/ HandleFails(c)
  BY <1>3 DEF HandleSends, HandleFails
<1>4. CASE Ack(c) \/ Nack(c)
  BY <1>4 DEF Ack, Nack, Settled
<1>5. CASE CtxDone(c) \/ ConnectionLost(c) \/ Shutdown(c)
  BY <1>5 DEF CtxDone, ConnectionLost, Shutdown, Requeue
<1>6. CASE Exit(c) \/ Crash(c)
  BY <1>6 DEF Exit, Crash, Gone, Requeue
<1> QED  BY <1>1, <1>2, <1>3, <1>4, <1>5, <1>6 DEF ConsumerStep

\* Emails stay sent and failures recorded.
LEMMA RecordsStay ==
    ASSUME TypeOK, [Next]_vars
    PROVE  failed \subseteq failed' /\ \A j \in Jobs : sends[j] > 0 => sends'[j] > 0
<1>0. sends \in [Jobs -> Nat]
  BY DEF TypeOK
<1>1. CASE UNCHANGED <<failed, sends>>
  BY <1>1
<1>2. ASSUME NEW c \in Consumers, HandleSends(c) \/ HandleFails(c)
      PROVE  failed \subseteq failed' /\ \A j \in Jobs : sends[j] > 0 => sends'[j] > 0
  BY <1>0, <1>2 DEF HandleSends, HandleFails
<1>3. CASE ProducerStep
  BY <1>1, <1>3
     DEF ProducerStep, DeclareAPI, NewPublisher, PublisherLost, Publish, SkipEmail, Route
<1>4. ASSUME NEW c \in Consumers, ConsumerStep(c)
      PROVE  failed \subseteq failed' /\ \A j \in Jobs : sends[j] > 0 => sends'[j] > 0
  BY <1>1, <1>2, <1>4
     DEF ConsumerStep, DeclareConsumer, NewConsumer, Deliver, Take, Ack, Nack, CtxDone,
         DeliveriesClosed, ConnectionLost, Shutdown, Exit, Crash, Restart
<1> QED  BY <1>1, <1>3, <1>4, NextCases DEF vars

\* A consumer on an open channel holds only what the broker counts as unacked.
LEMMA ConsumersStep ==
    ASSUME TypeOK, PlacesOK, ConsumersOK, [Next]_vars
    PROVE  ConsumersOK'
<1> USE DEF client
<1>0. /\ ClientTypeOK /\ FlagsOK /\ StoppedOK /\ NoJob \notin Jobs
      /\ \A c \in Consumers : HandOK(c)
      /\ unacked \in [Consumers -> SUBSET Jobs] /\ sends \in [Jobs -> Nat]
      /\ failed \subseteq failed' /\ \A j \in Jobs : sends[j] > 0 => sends'[j] > 0
  BY TypeParts, QueueAssumption, RecordsStay DEF BrokerTypeOK, ConsumersOK, HandOK
<1>a. \A c \in Consumers : phase[c] \in {"handle", "ack", "nack"} <=> current[c] \in Jobs
  BY <1>0 DEF ClientTypeOK
<1>b. ASSUME NEW c \in Consumers, open'[c] = open[c], phase'[c] = phase[c],
             buffer'[c] = buffer[c], current'[c] = current[c], cancelled'[c] = cancelled[c],
             unacked'[c] = unacked[c]
      PROVE  HandOK(c)'
  BY <1>0, <1>a, <1>b DEF HandOK
<1> SUFFICES \A c \in Consumers : HandOK(c)'
  BY DEF ConsumersOK, HandOK
<1>1. CASE UNCHANGED vars
  BY <1>b, <1>1 DEF vars
<1>2. CASE ProducerStep
  BY <1>b, <1>2
     DEF ProducerStep, DeclareAPI, NewPublisher, PublisherLost, Publish, SkipEmail, Route
<1>3. ASSUME NEW c \in Consumers, ConsumerStep(c) PROVE \A d \in Consumers : HandOK(d)'
  <2>1. \A d \in Consumers \ {c} : HandOK(d)'
    BY <1>b, <1>3, OthersKeep
  <2> SUFFICES HandOK(c)'
    BY <2>1
  <2> USE DEF HandOK
  <2>a. HandOK(c)
    BY <1>0
  <2>b. current[c] \in Jobs \/ current[c] = NoJob
    BY <1>0 DEF ClientTypeOK
  <2>2. CASE DeclareConsumer(c)
    BY <1>b, <2>2 DEF DeclareConsumer
  <2>3. CASE NewConsumer(c)
    BY <1>0, <2>a, <2>3 DEF NewConsumer, ClientTypeOK
  <2>4. ASSUME NEW j \in Jobs, Deliver(c, j) PROVE HandOK(c)'
    <3>1. /\ unacked'[c] = unacked[c] \cup {j} /\ buffer'[c] = buffer[c] \cup {j}
          /\ UNCHANGED <<open, phase, current, cancelled, sends, failed>>
      BY <1>0, <2>4 DEF Deliver, ClientTypeOK
    <3>2. open[c] /\ phase[c] # "declare" /\ j \in ready
      BY <2>4 DEF Deliver, Subscribed
    <3>3. current[c] # j
      BY <1>0, <2>a, <3>2 DEF PlacesOK
    <3> QED  BY <2>a, <3>1, <3>2, <3>3
  <2>5. ASSUME NEW j \in Jobs, Take(c, j) PROVE HandOK(c)'
    <3>1. /\ buffer'[c] = buffer[c] \ {j} /\ current'[c] = j /\ phase'[c] = "handle"
          /\ UNCHANGED <<open, unacked, cancelled, sends, failed>> /\ j \in buffer[c]
      BY <1>0, <2>5 DEF Take, ClientTypeOK
    <3> QED  BY <2>a, <3>1
  <2>6. CASE HandleSends(c)
    <3>1. /\ phase'[c] = "ack" /\ current[c] \in Jobs
          /\ UNCHANGED <<open, buffer, unacked, current, cancelled, failed>>
      BY <1>0, <1>a, <2>6 DEF HandleSends, ClientTypeOK
    <3>2. sends'[current[c]] > 0
      BY <1>0, <2>6, <3>1 DEF HandleSends
    <3> QED  BY <2>a, <3>1, <3>2
  <2>7. CASE HandleFails(c)
    <3>1. /\ phase'[c] = "nack" /\ current[c] \in failed'
          /\ UNCHANGED <<open, buffer, unacked, current, cancelled, sends>>
      BY <1>0, <2>7 DEF HandleFails, ClientTypeOK
    <3> QED  BY <2>a, <3>1
  <2>8. CASE Ack(c) \/ Nack(c)
    <3>1. /\ phase'[c] = "select" /\ current'[c] = NoJob
          /\ unacked'[c] = unacked[c] \ {current[c]}
          /\ UNCHANGED <<open, buffer, cancelled>>
      BY <1>0, <2>8 DEF Ack, Nack, Settled, ClientTypeOK
    <3>2. NoJob \notin buffer[c]
      BY <1>0 DEF ClientTypeOK
    <3> QED  BY <2>a, <3>1, <3>2
  <2>9. CASE CtxDone(c) \/ DeliveriesClosed(c)
    <3>1. phase'[c] = "returned" /\ current'[c] = current[c] /\ buffer'[c] = {}
      BY <1>0, <2>9 DEF CtxDone, DeliveriesClosed, ClientTypeOK
    <3>2. ~open'[c] /\ unacked'[c] = {}
      BY <1>0, <2>a, <2>9 DEF CtxDone, DeliveriesClosed, Requeue, FlagsOK
    <3> QED  BY <3>1, <3>2
  <2>10. CASE ConnectionLost(c)
    <3>1. /\ ~open'[c] /\ unacked'[c] = {}
          /\ UNCHANGED <<buffer, current, cancelled, sends, failed>>
      BY <1>0, <2>10 DEF ConnectionLost, Requeue, FlagsOK
    <3>2. IF phase[c] = "declare" THEN phase'[c] = "down" ELSE phase'[c] = phase[c]
      BY <1>0, <2>10 DEF ConnectionLost, ClientTypeOK
    <3> QED  BY <2>a, <3>1, <3>2
  <2>11. CASE Shutdown(c)
    <3>1. /\ UNCHANGED <<open, phase, buffer, current, unacked, sends, failed>>
          /\ phase[c] \notin {"declare", "down"}
      BY <2>11 DEF Shutdown
    <3> QED  BY <2>a, <3>1
  <2>12. CASE Exit(c) \/ Crash(c)
    <3>1. /\ ~open'[c] /\ unacked'[c] = {}
      BY <1>0, <2>12 DEF Exit, Crash, Gone, Requeue, FlagsOK
    <3>2. phase'[c] = "down" /\ buffer'[c] = {} /\ current'[c] = NoJob
      BY <1>0, <2>12 DEF Exit, Crash, Gone, ClientTypeOK
    <3>3. ~cancelled'[c]
      BY <1>0, <2>12 DEF Exit, Crash, Gone, FlagsOK
    <3> QED  BY <3>1, <3>2, <3>3
  <2>13. CASE Restart(c)
    <3>1. phase'[c] = "declare" /\ UNCHANGED <<buffer, current, unacked, cancelled>>
      BY <1>0, <2>13 DEF Restart, ClientTypeOK
    <3>2. open'[c] /\ ~open[c] /\ buffer[c] = {}
      BY <1>0, <2>13 DEF Restart, FlagsOK, StoppedOK
    <3>3. current[c] = NoJob
      BY <1>0, <2>13 DEF Restart, ClientTypeOK
    <3>4. ~cancelled[c] /\ unacked[c] = {}
      BY <2>a, <2>13, <3>2 DEF Restart
    <3> QED  BY <3>1, <3>2, <3>3, <3>4
  <2> QED  BY <1>3, <2>2, <2>3, <2>4, <2>5, <2>6, <2>7, <2>8, <2>9, <2>10, <2>11, <2>12, <2>13
           DEF ConsumerStep
<1> QED  BY <1>1, <1>2, <1>3, NextCases

\* A job is acknowledged by a consumer that has sent its email, and rejected by
\* one whose handler failed.
LEMMA ReasonsStep ==
    ASSUME TypeOK, TopologyOK, ConsumersOK, SettledForAReason, [Next]_vars
    PROVE  SettledForAReason'
<1> USE DEF ended
<1>0. /\ failed \subseteq failed' /\ \A j \in Jobs : sends[j] > 0 => sends'[j] > 0
      /\ acked \subseteq Jobs
  BY RecordsStay DEF TypeOK
<1>1. ASSUME UNCHANGED <<acked, dead>> PROVE SettledForAReason'
  BY <1>0, <1>1 DEF SettledForAReason
<1>2. CASE ProducerStep
  BY <1>1, <1>2
     DEF ProducerStep, DeclareAPI, NewPublisher, PublisherLost, Publish, SkipEmail, Route
<1>3. ASSUME NEW c \in Consumers, ConsumerStep(c) PROVE SettledForAReason'
  <2>1. CASE Ack(c)
    <3>1. sends[current[c]] > 0 /\ UNCHANGED <<sends, dead, failed>>
      BY <2>1 DEF Ack, ConsumersOK
    <3>2. acked' \subseteq acked \cup {current[c]}
      BY <2>1 DEF Ack
    <3> QED  BY <3>1, <3>2 DEF SettledForAReason
  <2>2. CASE Nack(c)
    <3>1. current[c] \in failed /\ UNCHANGED <<sends, acked, failed>>
      BY <2>2 DEF Nack, ConsumersOK
    <3>2. dead' \subseteq dead \cup {current[c]}
      BY <2>2 DEF Nack
    <3> QED  BY <3>1, <3>2 DEF SettledForAReason
  <2> QED  BY <1>1, <1>3, <2>1, <2>2
           DEF ConsumerStep, DeclareConsumer, NewConsumer, Deliver, Take, HandleSends,
               HandleFails, CtxDone, DeliveriesClosed, ConnectionLost, Shutdown, Exit, Crash,
               Restart
<1> QED  BY <1>1, <1>2, <1>3, NextCases DEF vars

----------------------------------------------------------------------------
(***************************************************************************)
(* How many emails a job can cost.                                         *)
(***************************************************************************)

\* Counting consumers.
LEMMA CountFacts ==
    ASSUME NEW S \in SUBSET Consumers
    PROVE  /\ Cardinality(S) \in Nat
           /\ \A T \in SUBSET S : Cardinality(T) <= Cardinality(S)
           /\ \A c \in S : Cardinality(S \ {c}) = Cardinality(S) - 1
           /\ \A c \in Consumers : Cardinality(S \cup {c}) <= Cardinality(S) + 1
<1>1. IsFiniteSet(S)
  BY QueueAssumption, FS_Subset
<1>2. Cardinality(S) \in Nat
  BY <1>1, FS_CardinalityType
<1>3. \A T \in SUBSET S : Cardinality(T) <= Cardinality(S)
  BY <1>1, FS_Subset
<1>4. \A c \in S : Cardinality(S \ {c}) = Cardinality(S) - 1
  BY <1>1, FS_RemoveElement
<1>5. \A c \in Consumers : Cardinality(S \cup {c}) <= Cardinality(S) + 1
  BY <1>1, <1>2, FS_AddElement
<1> QED  BY <1>2, <1>3, <1>4, <1>5

\* An email costs a holder, a delivery turns the queued job into a holder, and
\* only a channel that ends makes a job wait again.
LEMMA BudgetStep ==
    ASSUME TypeOK, PlacesOK, ConsumersOK, Budget, [Next]_vars
    PROVE  Budget'
<1> USE DEF producer, client
<1> SUFFICES ASSUME NEW j \in Jobs PROVE BudgetOf(j)'
  BY DEF Budget
<1> DEFINE H == Cardinality(Holders(j))
           E == Cardinality(Ending)
           W == Waiting(j)
<1>0. ClientTypeOK /\ FlagsOK /\ StoppedOK /\ BudgetOf(j)
  BY TypeParts DEF Budget
<1>a. /\ Holders(j) \in SUBSET Consumers /\ Holders(j)' \in SUBSET Consumers
      /\ Ending \in SUBSET Consumers /\ Ending' \in SUBSET Consumers
  BY DEF Holders, Ending
<1>b. /\ H \in Nat /\ H' \in Nat /\ E \in Nat /\ E' \in Nat /\ W \in {0, 1} /\ W' \in {0, 1}
      /\ sends[j] \in Nat /\ losses \in Nat
  BY <1>a, CountFacts DEF Waiting, TypeOK
<1>c. sends[j] + W + H + E <= 1 + losses
  BY <1>0 DEF BudgetOf
<1>d. Holders(j)' \subseteq Holders(j) => H' <= H
  BY <1>a, CountFacts
<1>e. Ending' \subseteq Ending => E' <= E
  BY <1>a, CountFacts
<1>f. (Queued(j)' => Queued(j)) => W' <= W
  BY DEF Waiting
<1> SUFFICES sends'[j] + W' + H' + E' <= 1 + losses'
  BY DEF BudgetOf
<1> HIDE DEF H, E, W
<1>g. ASSUME UNCHANGED <<buffer, phase, current, cancelled, open, sends>>,
             Queued(j)' => Queued(j), losses' \in {losses, losses + 1}
      PROVE  sends'[j] + W' + H' + E' <= 1 + losses'
  <2>1. Holders(j)' = Holders(j) /\ Ending' = Ending
    BY <1>g DEF Holders, Ending
  <2>2. H' <= H /\ E' <= E /\ W' <= W
    BY <1>g, <2>1, <1>d, <1>e, <1>f
  <2> QED  BY <1>g, <1>b, <1>c, <2>2
<1>1. CASE UNCHANGED vars
  BY <1>g, <1>1 DEF vars, Queued
<1>2. CASE ProducerStep
  <2>1. CASE DeclareAPI \/ NewPublisher \/ PublisherLost
    BY <1>g, <2>1 DEF DeclareAPI, NewPublisher, PublisherLost, Queued
  <2>2. ASSUME NEW k \in Jobs, Publish(k) \/ SkipEmail(k) \/ Route(k)
        PROVE  sends'[j] + W' + H' + E' <= 1 + losses'
    <3>1. Queued(j)' => Queued(j)
      BY <2>2 DEF Publish, SkipEmail, Route, Queued, TypeOK
    <3> QED  BY <1>g, <2>2, <3>1 DEF Publish, SkipEmail, Route
  <2> QED  BY <1>2, <2>1, <2>2 DEF ProducerStep
<1>3. ASSUME NEW c \in Consumers, ConsumerStep(c)
      PROVE  sends'[j] + W' + H' + E' <= 1 + losses'
  <2>a. \A d \in Consumers \ {c} :
           /\ phase'[d] = phase[d] /\ buffer'[d] = buffer[d] /\ current'[d] = current[d]
           /\ open'[d] = open[d] /\ cancelled'[d] = cancelled[d]
    BY <1>3, OthersKeep
  <2>b. ASSUME c \in Holders(j)' => c \in Holders(j)
        PROVE  H' <= H
    <3>1. Holders(j)' \subseteq Holders(j)
      BY <2>a, <2>b DEF Holders
    <3> QED  BY <1>d, <3>1
  <2>c. ASSUME c \in Ending' => c \in Ending
        PROVE  E' <= E
    <3>1. Ending' \subseteq Ending
      BY <2>a, <2>c DEF Ending
    <3> QED  BY <1>e, <3>1
  <2>d. ASSUME UNCHANGED <<cancelled, open>> PROVE E' <= E
    BY <2>c, <2>d DEF Ending
  <2>1. CASE DeclareConsumer(c)
    BY <1>g, <2>1 DEF DeclareConsumer, Queued
  <2>2. CASE \/ NewConsumer(c) \/ HandleFails(c) \/ DeliveriesClosed(c)
             \/ \E k \in Jobs : Take(c, k)
    <3>1. W' <= W
      BY <1>f, <2>2 DEF NewConsumer, HandleFails, DeliveriesClosed, Take, Queued
    <3>2. c \in Holders(j)' => c \in Holders(j)
      BY <1>0, <2>2
         DEF NewConsumer, HandleFails, DeliveriesClosed, Take, Holders, ClientTypeOK
    <3>3. E' <= E /\ UNCHANGED <<sends, losses>>
      BY <2>d, <2>2 DEF NewConsumer, HandleFails, DeliveriesClosed, Take
    <3> QED  BY <1>b, <1>c, <2>b, <3>1, <3>2, <3>3
  <2>3. CASE Ack(c) \/ Nack(c)
    <3>1. W' <= W
      BY <1>f, <2>3 DEF Ack, Nack, Queued
    <3>2. c \in Holders(j)' => c \in Holders(j)
      BY <1>0, <2>3 DEF Ack, Nack, Settled, Holders, ClientTypeOK
    <3>3. E' <= E /\ UNCHANGED <<sends, losses>>
      BY <2>d, <2>3 DEF Ack, Nack
    <3> QED  BY <1>b, <1>c, <2>b, <3>1, <3>2, <3>3
  <2>4. CASE \E k \in Jobs \ {j} : Deliver(c, k)
    <3>1. W' <= W
      BY <1>f, <2>4 DEF Deliver, Queued
    <3>2. c \in Holders(j)' => c \in Holders(j)
      BY <1>0, <2>4 DEF Deliver, Holders, ClientTypeOK
    <3>3. E' <= E /\ UNCHANGED <<sends, losses>>
      BY <2>d, <2>4 DEF Deliver
    <3> QED  BY <1>b, <1>c, <2>b, <3>1, <3>2, <3>3
  <2>5. CASE Deliver(c, j)
    <3>1. Queued(j) /\ ~Queued(j)'
      BY <2>5 DEF Deliver, Queued, PlacesOK
    <3>2. W = 1 /\ W' = 0
      BY <3>1 DEF W, Waiting
    <3>3. Holders(j)' \subseteq Holders(j) \cup {c}
      BY <2>a DEF Holders
    <3>4. H' <= H + 1
      <4>1. Holders(j) \cup {c} \in SUBSET Consumers
        BY <1>a
      <4>2. Cardinality(Holders(j)') <= Cardinality(Holders(j) \cup {c})
        BY <3>3, <4>1, CountFacts
      <4>3. Cardinality(Holders(j) \cup {c}) <= Cardinality(Holders(j)) + 1
        BY <1>a, CountFacts
      <4>4. /\ Cardinality(Holders(j)') \in Nat /\ Cardinality(Holders(j)) \in Nat
            /\ Cardinality(Holders(j) \cup {c}) \in Nat
        BY <1>a, <4>1, CountFacts
      <4> QED  BY <4>2, <4>3, <4>4 DEF H
    <3>5. E' <= E /\ UNCHANGED <<sends, losses>>
      BY <2>d, <2>5 DEF Deliver
    <3> QED  BY <1>b, <1>c, <3>2, <3>4, <3>5
  <2>6. CASE HandleSends(c)
    <3>1. W' <= W
      BY <1>f, <2>6 DEF HandleSends, Queued
    <3>2. E' <= E /\ UNCHANGED losses
      BY <2>d, <2>6 DEF HandleSends
    <3>3. CASE current[c] = j
      <4>1. sends'[j] = sends[j] + 1
        BY <2>6, <3>3 DEF HandleSends, TypeOK
      <4>2. c \in Holders(j) /\ c \notin Holders(j)'
        BY <1>0, <2>6, <3>3 DEF HandleSends, Holders, ClientTypeOK, ConsumersOK
      <4>3. Holders(j)' \subseteq Holders(j) \ {c}
        BY <2>a, <4>2 DEF Holders
      <4>4. H' <= H - 1
        <5>1. Holders(j) \ {c} \in SUBSET Consumers
          BY <1>a
        <5>2. Cardinality(Holders(j)') <= Cardinality(Holders(j) \ {c})
          BY <4>3, <5>1, CountFacts
        <5>3. Cardinality(Holders(j) \ {c}) = Cardinality(Holders(j)) - 1
          BY <1>a, <4>2, CountFacts
        <5> QED  BY <5>2, <5>3 DEF H
      <4> QED  BY <1>b, <1>c, <3>1, <3>2, <4>1, <4>4
    <3>4. CASE current[c] # j
      <4>1. sends'[j] = sends[j]
        BY <2>6, <3>4 DEF HandleSends, TypeOK
      <4>2. c \in Holders(j)' => c \in Holders(j)
        BY <1>0, <2>6 DEF HandleSends, Holders, ClientTypeOK
      <4> QED  BY <1>b, <1>c, <2>b, <3>1, <3>2, <4>1, <4>2
    <3> QED  BY <3>3, <3>4
  <2>7. CASE CtxDone(c) \/ Exit(c)
    <3>1. c \in Holders(j)' => c \in Holders(j)
      BY <1>0, <2>7 DEF CtxDone, Exit, Gone, Holders, ClientTypeOK
    <3>2. UNCHANGED <<sends, losses, request, wire>> /\ cancelled[c]
      BY <2>7 DEF CtxDone, Exit
    <3>3. ~open'[c] /\ ready' = ready \cup unacked[c]
      BY <1>0, <2>7 DEF CtxDone, Exit, Gone, Requeue, FlagsOK
    <3>4. c \notin Ending'
      BY <3>3 DEF Ending
    <3>5. CASE open[c]
      <4>1. c \in Ending /\ Ending' \subseteq Ending \ {c}
        BY <2>a, <3>2, <3>4, <3>5 DEF Ending
      <4>2. E' <= E - 1
        <5>1. Ending \ {c} \in SUBSET Consumers
          BY <1>a
        <5>2. Cardinality(Ending') <= Cardinality(Ending \ {c})
          BY <4>1, <5>1, CountFacts
        <5>3. Cardinality(Ending \ {c}) = Cardinality(Ending) - 1
          BY <1>a, <4>1, CountFacts
        <5> QED  BY <5>2, <5>3 DEF E
      <4> QED  BY <1>b, <1>c, <2>b, <3>1, <3>2, <4>2
    <3>6. CASE ~open[c]
      <4>1. Queued(j)' => Queued(j)
        BY <3>2, <3>3, <3>6 DEF Queued, ConsumersOK
      <4>2. W' <= W /\ E' <= E
        BY <1>f, <2>c, <3>4, <4>1
      <4> QED  BY <1>b, <1>c, <2>b, <3>1, <3>2, <4>2
    <3> QED  BY <3>5, <3>6
  <2>8. CASE ConnectionLost(c) \/ Crash(c)
    <3>1. c \in Holders(j)' => c \in Holders(j)
      BY <1>0, <2>8 DEF ConnectionLost, Crash, Gone, Holders, ClientTypeOK
    <3>2. ~open'[c]
      BY <1>0, <2>8 DEF ConnectionLost, Crash, Gone, Requeue, FlagsOK
    <3>3. c \notin Ending'
      BY <3>2 DEF Ending
    <3>4. UNCHANGED sends /\ losses' = losses + 1
      BY <2>8 DEF ConnectionLost, Crash
    <3>5. H' <= H /\ E' <= E
      BY <2>b, <2>c, <3>1, <3>3
    <3> QED  BY <1>b, <1>c, <3>4, <3>5
  <2>9. CASE Shutdown(c)
    <3>1. UNCHANGED <<buffer, phase, current, sends>> /\ losses' = losses + 1
      BY <2>9 DEF Shutdown
    <3>2. W' <= W
      BY <1>f, <2>9 DEF Shutdown, Queued
    <3>3. H' <= H
      BY <2>b, <3>1 DEF Holders
    <3>4. Ending' \subseteq Ending \cup {c}
      BY <2>a DEF Ending
    <3>5. E' <= E + 1
      <4>1. Ending \cup {c} \in SUBSET Consumers
        BY <1>a
      <4>2. Cardinality(Ending') <= Cardinality(Ending \cup {c})
        BY <3>4, <4>1, CountFacts
      <4>3. Cardinality(Ending \cup {c}) <= Cardinality(Ending) + 1
        BY <1>a, CountFacts
      <4>4. /\ Cardinality(Ending') \in Nat /\ Cardinality(Ending) \in Nat
            /\ Cardinality(Ending \cup {c}) \in Nat
        BY <1>a, <4>1, CountFacts
      <4> QED  BY <4>2, <4>3, <4>4 DEF E
    <3> QED  BY <1>b, <1>c, <3>1, <3>2, <3>3, <3>5
  <2>10. CASE Restart(c)
    <3>1. UNCHANGED <<sends, losses, cancelled>> /\ ~cancelled[c]
      BY <2>10 DEF Restart, ConsumersOK
    <3>2. c \in Holders(j)' => c \in Holders(j)
      BY <1>0, <2>10 DEF Restart, Holders, ClientTypeOK
    <3>3. c \notin Ending'
      BY <3>1 DEF Ending
    <3>4. W' <= W
      BY <1>f, <2>10 DEF Restart, Queued
    <3>5. H' <= H /\ E' <= E
      BY <2>b, <2>c, <3>2, <3>3
    <3> QED  BY <1>b, <1>c, <3>1, <3>4, <3>5
  <2> QED  BY <1>3, <2>1, <2>2, <2>3, <2>4, <2>5, <2>6, <2>7, <2>8, <2>9, <2>10
           DEF ConsumerStep
<1> QED  BY <1>1, <1>2, <1>3, NextCases

----------------------------------------------------------------------------
(***************************************************************************)
(* Theorems.                                                               *)
(***************************************************************************)

\* Nothing is declared, published or delivered yet.
LEMMA QueueInit == Init => QueueInv
<1> SUFFICES ASSUME Init PROVE QueueInv
  OBVIOUS
<1> USE DEF Init
<1>0. Len(Declaration) = 6
  BY DeclarationFacts
<1>1. BrokerTypeOK
  BY QueueAssumption DEF BrokerTypeOK
<1>2. DeclareTypeOK
  BY <1>0 DEF DeclareTypeOK
<1>3. ClientTypeOK
  BY DEF ClientTypeOK, Phases
<1>4. FlagsOK
  BY DEF FlagsOK
<1>5. StoppedOK
  BY DEF StoppedOK
<1>6. TypeOK
  BY <1>1, <1>2, <1>3, <1>4, <1>5, TypeParts
<1>7. TopologyOK
  <2>1. \A s \in Sides : declared[s] = 0
    OBVIOUS
  <2> QED  BY <2>1 DEF TopologyOK
<1>8. PlacesOK /\ SettledForAReason
  BY DEF PlacesOK, SettledForAReason
<1>9. ConsumersOK
  BY DEF ConsumersOK
<1>10. Budget
  <2> SUFFICES ASSUME NEW j \in Jobs PROVE BudgetOf(j)
    BY DEF Budget
  <2>1. Holders(j) = {} /\ Ending = {}
    BY DEF Holders, Ending
  <2>2. Cardinality(Holders(j)) = 0 /\ Cardinality(Ending) = 0
    BY <2>1, FS_EmptySet
  <2>3. sends[j] = 0 /\ losses = 0 /\ Waiting(j) \in {0, 1}
    BY DEF Waiting
  <2> QED  BY <2>2, <2>3 DEF BudgetOf
<1> QED  BY <1>6, <1>7, <1>8, <1>9, <1>10 DEF QueueInv

\* QueueInv is inductive: it holds in every reachable state.
THEOREM QueueInvariant == Spec => []QueueInv
<1>1. QueueInv /\ [Next]_vars => QueueInv'
  <2> SUFFICES ASSUME QueueInv, [Next]_vars PROVE QueueInv'
    OBVIOUS
  <2>0. TypeOK /\ TopologyOK /\ PlacesOK /\ ConsumersOK /\ SettledForAReason /\ Budget
    BY DEF QueueInv
  <2>1. BrokerTypeOK' /\ DeclareTypeOK' /\ ClientTypeOK' /\ FlagsOK' /\ StoppedOK'
    BY <2>0, BrokerTypeStep, DeclareTypeStep, ClientTypeStep, FlagsStep, StoppedStep
  <2>2. TypeOK'
    BY <2>1, TypeParts, PTL
  <2>3. TopologyOK' /\ PlacesOK' /\ ConsumersOK' /\ SettledForAReason' /\ Budget'
    BY <2>0, TopologyStep, PlacesStep, ConsumersStep, ReasonsStep, BudgetStep
  <2> QED  BY <2>2, <2>3 DEF QueueInv
<1> QED  BY <1>1, QueueInit, PTL DEF Spec

\* Every variable keeps its type, in whatever order the sides start and fail.
THEOREM TypeCorrect == Spec => []TypeOK
<1>1. QueueInv => TypeOK
  BY DEF QueueInv
<1> QED  BY <1>1, QueueInvariant, PTL

\* Declare, Publish and the settling of deliveries conserve the jobs: with any
\* number of replicas, none is dropped or in two places, and none that was
\* published is lost while the API keeps its connection.
THEOREM JobsConservedHolds == Spec => []JobsConserved
<1>1. QueueInv => JobsConserved
  <2> SUFFICES ASSUME QueueInv PROVE JobsConserved
    OBVIOUS
  <2>0. PlacesOK
    BY DEF QueueInv
  <2>1. ASSUME NEW j \in Jobs
        PROVE  LET places == {p \in {<<"wire", wire>>, <<"ready", ready>>, <<"acked", acked>>,
                                     <<"dead", dead>>}
                                    \cup {<<c, unacked[c]>> : c \in Consumers} : j \in p[2]}
               IN /\ Cardinality(places) <= 1
                  /\ publisher # "off" /\ request[j] = "published" => places # {}
    <3> DEFINE all == {<<"wire", wire>>, <<"ready", ready>>, <<"acked", acked>>,
                       <<"dead", dead>>} \cup {<<c, unacked[c]>> : c \in Consumers}
               places == {p \in all : j \in p[2]}
    <3>1. \A p \in places :
             \/ p = <<"wire", wire>> /\ j \in wire
             \/ p = <<"ready", ready>> /\ j \in ready
             \/ p = <<"acked", acked>> /\ j \in acked
             \/ p = <<"dead", dead>> /\ j \in dead
             \/ \E c \in Consumers : p = <<c, unacked[c]>> /\ j \in unacked[c]
      OBVIOUS
    <3>2. /\ j \in wire => <<"wire", wire>> \in places
          /\ j \in ready => <<"ready", ready>> \in places
          /\ j \in acked => <<"acked", acked>> \in places
          /\ j \in dead => <<"dead", dead>> \in places
          /\ \A c \in Consumers : j \in unacked[c] => <<c, unacked[c]>> \in places
      OBVIOUS
    <3> HIDE DEF places
    <3>3. \A p, r \in places : p = r
      BY <2>0, <3>1 DEF PlacesOK
    <3>4. Cardinality(places) <= 1
      <4>1. CASE places = {}
        BY <4>1, FS_EmptySet
      <4>2. ASSUME NEW p \in places PROVE Cardinality(places) <= 1
        <5>1. places = {p}
          BY <3>3, <4>2
        <5>2. Cardinality({p}) = 1
          BY FS_Singleton
        <5> QED  BY <5>1, <5>2
      <4> QED  BY <4>1, <4>2
    <3>5. publisher # "off" /\ request[j] = "published" => places # {}
      BY <2>0, <3>2 DEF PlacesOK
    <3> QED  BY <3>4, <3>5 DEF places
  <2>2. dropped = {}
    BY <2>0 DEF PlacesOK
  <2> QED  BY <2>1, <2>2 DEF JobsConserved
<1> QED  BY <1>1, QueueInvariant, PTL

\* Consumer.Run acknowledges only what its handler has done, and rejects only
\* what it failed on.
THEOREM SettledForAReasonHolds == Spec => []SettledForAReason
<1>1. QueueInv => SettledForAReason
  BY DEF QueueInv
<1> QED  BY <1>1, QueueInvariant, PTL

\* However many replicas take turns with a job, every email after the first is
\* paid for by a connection, a process or a replica that was lost or stopped.
THEOREM DuplicatesCostALossHolds == Spec => []DuplicatesCostALoss
<1>1. QueueInv => DuplicatesCostALoss
  <2> SUFFICES ASSUME QueueInv, NEW j \in Jobs PROVE sends[j] <= 1 + losses
    BY DEF DuplicatesCostALoss
  <2>1. /\ Cardinality(Holders(j)) \in Nat /\ Cardinality(Ending) \in Nat
        /\ Waiting(j) \in {0, 1}
    BY CountFacts DEF Holders, Ending, Waiting
  <2>2. BudgetOf(j) /\ sends[j] \in Nat /\ losses \in Nat
    BY DEF QueueInv, Budget, TypeOK
  <2> QED  BY <2>1, <2>2 DEF BudgetOf
<1> QED  BY <1>1, QueueInvariant, PTL

----------------------------------------------------------------------------
(***************************************************************************)
(* Refinement: the queue implements JobPool.                               *)
(***************************************************************************)

\* The broker has read job j.
Read(j) ==
    \/ j \in ready \/ j \in acked \/ j \in dead
    \/ \E c \in Consumers : j \in unacked[c]

\* Whatever is handled, or about to be, also by a consumer whose channel has
\* ended, is a job the broker has.
HandledOK ==
    \A j \in Jobs :
        \/ sends[j] > 0 \/ j \in failed
        \/ \E c \in Consumers : j \in buffer[c] \/ current[c] = j
        => Read(j)

\* What the broker has read it keeps.
LEMMA ReadStays ==
    ASSUME QueueInv, [Next]_vars, NEW j \in Jobs, Read(j)
    PROVE  Read(j)'
<1> USE DEF producer, ended
<1>0. TypeOK /\ TopologyOK /\ unacked \in [Consumers -> SUBSET Jobs]
  BY DEF QueueInv, TypeOK
<1>1. ASSUME ready \subseteq ready', UNCHANGED <<unacked, acked, dead>> PROVE Read(j)'
  BY <1>1 DEF Read
<1>2. CASE ProducerStep
  BY <1>1, <1>2
     DEF ProducerStep, DeclareAPI, NewPublisher, PublisherLost, Publish, SkipEmail, Route
<1>3. ASSUME NEW c \in Consumers, ConsumerStep(c) PROVE Read(j)'
  <2>a. \A d \in Consumers \ {c} : unacked'[d] = unacked[d]
    BY <1>0, <1>3, OthersKeep
  <2>1. ASSUME NEW k \in Jobs, Deliver(c, k) PROVE Read(j)'
    <3>1. unacked'[c] = unacked[c] \cup {k} /\ ready' = ready \ {k}
          /\ UNCHANGED <<acked, dead>>
      BY <1>0, <2>1 DEF Deliver
    <3> QED  BY <2>a, <3>1 DEF Read
  <2>2. CASE Ack(c) \/ Nack(c)
    <3>1. CASE Nack(c)
      <4>1. {"dlx", "dead queue", "dead binding"} \subseteq entities
        BY <1>0, <3>1, AllDeclared DEF Nack, TopologyOK, Sides
      <4>2. dead' = dead \cup (unacked[c] \cap {current[c]}) /\ UNCHANGED <<acked, ready>>
        BY <3>1, <4>1 DEF Nack
      <4>3. unacked'[c] = unacked[c] \ {current[c]}
        BY <1>0, <3>1 DEF Nack
      <4> QED  BY <2>a, <4>2, <4>3 DEF Read
    <3>2. CASE Ack(c)
      <4>1. /\ acked' = acked \cup (unacked[c] \cap {current[c]}) /\ UNCHANGED <<dead, ready>>
            /\ unacked'[c] = unacked[c] \ {current[c]}
        BY <1>0, <3>2 DEF Ack
      <4> QED  BY <2>a, <4>1 DEF Read
    <3> QED  BY <2>2, <3>1, <3>2
  <2>3. CASE CtxDone(c) \/ ConnectionLost(c) \/ Exit(c) \/ Crash(c)
    <3>1. ready' = ready \cup unacked[c] /\ UNCHANGED <<acked, dead>>
      BY <2>3 DEF CtxDone, ConnectionLost, Exit, Crash, Gone, Requeue
    <3> QED  BY <2>a, <3>1 DEF Read
  <2> QED  BY <1>1, <1>3, <2>1, <2>2, <2>3
           DEF ConsumerStep, DeclareConsumer, NewConsumer, Take, HandleSends, HandleFails,
               DeliveriesClosed, Shutdown, Restart
<1> QED  BY <1>1, <1>2, <1>3, NextCases DEF vars

LEMMA HandledStep ==
    ASSUME QueueInv, HandledOK, [Next]_vars
    PROVE  HandledOK'
<1> USE DEF client
<1>0. ClientTypeOK /\ TypeOK /\ NoJob \notin Jobs /\ sends \in [Jobs -> Nat]
  BY TypeParts, QueueAssumption DEF QueueInv, TypeOK
<1> SUFFICES ASSUME NEW j \in Jobs,
                    \/ sends'[j] > 0 \/ j \in failed'
                    \/ \E c \in Consumers : j \in buffer'[c] \/ current'[c] = j
             PROVE  Read(j)'
  BY DEF HandledOK
<1>1. ASSUME \/ sends[j] > 0 \/ j \in failed
             \/ \E c \in Consumers : j \in buffer[c] \/ current[c] = j
      PROVE  Read(j)'
  BY <1>1, ReadStays DEF HandledOK
<1>2. CASE UNCHANGED <<sends, failed, buffer, current>>
  BY <1>1, <1>2
<1>3. CASE ProducerStep
  BY <1>2, <1>3
     DEF ProducerStep, DeclareAPI, NewPublisher, PublisherLost, Publish, SkipEmail, Route
<1>4. ASSUME NEW c \in Consumers, ConsumerStep(c) PROVE Read(j)'
  <2>a. \A d \in Consumers \ {c} : buffer'[d] = buffer[d] /\ current'[d] = current[d]
    BY <1>0, <1>4, OthersKeep
  <2>1. ASSUME NEW k \in Jobs, Deliver(c, k) PROVE Read(j)'
    <3>1. /\ buffer'[c] = buffer[c] \cup {k} /\ UNCHANGED <<sends, failed, current>>
          /\ k \in ready
      BY <1>0, <2>1 DEF Deliver, ClientTypeOK
    <3>2. j = k => Read(j)
      BY <3>1 DEF Read
    <3> QED  BY <1>1, <2>a, <3>1, <3>2, ReadStays
  <2>2. ASSUME NEW k \in Jobs, Take(c, k) PROVE Read(j)'
    <3>1. /\ buffer'[c] = buffer[c] \ {k} /\ current'[c] = k /\ k \in buffer[c]
          /\ UNCHANGED <<sends, failed>>
      BY <1>0, <2>2 DEF Take, ClientTypeOK
    <3> QED  BY <1>1, <2>a, <3>1
  <2>3. CASE HandleSends(c)
    <3>1. sends'[j] = sends[j] \/ j = current[c]
      BY <1>0, <2>3 DEF HandleSends
    <3> QED  BY <1>1, <2>3, <3>1 DEF HandleSends
  <2>4. CASE HandleFails(c)
    BY <1>1, <2>4 DEF HandleFails
  <2>5. CASE Ack(c) \/ Nack(c)
    <3>1. current'[c] = NoJob /\ UNCHANGED <<sends, failed, buffer>>
      BY <1>0, <2>5 DEF Ack, Nack, Settled, ClientTypeOK
    <3> QED  BY <1>0, <1>1, <2>a, <3>1
  <2>6. CASE CtxDone(c) \/ DeliveriesClosed(c)
    <3>1. buffer'[c] = {} /\ UNCHANGED <<sends, failed, current>>
      BY <1>0, <2>6 DEF CtxDone, DeliveriesClosed, ClientTypeOK
    <3> QED  BY <1>1, <2>a, <3>1
  <2>7. CASE Exit(c) \/ Crash(c)
    <3>1. buffer'[c] = {} /\ current'[c] = NoJob /\ UNCHANGED <<sends, failed>>
      BY <1>0, <2>7 DEF Exit, Crash, Gone, ClientTypeOK
    <3> QED  BY <1>0, <1>1, <2>a, <3>1
  <2> QED  BY <1>2, <1>4, <2>1, <2>2, <2>3, <2>4, <2>5, <2>6, <2>7
           DEF ConsumerStep, DeclareConsumer, NewConsumer, ConnectionLost, Shutdown, Restart
<1> QED  BY <1>2, <1>3, <1>4, NextCases DEF vars

LEMMA HandledInvariant == Spec => []HandledOK
<1>1. Init => HandledOK
  BY QueueAssumption DEF Init, HandledOK
<1>2. QueueInv /\ HandledOK /\ [Next]_vars => HandledOK'
  BY HandledStep
<1> QED  BY <1>1, <1>2, QueueInvariant, PTL DEF Spec

\* The jobs of the pool and those that were accepted.
Accepted == {j \in Jobs : request[j] = "published"}
Pooled == wire \cup ready \cup UNION {unacked[c] : c \in Consumers}

LEMMA PoolMembers ==
    \A j : j \in Pooled <=> j \in wire \/ j \in ready \/ \E c \in Consumers : j \in unacked[c]
BY DEF Pooled

LEMMA RefineInit == Init => Pool!Init
<1> SUFFICES ASSUME Init PROVE Pool!Init
  OBVIOUS
<1>1. Accepted = {} /\ Pooled = {}
  <2>1. \A c \in Consumers : unacked[c] = {}
    BY DEF Init
  <2> QED  BY <2>1 DEF Init, Accepted, Pooled
<1> QED  BY <1>1 DEF Init, Pool!Init, Accepted, Pooled

\* The producer's steps accept a job, lose some, or change nothing the pool shows.
LEMMA ProducerRefines ==
    ASSUME QueueInv, HandledOK, ProducerStep
    PROVE  Pool!Next \/ UNCHANGED Pool!vars
<1> USE DEF producer, ended
<1>0. TypeOK /\ TopologyOK /\ PlacesOK
  BY DEF QueueInv
<1>1. CASE DeclareAPI \/ NewPublisher \/ \E j \in Jobs : SkipEmail(j)
  <2>1. UNCHANGED Pooled
    BY <1>1 DEF DeclareAPI, NewPublisher, SkipEmail, Pooled
  <2>2. UNCHANGED Accepted
    BY <1>0, <1>1 DEF DeclareAPI, NewPublisher, SkipEmail, Accepted, TypeOK
  <2>3. UNCHANGED <<acked, dead, sends, failed>>
    BY <1>1 DEF DeclareAPI, NewPublisher, SkipEmail
  <2> QED  BY <2>1, <2>2, <2>3 DEF Pool!vars, Pool!settled, Pooled, Accepted
<1>2. ASSUME NEW j \in Jobs, Publish(j) PROVE Pool!Accept(j)
  <2>1. j \notin Accepted /\ Accepted' = Accepted \cup {j}
    BY <1>0, <1>2 DEF Publish, Accepted, TypeOK
  <2>2. Pooled' = Pooled \cup {j}
    BY <1>2 DEF Publish, Pooled
  <2>3. UNCHANGED <<acked, dead, sends, failed>>
    BY <1>2 DEF Publish
  <2> QED  BY <2>1, <2>2, <2>3 DEF Pool!Accept, Pool!settled, Pooled, Accepted
<1>3. ASSUME NEW j \in Jobs, Route(j) PROVE UNCHANGED Pool!vars
  <2>1. {"exchange", "queue", "binding"} \subseteq entities
    BY <1>0, <1>3, AllDeclared DEF Route, TopologyOK, Sides
  <2>2. ready' = ready \cup {j} /\ wire' = wire \ {j} /\ j \in wire /\ UNCHANGED unacked
    BY <1>3, <2>1 DEF Route
  <2>3. Pooled' = Pooled
    BY <2>2 DEF Pooled
  <2>4. UNCHANGED <<request, acked, dead, sends, failed>>
    BY <1>3 DEF Route
  <2> QED  BY <2>3, <2>4 DEF Pool!vars, Pool!settled, Pooled, Accepted
<1>4. ASSUME PublisherLost PROVE \E lost \in SUBSET Pooled : Pool!Lose(lost)
  <2>0. PICK lost : lost = wire \ wire'
    OBVIOUS
  <2>1. wire' \subseteq wire /\ UNCHANGED <<request, ready, unacked, acked, dead, sends, failed>>
    BY <1>4 DEF PublisherLost
  <2>2. \A j \in lost : j \in Jobs /\ ~Read(j)
    BY <1>0, <2>0 DEF PlacesOK, TypeOK, Read
  <2>3. \A j \in lost : sends[j] = 0 /\ j \notin failed
    <3>1. \A j \in Jobs : sends[j] \in Nat
      BY <1>0 DEF TypeOK
    <3> QED  BY <2>2, <3>1 DEF HandledOK
  <2>4. lost \subseteq Pooled /\ Pooled' = Pooled \ lost
    <3>1. \A j \in lost : j \notin ready /\ \A c \in Consumers : j \notin unacked[c]
      BY <2>2 DEF Read
    <3> QED  BY <2>0, <2>1, <3>1 DEF Pooled
  <2>5. Pool!Lose(lost)
    BY <2>1, <2>3, <2>4 DEF Pool!Lose, Pool!settled, Pooled, Accepted
  <2> QED  BY <2>4, <2>5
<1>5. CASE PublisherLost
  BY <1>4, <1>5 DEF Pool!Next, Pooled
<1> QED  BY <1>1, <1>2, <1>3, <1>5 DEF ProducerStep, Pool!Next

\* A consumer's handler does a job, its Ack or Nack settles it; deliveries and
\* channels that end do not show.
LEMMA ConsumerRefines ==
    ASSUME QueueInv, HandledOK, NEW c \in Consumers, ConsumerStep(c)
    PROVE  Pool!Next \/ UNCHANGED Pool!vars
<1> USE DEF producer, ended
<1>0. /\ TypeOK /\ TopologyOK /\ PlacesOK /\ ConsumersOK /\ ClientTypeOK
      /\ unacked \in [Consumers -> SUBSET Jobs]
  BY TypeParts DEF QueueInv, TypeOK
<1>a. \A d \in Consumers \ {c} : unacked'[d] = unacked[d]
  BY <1>0, OthersKeep
<1>b. ASSUME UNCHANGED <<request, acked, dead, sends, failed>>, Pooled' = Pooled
      PROVE  UNCHANGED Pool!vars
  BY <1>b DEF Pool!vars, Pool!settled, Pooled, Accepted
<1>1. CASE DeclareConsumer(c) \/ NewConsumer(c) \/ (\E j \in Jobs : Take(c, j))
           \/ DeliveriesClosed(c) \/ Shutdown(c) \/ Restart(c)
  BY <1>b, <1>1
     DEF DeclareConsumer, NewConsumer, Take, DeliveriesClosed, Shutdown, Restart, Pooled
<1>2. ASSUME NEW j \in Jobs, Deliver(c, j) PROVE UNCHANGED Pool!vars
  <2>1. /\ unacked'[c] = unacked[c] \cup {j} /\ ready' = ready \ {j} /\ j \in ready
        /\ UNCHANGED wire
    BY <1>0, <1>2 DEF Deliver
  <2>2. Pooled' = Pooled
    BY <1>a, <2>1 DEF Pooled
  <2> QED  BY <1>b, <1>2, <2>2 DEF Deliver
<1>3. CASE CtxDone(c) \/ ConnectionLost(c) \/ Exit(c) \/ Crash(c)
  <2>1. ready' = ready \cup unacked[c] /\ unacked'[c] = {} /\ UNCHANGED wire
    BY <1>0, <1>3 DEF CtxDone, ConnectionLost, Exit, Crash, Gone, Requeue
  <2>2. Pooled' = Pooled
    BY <1>a, <2>1 DEF Pooled
  <2> QED  BY <1>b, <1>3, <2>2 DEF CtxDone, ConnectionLost, Exit, Crash
<1>4. CASE HandleSends(c) \/ HandleFails(c)
  <2>1. current[c] \in Jobs /\ Read(current[c])
    BY <1>0, <1>4 DEF HandleSends, HandleFails, ClientTypeOK, HandledOK
  <2>2. current[c] \in Pooled \cup acked \cup dead
    BY <2>1 DEF Read, Pooled
  <2>3. UNCHANGED <<request, acked, dead>> /\ Pooled' = Pooled
    BY <1>4 DEF HandleSends, HandleFails, Pooled
  <2>4. \/ sends' = [sends EXCEPT ![current[c]] = @ + 1] /\ UNCHANGED failed
        \/ failed' = failed \cup {current[c]} /\ UNCHANGED sends
    BY <1>4 DEF HandleSends, HandleFails
  <2>5. Pool!Handle(current[c])
    BY <2>2, <2>3, <2>4 DEF Pool!Handle, Pool!settled, Pooled, Accepted
  <2> QED  BY <2>1, <2>5 DEF Pool!Next
<1>5. CASE Ack(c) \/ Nack(c)
  <2>0. PICK j : j = current[c]
    OBVIOUS
  <2>1. j \in Jobs /\ unacked'[c] = unacked[c] \ {j}
        /\ UNCHANGED <<request, wire, ready, sends, failed>>
    BY <1>0, <1>5, <2>0 DEF Ack, Nack, ClientTypeOK
  <2>2. \/ acked' = acked \cup (unacked[c] \cap {j}) /\ UNCHANGED dead /\ sends[j] > 0
        \/ dead' = dead \cup (unacked[c] \cap {j}) /\ UNCHANGED acked /\ j \in failed
    <3>1. CASE Ack(c)
      BY <1>0, <2>0, <3>1 DEF Ack, ConsumersOK
    <3>2. CASE Nack(c)
      <4>1. {"dlx", "dead queue", "dead binding"} \subseteq entities
        BY <1>0, <3>2, AllDeclared DEF Nack, TopologyOK, Sides
      <4> QED  BY <1>0, <2>0, <3>2, <4>1 DEF Nack, ConsumersOK
    <3> QED  BY <1>5, <3>1, <3>2
  <2>3. CASE j \notin unacked[c]
    <3>1. Pooled' = Pooled
      BY <1>a, <2>1, <2>3 DEF Pooled
    <3> QED  BY <1>b, <2>1, <2>2, <2>3, <3>1
  <2>4. CASE j \in unacked[c]
    <3>1. j \notin wire /\ j \notin ready /\ \A d \in Consumers \ {c} : j \notin unacked[d]
      BY <1>0, <2>4 DEF PlacesOK
    <3>2. j \in Pooled /\ Pooled' = Pooled \ {j}
      BY <1>a, <2>1, <2>4, <3>1 DEF Pooled
    <3>3. Pool!Settle(j)
      BY <2>1, <2>2, <2>4, <3>2 DEF Pool!Settle, Pooled, Accepted
    <3> QED  BY <2>1, <3>3 DEF Pool!Next
  <2> QED  BY <2>3, <2>4
<1> QED  BY <1>1, <1>2, <1>3, <1>4, <1>5 DEF ConsumerStep

\* The queue with its broker, channels and replicas implements JobPool, for any
\* number of jobs, replicas and losses: each step accepts, handles, settles or
\* loses jobs as JobPool allows, or does not show.
THEOREM Refinement == Spec => ImplementsJobPool
<1>1. QueueInv /\ HandledOK /\ [Next]_vars => [Pool!Next]_Pool!vars
  <2> SUFFICES ASSUME QueueInv, HandledOK, [Next]_vars
               PROVE  Pool!Next \/ UNCHANGED Pool!vars
    OBVIOUS
  <2>1. CASE UNCHANGED vars
    BY <2>1 DEF vars, producer, ended, Pool!vars, Pool!settled
  <2> QED  BY <2>1, ProducerRefines, ConsumerRefines, NextCases
<1> QED  BY <1>1, RefineInit, QueueInvariant, HandledInvariant, PTL
         DEF Spec, ImplementsJobPool, Pool!Spec

=============================================================================
