----------------------------- MODULE WorkQueue -----------------------------
(***************************************************************************)
(* The RabbitMQ queue notifications.email, from booking.Service.queueEmail *)
(* in the API to the consumers of the notification-service replicas, with  *)
(* the dead-letter queue (internal/queue).  The thumbnail worker consumes  *)
(* media.thumbnail with the same code.                                     *)
(*                                                                         *)
(* RabbitMQ and the amqp091 client are external.  What they do here: a     *)
(* message whose exchange has no bound queue is dropped (mandatory is      *)
(* false); a delivery is unacked until the consumer settles it; when a     *)
(* channel ends, its unacked deliveries are ready again; deliveries the    *)
(* client has buffered may still come out of a channel that has ended.     *)
(***************************************************************************)
EXTENDS Integers, Sequences, FiniteSets

CONSTANTS
    Jobs,       \* emails the API wants to send
    Consumers,  \* replicas of notification-service
    Prefetch,   \* QoS of a consumer, 10
    MaxLosses,  \* bound on lost connections, crashes and shutdowns
    Faults,     \* which of FaultKinds may happen
    NoJob

\* The handler fails, a connection to the broker breaks, a process dies, or a
\* replica is shut down.
FaultKinds == {"contact", "connection", "crash", "shutdown"}

ASSUME QueueAssumption ==
    /\ Prefetch \in Nat \ {0}
    /\ MaxLosses \in Nat
    /\ Faults \subseteq FaultKinds
    /\ NoJob \notin Jobs
    /\ "api" \notin Consumers
    /\ IsFiniteSet(Consumers)

Sides == Consumers \cup {"api"}

\* What Declare creates, in its order.
Declaration == <<"exchange", "dlx", "dead queue", "dead binding", "queue", "binding">>

VARIABLES
    entities,   \* what exists in the broker
    declared,   \* how many of the declarations each side has made
    publisher,  \* the API's side: declaring, up or off
    request,    \* what became of each call of QueueEmail
    wire,       \* published jobs the broker has not read yet
    ready,      \* jobs in the queue, not delivered
    unacked,    \* jobs the broker has delivered on each consumer's channel
    open,       \* each consumer's channel is open
    phase,      \* where each consumer is
    buffer,     \* deliveries waiting in each consumer's Go channel
    current,    \* the delivery its handler holds
    cancelled,  \* its ctx is cancelled
    acked, dead, dropped,   \* how jobs ended
    failed,     \* jobs whose handler has returned an error
    sends,      \* emails sent per job
    losses      \* lost connections, crashes and shutdowns so far

topology == <<entities, declared>>
producer == <<publisher, request, wire>>
client == <<open, phase, buffer, current, cancelled>>
ended == <<acked, dead, dropped>>
vars == <<topology, producer, ready, unacked, client, ended, failed, sends, losses>>

TypeOK ==
    /\ entities \subseteq {Declaration[i] : i \in DOMAIN Declaration}
    /\ declared \in [Sides -> 0 .. Len(Declaration)]
    /\ publisher \in {"declare", "up", "off"}
    /\ request \in [Jobs -> {"none", "published", "skipped"}]
    /\ wire \subseteq Jobs /\ ready \subseteq Jobs
    /\ unacked \in [Consumers -> SUBSET Jobs]
    /\ open \in [Consumers -> BOOLEAN]
    /\ phase \in [Consumers ->
                    {"declare", "select", "handle", "ack", "nack", "returned", "down"}]
    /\ buffer \in [Consumers -> SUBSET Jobs]
    /\ current \in [Consumers -> Jobs \cup {NoJob}]
    /\ cancelled \in [Consumers -> BOOLEAN]
    /\ acked \subseteq Jobs /\ dead \subseteq Jobs /\ dropped \subseteq Jobs
    /\ failed \subseteq Jobs
    /\ sends \in [Jobs -> Nat]
    /\ losses \in 0 .. MaxLosses
    /\ \A c \in Consumers :
         /\ current[c] # NoJob <=> phase[c] \in {"handle", "ack", "nack"}
         /\ phase[c] \in {"returned", "down"} => ~open[c] /\ buffer[c] = {}

Init ==
    /\ entities = {}
    /\ declared = [s \in Sides |-> 0]
    /\ publisher = "declare"
    /\ request = [j \in Jobs |-> "none"]
    /\ wire = {} /\ ready = {}
    /\ unacked = [c \in Consumers |-> {}]
    /\ open = [c \in Consumers |-> TRUE]
    /\ phase = [c \in Consumers |-> "declare"]
    /\ buffer = [c \in Consumers |-> {}]
    /\ current = [c \in Consumers |-> NoJob]
    /\ cancelled = [c \in Consumers |-> FALSE]
    /\ acked = {} /\ dead = {} /\ dropped = {} /\ failed = {}
    /\ sends = [j \in Jobs |-> 0]
    /\ losses = 0

----------------------------------------------------------------------------
(***************************************************************************)
(* Start-up: both sides declare the whole topology, one call after another. *)
(***************************************************************************)

\* Mutant: only the consumers bind the queue.
DeclareUnbound(s) ==
    /\ declared[s] < Len(Declaration)
    /\ declared' = [declared EXCEPT ![s] = @ + 1]
    /\ entities' = entities \cup ({Declaration[declared[s] + 1]} \
                                  (IF s = "api" THEN {"binding"} ELSE {}))

\* The next call of Declare; declaring what exists changes nothing.
Declare(s) ==
    /\ declared[s] < Len(Declaration)
    /\ declared' = [declared EXCEPT ![s] = @ + 1]
    /\ entities' = entities \cup {Declaration[declared[s] + 1]}

Declared(s) == declared[s] = Len(Declaration)

DeclareAPI ==
    /\ publisher = "declare"
    /\ Declare("api")
    /\ UNCHANGED <<producer, ready, unacked, client, ended, failed, sends, losses>>

NewPublisher ==
    /\ publisher = "declare"
    /\ Declared("api")
    /\ publisher' = "up"
    /\ UNCHANGED <<topology, request, wire, ready, unacked, client, ended, failed, sends,
                   losses>>

DeclareConsumer(c) ==
    /\ phase[c] = "declare"
    /\ Declare(c)
    /\ UNCHANGED <<producer, ready, unacked, client, ended, failed, sends, losses>>

\* NewConsumer and Consume have succeeded: Run is in its select.
NewConsumer(c) ==
    /\ phase[c] = "declare"
    /\ Declared(c)
    /\ phase' = [phase EXCEPT ![c] = "select"]
    /\ UNCHANGED <<topology, producer, ready, unacked, open, buffer, current, cancelled,
                   ended, failed, sends, losses>>

----------------------------------------------------------------------------
(***************************************************************************)
(* The API.                                                                *)
(***************************************************************************)

\* Publish returns nil once the frames are written; the confirmation that
\* Confirm(false) asks for is never read.
Publish(j) ==
    /\ request[j] = "none"
    /\ publisher = "up"
    /\ request' = [request EXCEPT ![j] = "published"]
    /\ wire' = wire \cup {j}
    /\ UNCHANGED <<topology, publisher, ready, unacked, client, ended, failed, sends,
                   losses>>

\* queueEmail without a notifier returns at once, and one whose channel is
\* closed gets an error that is printed: the email is not sent.
SkipEmail(j) ==
    /\ request[j] = "none"
    /\ publisher = "off"
    /\ request' = [request EXCEPT ![j] = "skipped"]
    /\ UNCHANGED <<topology, publisher, wire, ready, unacked, client, ended, failed,
                   sends, losses>>

\* The broker routes a job to the queue bound to the exchange, if there is one.
Route(j) ==
    /\ j \in wire
    /\ wire' = wire \ {j}
    /\ IF {"exchange", "queue", "binding"} \subseteq entities
         THEN ready' = ready \cup {j} /\ UNCHANGED dropped
         ELSE dropped' = dropped \cup {j} /\ UNCHANGED ready
    /\ UNCHANGED <<topology, publisher, request, unacked, client, acked, dead, failed,
                   sends, losses>>

\* Mutant: the API declares the queue exclusive, which goes with its connection.
PublisherLostExclusive ==
    /\ "connection" \in Faults
    /\ publisher # "off"
    /\ losses < MaxLosses
    /\ losses' = losses + 1
    /\ publisher' = "off"
    /\ wire' = {} /\ ready' = {}
    /\ UNCHANGED <<topology, request, unacked, client, ended, failed, sends>>

\* The API cannot connect, declare, or loses its connection; it never connects
\* again.  What the broker has not read by then may be lost.
PublisherLost ==
    /\ "connection" \in Faults
    /\ publisher # "off"
    /\ losses < MaxLosses
    /\ losses' = losses + 1
    /\ publisher' = "off"
    /\ wire' \in SUBSET wire
    /\ UNCHANGED <<topology, request, ready, unacked, client, ended, failed, sends>>

----------------------------------------------------------------------------
(***************************************************************************)
(* A consumer.                                                             *)
(***************************************************************************)

Subscribed(c) == open[c] /\ phase[c] \notin {"declare", "returned", "down"}

\* Mutant: Consume with autoAck.
DeliverAutoAck(c, j) ==
    /\ Subscribed(c)
    /\ j \in ready
    /\ ready' = ready \ {j}
    /\ acked' = acked \cup {j}
    /\ buffer' = [buffer EXCEPT ![c] = @ \cup {j}]
    /\ UNCHANGED <<topology, producer, unacked, open, phase, current, cancelled, dead,
                   dropped, failed, sends, losses>>

\* The broker hands out a job, no more than Prefetch of them unacked.
Deliver(c, j) ==
    /\ Subscribed(c)
    /\ j \in ready
    /\ Cardinality(unacked[c]) < Prefetch
    /\ ready' = ready \ {j}
    /\ unacked' = [unacked EXCEPT ![c] = @ \cup {j}]
    /\ buffer' = [buffer EXCEPT ![c] = @ \cup {j}]
    /\ UNCHANGED <<topology, producer, open, phase, current, cancelled, ended, failed,
                   sends, losses>>

\* case d, ok := <-deliveries; the select may choose it although ctx is done.
Take(c, j) ==
    /\ phase[c] = "select"
    /\ j \in buffer[c]
    /\ buffer' = [buffer EXCEPT ![c] = @ \ {j}]
    /\ current' = [current EXCEPT ![c] = j]
    /\ phase' = [phase EXCEPT ![c] = "handle"]
    /\ UNCHANGED <<topology, producer, ready, unacked, open, cancelled, ended, failed,
                   sends, losses>>

\* Mutant: the handler is called again after it has succeeded.
HandleSendsAgain(c) ==
    /\ phase[c] = "handle"
    /\ sends' = [sends EXCEPT ![current[c]] = @ + 1]
    /\ phase' \in {phase, [phase EXCEPT ![c] = "ack"]}
    /\ UNCHANGED <<topology, producer, ready, unacked, open, buffer, current, cancelled,
                   ended, failed, losses>>

\* sendTransactional finds the contact and sends the email.
HandleSends(c) ==
    /\ phase[c] = "handle"
    /\ sends' = [sends EXCEPT ![current[c]] = @ + 1]
    /\ phase' = [phase EXCEPT ![c] = "ack"]
    /\ UNCHANGED <<topology, producer, ready, unacked, open, buffer, current, cancelled,
                   ended, failed, losses>>

\* GetUserContact fails, by itself or because ctx is cancelled.
HandleFails(c) ==
    /\ phase[c] = "handle"
    /\ "contact" \in Faults \/ cancelled[c]
    /\ failed' = failed \cup {current[c]}
    /\ phase' = [phase EXCEPT ![c] = "nack"]
    /\ UNCHANGED <<topology, producer, ready, unacked, open, buffer, current, cancelled,
                   ended, sends, losses>>

\* Back to the select.
Settled(c) ==
    /\ current' = [current EXCEPT ![c] = NoJob]
    /\ phase' = [phase EXCEPT ![c] = "select"]

\* d.Ack(false); its error on a channel that has ended is ignored.
Ack(c) ==
    /\ phase[c] = "ack"
    /\ Settled(c)
    /\ acked' = acked \cup (unacked[c] \cap {current[c]})
    /\ unacked' = [unacked EXCEPT ![c] = @ \ {current[c]}]
    /\ UNCHANGED <<topology, producer, ready, open, buffer, cancelled, dead, dropped,
                   failed, sends, losses>>

\* Mutant: Nack(false, true), straight back into the queue.
NackRequeues(c) ==
    /\ phase[c] = "nack"
    /\ Settled(c)
    /\ ready' = ready \cup (unacked[c] \cap {current[c]})
    /\ unacked' = [unacked EXCEPT ![c] = @ \ {current[c]}]
    /\ UNCHANGED <<topology, producer, open, buffer, cancelled, ended, failed, sends,
                   losses>>

\* d.Nack(false, false): through the dead-letter exchange to the queue bound
\* to it, if there is one.
Nack(c) ==
    /\ phase[c] = "nack"
    /\ Settled(c)
    /\ LET rejected == unacked[c] \cap {current[c]} IN
         IF {"dlx", "dead queue", "dead binding"} \subseteq entities
           THEN dead' = dead \cup rejected /\ UNCHANGED dropped
           ELSE dropped' = dropped \cup rejected /\ UNCHANGED dead
    /\ unacked' = [unacked EXCEPT ![c] = @ \ {current[c]}]
    /\ UNCHANGED <<topology, producer, ready, open, buffer, cancelled, acked, failed,
                   sends, losses>>

\* c's channel ends: the broker makes its unacked deliveries ready again.
Requeue(c) ==
    /\ open' = [open EXCEPT ![c] = FALSE]
    /\ ready' = ready \cup unacked[c]
    /\ unacked' = [unacked EXCEPT ![c] = {}]

\* case <-ctx.Done(): return c.channel.Close().
CtxDone(c) ==
    /\ phase[c] = "select"
    /\ cancelled[c]
    /\ Requeue(c)
    /\ phase' = [phase EXCEPT ![c] = "returned"]
    /\ buffer' = [buffer EXCEPT ![c] = {}]
    /\ UNCHANGED <<topology, producer, current, cancelled, ended, failed, sends, losses>>

\* The deliveries channel is closed: Run returns nil.  main keeps serving
\* gRPC and does not subscribe again.
DeliveriesClosed(c) ==
    /\ phase[c] = "select"
    /\ ~open[c]
    /\ phase' = [phase EXCEPT ![c] = "returned"]
    /\ buffer' = [buffer EXCEPT ![c] = {}]
    /\ UNCHANGED <<topology, producer, ready, unacked, open, current, cancelled, ended,
                   failed, sends, losses>>

----------------------------------------------------------------------------
(***************************************************************************)
(* Failures.                                                               *)
(***************************************************************************)

\* The consumer's connection breaks.  While it declares, main exits.
ConnectionLost(c) ==
    /\ "connection" \in Faults
    /\ open[c] /\ phase[c] \notin {"returned", "down"}
    /\ losses < MaxLosses
    /\ losses' = losses + 1
    /\ Requeue(c)
    /\ phase' = [phase EXCEPT ![c] = IF @ = "declare" THEN "down" ELSE @]
    /\ UNCHANGED <<topology, producer, buffer, current, cancelled, ended, failed, sends>>

\* SIGTERM: main calls cancel().
Shutdown(c) ==
    /\ "shutdown" \in Faults
    /\ phase[c] \notin {"declare", "down"}
    /\ ~cancelled[c]
    /\ losses < MaxLosses
    /\ losses' = losses + 1
    /\ cancelled' = [cancelled EXCEPT ![c] = TRUE]
    /\ UNCHANGED <<topology, producer, ready, unacked, open, phase, buffer, current,
                   ended, failed, sends>>

Gone(c) ==
    /\ Requeue(c)
    /\ phase' = [phase EXCEPT ![c] = "down"]
    /\ buffer' = [buffer EXCEPT ![c] = {}]
    /\ current' = [current EXCEPT ![c] = NoJob]
    /\ cancelled' = [cancelled EXCEPT ![c] = FALSE]

\* main returns after the shutdown, wherever Run is by then.
Exit(c) ==
    /\ cancelled[c]
    /\ Gone(c)
    /\ UNCHANGED <<topology, producer, ended, failed, sends, losses>>

Crash(c) ==
    /\ "crash" \in Faults
    /\ phase[c] # "down"
    /\ losses < MaxLosses
    /\ losses' = losses + 1
    /\ Gone(c)
    /\ UNCHANGED <<topology, producer, ended, failed, sends>>

\* The process is started again.
Restart(c) ==
    /\ phase[c] = "down"
    /\ phase' = [phase EXCEPT ![c] = "declare"]
    /\ open' = [open EXCEPT ![c] = TRUE]
    /\ declared' = [declared EXCEPT ![c] = 0]
    /\ UNCHANGED <<entities, producer, ready, unacked, buffer, current, cancelled, ended,
                   failed, sends, losses>>

----------------------------------------------------------------------------

Start(c) == DeclareConsumer(c) \/ NewConsumer(c)
Run(c) ==
    \/ \E j \in Jobs : Deliver(c, j) \/ Take(c, j)
    \/ HandleSends(c) \/ HandleFails(c) \/ Ack(c) \/ Nack(c)
    \/ CtxDone(c) \/ DeliveriesClosed(c)
API == DeclareAPI \/ NewPublisher \/ \E j \in Jobs : Publish(j) \/ SkipEmail(j)

\* Every request is made and every job settled or beyond reach.
Quiet ==
    /\ \A j \in Jobs : request[j] # "none"
    /\ wire = {}
    /\ \A c \in Consumers :
         \/ phase[c] = "returned" /\ ~cancelled[c]
         \/ phase[c] = "select" /\ open[c] /\ buffer[c] = {} /\ ~cancelled[c] /\ ready = {}
    /\ UNCHANGED vars

Next ==
    \/ API
    \/ \E j \in Jobs : Route(j)
    \/ \E c \in Consumers : Start(c) \/ Run(c)
    \/ PublisherLost
    \/ \E c \in Consumers :
         ConnectionLost(c) \/ Shutdown(c) \/ Exit(c) \/ Crash(c) \/ Restart(c)
    \/ Quiet

Spec == Init /\ [][Next]_vars

\* The consumers and the broker keep going; nothing need fail.
Fairness ==
    /\ \A j \in Jobs : WF_vars(Route(j))
    /\ \A c \in Consumers : WF_vars(Start(c)) /\ WF_vars(Run(c))

FairSpec == Spec /\ Fairness

----------------------------------------------------------------------------
(***************************************************************************)
(* Properties.                                                             *)
(***************************************************************************)

\* rabbitmq.go: "either side booting first is safe".  A job the broker has
\* read is in exactly one place, ready, unacked at one consumer, acknowledged
\* or dead-lettered, in whatever order the sides declare, fail and restart;
\* none is dropped for want of a queue or a dead-letter queue.
JobsConserved ==
    /\ dropped = {}
    /\ \A j \in Jobs :
         LET places == {p \in {<<"wire", wire>>, <<"ready", ready>>, <<"acked", acked>>,
                               <<"dead", dead>>}
                              \cup {<<c, unacked[c]>> : c \in Consumers} : j \in p[2]}
         IN /\ Cardinality(places) <= 1
            /\ publisher # "off" /\ request[j] = "published" => places # {}

\* A job leaves the queue for good only after its email was sent, and gets to
\* the dead-letter queue only after a handler failed on it.
SettledForAReason ==
    /\ \A j \in acked : sends[j] > 0
    /\ dead \subseteq failed

\* An email is sent more than once only if a channel ended between a delivery
\* and its acknowledgement, at most one extra time for each that did.
DuplicatesCostALoss == \A j \in Jobs : sends[j] <= 1 + losses

\* Jobs that are on the wire, ready or unacked make up the pool of JobPool.
Pool == INSTANCE JobPool WITH
    accepted <- {j \in Jobs : request[j] = "published"},
    pool <- wire \cup ready \cup UNION {unacked[c] : c \in Consumers}

\* The queue implements JobPool: whatever is redelivered, a settled job never
\* comes back, and one that a handler has seen is never lost.
ImplementsJobPool == Pool!Spec

\* As long as one replica stays subscribed, every job that reached the queue
\* is acknowledged or dead-lettered, also the ones other replicas give back.
QueueDrains ==
    \A c \in Consumers : \A j \in Jobs :
        <>[]Subscribed(c) => (j \in ready ~> j \in acked \cup dead)

============================================================================
