--------------------------- MODULE EventConsumer ---------------------------
(***************************************************************************)
(* One partition of a Kafka topic, from KafkaProducer.Publish to the       *)
(* worker pool of Consumer.Run (internal/eventbus/kafka_consumer.go), as   *)
(* search-indexer runs it for booking.events and listing.events.           *)
(*                                                                         *)
(* A message is its offset, 1, 2, ...  The broker and the kafka.Reader are *)
(* external: FetchMessage returns the messages of the partition in order,  *)
(* starting after the group's committed offset when the process starts and *)
(* after each rebalance of the group, and CommitMessages(m) makes m's      *)
(* offset the committed one, whatever it was before.  What the Reader has  *)
(* read ahead into its own queue (QueueCapacity 100) waits there in order, *)
(* uncommitted, and is gone with the process or the rebalance: it counts   *)
(* as not fetched.                                                         *)
(***************************************************************************)
EXTENDS Integers, Sequences, FiniteSets

CONSTANTS
    Workers,      \* workerCount = 4 goroutines
    QueueDepth,   \* capacity of the channel jobs, 16
    MaxMessages,  \* bound on the messages published
    MaxErrors,    \* bound on the handler and commit errors
    MaxResumes,   \* bound on the crashes of the process and the rebalances
    Faults        \* which of FaultKinds may happen

\* FetchMessage, the handler or CommitMessages fails, SIGTERM cancels ctx.
FaultKinds == {"fetch", "handler", "commit", "cancel"}

ASSUME ConsumerAssumption ==
    /\ IsFiniteSet(Workers) /\ Workers # {}
    /\ QueueDepth \in Nat \ {0}
    /\ MaxMessages \in Nat /\ MaxErrors \in Nat /\ MaxResumes \in Nat
    /\ Faults \subseteq FaultKinds

VARIABLES
    published,  \* messages in the partition
    position,   \* offset FetchMessage returns next
    loop,       \* where the fetch loop is
    fetched,    \* the message it holds, 0 if none
    jobs,       \* the channel between the fetch loop and the workers
    closed,     \* close(jobs) was called
    worker,     \* where each worker is
    job,        \* the message each worker holds, 0 if none
    cancelled,  \* ctx is cancelled
    committed,  \* the group's committed offset, 0 if none
    handled,    \* messages whose handler returned nil
    errors,     \* errors so far
    resumes     \* how often the reader has started over after the committed offset

vars == <<published, position, loop, fetched, jobs, closed, worker, job, cancelled,
          committed, handled, errors, resumes>>
procVars == <<position, loop, fetched, jobs, closed, worker, job, cancelled>>
dataVars == <<committed, handled>>

Offsets == 1 .. MaxMessages

TypeOK ==
    /\ published \in 0 .. MaxMessages
    /\ position \in 1 .. MaxMessages + 1
    /\ loop \in {"fetch", "send", "drain", "returned"}
    /\ fetched \in 0 .. MaxMessages
    /\ jobs \in Seq(Offsets) /\ Len(jobs) <= QueueDepth
    /\ closed \in BOOLEAN
    /\ worker \in [Workers -> {"idle", "handle", "commit", "exit", "gone"}]
    /\ job \in [Workers -> 0 .. MaxMessages]
    /\ cancelled \in BOOLEAN
    /\ committed \in 0 .. MaxMessages
    /\ handled \subseteq Offsets
    /\ errors \in 0 .. MaxErrors
    /\ resumes \in 0 .. MaxResumes

Init ==
    /\ published = 0
    /\ position = 1
    /\ loop = "fetch"
    /\ fetched = 0
    /\ jobs = <<>>
    /\ closed = FALSE
    /\ worker = [w \in Workers |-> "idle"]
    /\ job = [w \in Workers |-> 0]
    /\ cancelled = FALSE
    /\ committed = 0
    /\ handled = {}
    /\ errors = 0
    /\ resumes = 0

----------------------------------------------------------------------------

\* A call fails because ctx is cancelled, or by itself, which is counted.
Error(kind) ==
    \/ cancelled /\ UNCHANGED errors
    \/ /\ kind \in Faults
       /\ errors < MaxErrors
       /\ errors' = errors + 1

\* KafkaProducer.Publish: the message is appended to the partition of its key.
Publish ==
    /\ published < MaxMessages
    /\ published' = published + 1
    /\ UNCHANGED <<procVars, dataVars, errors, resumes>>

\* Mutant: ReadMessage instead, which commits what it returns.
FetchCommits ==
    /\ loop = "fetch"
    /\ position <= published
    /\ fetched' = position
    /\ position' = position + 1
    /\ committed' = position
    /\ loop' = "send"
    /\ UNCHANGED <<published, jobs, closed, worker, job, cancelled, handled, errors,
                   resumes>>

\* FetchMessage returns a message; it may, even if ctx is cancelled meanwhile.
Fetch ==
    /\ loop = "fetch"
    /\ position <= published
    /\ fetched' = position
    /\ position' = position + 1
    /\ loop' = "send"
    /\ UNCHANGED <<published, jobs, closed, worker, job, cancelled, dataVars, errors,
                   resumes>>

\* Mutant: the jobs channel is not closed when fetching stops.
FetchStopsOpen ==
    /\ loop = "fetch"
    /\ Error("fetch")
    /\ loop' = "drain"
    /\ UNCHANGED <<published, position, fetched, jobs, closed, worker, job, cancelled,
                   dataVars, resumes>>

\* Mutant: Run returns the error without waiting for the workers.
FetchStopsAtOnce ==
    /\ loop = "fetch"
    /\ Error("fetch")
    /\ closed' = TRUE
    /\ loop' = "returned"
    /\ UNCHANGED <<published, position, fetched, jobs, worker, job, cancelled, dataVars,
                   resumes>>

\* FetchMessage returns an error: close(jobs) and wait for the workers.
FetchStops ==
    /\ loop = "fetch"
    /\ Error("fetch")
    /\ closed' = TRUE
    /\ loop' = "drain"
    /\ UNCHANGED <<published, position, fetched, jobs, worker, job, cancelled, dataVars,
                   resumes>>

\* jobs <- msg, which blocks while the channel is full.
Send ==
    /\ loop = "send"
    /\ Len(jobs) < QueueDepth
    /\ jobs' = Append(jobs, fetched)
    /\ fetched' = 0
    /\ loop' = "fetch"
    /\ UNCHANGED <<published, position, closed, worker, job, cancelled, dataVars,
                   errors, resumes>>

\* <-ctx.Done() instead: the fetched message is dropped.
SendCancelled ==
    /\ loop = "send"
    /\ cancelled
    /\ closed' = TRUE
    /\ fetched' = 0
    /\ loop' = "drain"
    /\ UNCHANGED <<published, position, jobs, worker, job, cancelled, dataVars, errors,
                   resumes>>

\* A worker's "for msg := range jobs".
Take(w) ==
    /\ worker[w] = "idle"
    /\ jobs # <<>>
    /\ job' = [job EXCEPT ![w] = Head(jobs)]
    /\ jobs' = Tail(jobs)
    /\ worker' = [worker EXCEPT ![w] = "handle"]
    /\ UNCHANGED <<published, position, loop, fetched, closed, cancelled, dataVars,
                   errors, resumes>>

\* The handler returns nil.
Handle(w) ==
    /\ worker[w] = "handle"
    /\ handled' = handled \cup {job[w]}
    /\ worker' = [worker EXCEPT ![w] = "commit"]
    /\ UNCHANGED <<published, position, loop, fetched, jobs, closed, job, cancelled,
                   committed, errors, resumes>>

\* The worker is done with its message and goes back to the channel.
Release(w) ==
    /\ job' = [job EXCEPT ![w] = 0]
    /\ worker' = [worker EXCEPT ![w] = "idle"]

\* The handler returns an error (the write may have reached Elasticsearch, or
\* its breaker refused it): logged, then continue, without a commit.
HandleFails(w) ==
    /\ worker[w] = "handle"
    /\ Error("handler")
    /\ Release(w)
    /\ UNCHANGED <<published, position, loop, fetched, jobs, closed, cancelled,
                   committed, handled, resumes>>

CommitMessages(w) ==
    /\ worker[w] = "commit"
    /\ committed' = job[w]
    /\ Release(w)
    /\ UNCHANGED <<published, position, loop, fetched, jobs, closed, cancelled,
                   handled, errors, resumes>>

\* A commit error is only logged; the broker may have stored the offset.
CommitFails(w) ==
    /\ worker[w] = "commit"
    /\ Error("commit")
    /\ committed' \in {committed, job[w]}
    /\ Release(w)
    /\ UNCHANGED <<published, position, loop, fetched, jobs, closed, cancelled,
                   handled, resumes>>

\* Mutant: a worker leaves as soon as the channel is empty.
WorkerExitsEarly(w) ==
    /\ worker[w] = "idle"
    /\ jobs = <<>>
    /\ worker' = [worker EXCEPT ![w] = "exit"]
    /\ UNCHANGED <<published, position, loop, fetched, jobs, closed, job, cancelled,
                   dataVars, errors, resumes>>

\* The channel is closed and empty: the worker leaves its loop and offers
\* done <- struct{}{}.
WorkerExits(w) ==
    /\ worker[w] = "idle"
    /\ jobs = <<>> /\ closed
    /\ worker' = [worker EXCEPT ![w] = "exit"]
    /\ UNCHANGED <<published, position, loop, fetched, jobs, closed, job, cancelled,
                   dataVars, errors, resumes>>

\* <-done in the fetch loop's shutdown.
AwaitWorker(w) ==
    /\ loop = "drain"
    /\ worker[w] = "exit"
    /\ worker' = [worker EXCEPT ![w] = "gone"]
    /\ UNCHANGED <<published, position, loop, fetched, jobs, closed, job, cancelled,
                   dataVars, errors, resumes>>

\* All workers have reported: Run returns and closes the reader.
Return ==
    /\ loop = "drain"
    /\ \A w \in Workers : worker[w] = "gone"
    /\ loop' = "returned"
    /\ UNCHANGED <<published, position, fetched, jobs, closed, worker, job, cancelled,
                   dataVars, errors, resumes>>

\* main calls cancel() on SIGTERM.
Cancel ==
    /\ "cancel" \in Faults
    /\ ~cancelled
    /\ cancelled' = TRUE
    /\ UNCHANGED <<published, position, loop, fetched, jobs, closed, worker, job,
                   dataVars, errors, resumes>>

\* The process dies, or ends after Run returned, and is started again: it
\* resumes after the committed offset.
Restart ==
    /\ resumes < MaxResumes
    /\ resumes' = resumes + 1
    /\ position' = committed + 1
    /\ loop' = "fetch"
    /\ fetched' = 0
    /\ jobs' = <<>>
    /\ closed' = FALSE
    /\ worker' = [w \in Workers |-> "idle"]
    /\ job' = [w \in Workers |-> 0]
    /\ cancelled' = FALSE
    /\ UNCHANGED <<published, dataVars, errors>>

\* The group rebalances and the partition comes back to this process: the
\* reader starts over after the committed offset, while the channel and the
\* workers keep what they have.
Rebalance ==
    /\ resumes < MaxResumes
    /\ resumes' = resumes + 1
    /\ loop # "returned"
    /\ position' = committed + 1
    /\ UNCHANGED <<published, loop, fetched, jobs, closed, worker, job, cancelled,
                   dataVars, errors>>

----------------------------------------------------------------------------

FetchLoop ==
    \/ Fetch \/ FetchStops \/ Send \/ SendCancelled \/ Return
    \/ \E w \in Workers : AwaitWorker(w)
Work(w) == Take(w) \/ Handle(w) \/ CommitMessages(w) \/ WorkerExits(w)
Fail(w) == HandleFails(w) \/ CommitFails(w)

\* Everything published is consumed, or the consumer has stopped.
Idle ==
    /\ published = MaxMessages
    /\ \/ loop = "returned"
       \/ loop = "fetch" /\ position > published /\ jobs = <<>>
          /\ \A w \in Workers : worker[w] = "idle"
    /\ UNCHANGED vars

Next ==
    \/ Publish
    \/ FetchLoop
    \/ \E w \in Workers : Work(w) \/ Fail(w)
    \/ Cancel
    \/ Restart
    \/ Rebalance
    \/ Idle

Spec == Init /\ [][Next]_vars

\* The goroutines run; messages already published are fetched; errors, signals
\* and crashes need not happen.
Fairness ==
    /\ WF_vars(Fetch \/ Send \/ Return \/ \E w \in Workers : AwaitWorker(w))
    /\ WF_vars(cancelled /\ (FetchStops \/ SendCancelled))
    /\ \A w \in Workers : WF_vars(Work(w))

FairSpec == Spec /\ Fairness

----------------------------------------------------------------------------
(***************************************************************************)
(* Properties.                                                             *)
(***************************************************************************)

\* The offset the group resumes from was committed for a message that was
\* really handled, however workers, errors, crashes and rebalances interleave.
CommittedWasHandled == committed # 0 => committed \in handled

\* What a crash may cost.  A commit also covers lower offsets, and a message whose
\* handler failed is not tried again: such messages are skipped once the group
\* resumes.  There are never more of them than one for each other worker and one
\* for each error, however full the channel is.
LossIsBounded ==
    ~cancelled /\ resumes = 0
        => Cardinality(1 .. committed \ handled) < Cardinality(Workers) + errors

\* As long as nothing fails, is cancelled or crashes, every published message
\* is handled, whatever the interleaving of the fetch loop and the workers and
\* however often the channel is full or empty.
Disturbed == errors > 0 \/ resumes > 0 \/ cancelled
EveryMessageHandled ==
    \A o \in Offsets : published >= o ~> (o \in handled \/ Disturbed)

\* A fetch error ends Run, and main goes on without a consumer; but whatever had
\* been fetched by then, in the channel or in a worker, is handled first.  (An
\* uncancelled Run only returns after a fetch error, so that errors = 1 means
\* that no handler or commit failed.)
FetchErrorDrains ==
    loop = "returned" /\ ~cancelled /\ errors = 1 /\ resumes = 0
        => 1 .. position - 1 \subseteq handled

\* A cancelled consumer drains and returns, unless the process is killed
\* first: the fetch loop and the workers do not wait for each other forever.
CancelledRunReturns == cancelled ~> (loop = "returned" \/ ~cancelled)

\* docs/adr/0002: "At-least-once delivery" of the Kafka stream; then every
\* published message would be handled in the end.  But a worker's commit also
\* covers lower offsets that other workers have not handled yet: a crash then
\* loses them.
AtLeastOnce == \A o \in Offsets : published >= o ~> o \in handled

============================================================================
