------------------------ MODULE EventConsumerProofs ------------------------
(***************************************************************************)
(* Proofs about the Kafka consumer, for any number of workers, messages,   *)
(* errors, crashes and rebalances and any queue depth.                     *)
(*                                                                         *)
(* The argument follows a message through the process.  What the fetch     *)
(* loop, the channel and the workers hold comes from the partition         *)
(* (Fetched); a worker that is about to commit has handled its message     *)
(* (PhasesOK); and as long as nothing but the fetching has failed,         *)
(* whatever was fetched is handled or still in the process (NothingLost),  *)
(* which is empty once Run has returned.                                   *)
(*                                                                         *)
(* A second layer on top of it bounds what a commit can skip.              *)
(*                                                                         *)
(* The last section is about the circuit breakers of SearchPath, one of    *)
(* which this consumer's handler in search-indexer shares with the         *)
(* searches; for any number of searches and any ReadyToTrip.               *)
(***************************************************************************)
EXTENDS EventConsumer, SearchPath, SequenceTheorems, FiniteSetTheorems, TLAPS

Slots == 1 .. Len(jobs)

\* The process holds only messages of the partition.
Fetched ==
    /\ \A i \in Slots : jobs[i] <= published
    /\ \A w \in Workers : job[w] <= published
    /\ fetched <= published

\* What the fetch loop and the workers hold where they are.
PhasesOK ==
    /\ position <= published + 1 /\ committed <= published
    /\ fetched # 0 <=> loop = "send"
    /\ closed <=> loop \in {"drain", "returned"}
    /\ \A w \in Workers :
          /\ job[w] # 0 <=> worker[w] \in {"handle", "commit"}
          /\ worker[w] = "commit" => job[w] \in handled
          /\ worker[w] \in {"exit", "gone"} => closed /\ jobs = <<>>
          /\ loop = "returned" => worker[w] = "gone"

\* No failure but the one that ended the fetching.
OnlyFetchFailed ==
    /\ ~cancelled /\ resumes = 0
    /\ errors = IF closed THEN 1 ELSE 0

Held(o) ==
    \/ fetched = o
    \/ \E i \in Slots : jobs[i] = o
    \/ \E w \in Workers : job[w] = o
Kept(o) == o \in handled \/ Held(o)

\* Fetching stops for an error or a cancellation; without another failure no
\* message that was fetched is lost.
NothingLost ==
    /\ closed /\ ~cancelled => errors >= 1
    /\ OnlyFetchFailed => \A o \in 1 .. position - 1 : Kept(o)

ConsumerInv == TypeOK /\ Fetched /\ PhasesOK /\ CommittedWasHandled /\ NothingLost

----------------------------------------------------------------------------
(***************************************************************************)
(* The channel.                                                            *)
(***************************************************************************)

\* What jobs <- msg does to the channel.
LEMMA SendFacts ==
    ASSUME jobs \in Seq(Offsets), NEW o \in Offsets
    PROVE  /\ Append(jobs, o) \in Seq(Offsets)
           /\ Len(Append(jobs, o)) = Len(jobs) + 1
           /\ \A i \in Slots : Append(jobs, o)[i] = jobs[i]
           /\ Append(jobs, o)[Len(jobs) + 1] = o
           /\ Len(jobs) \in Nat
BY AppendProperties, LenProperties DEF Slots

\* What a worker's receive does to it.
LEMMA ReceiveFacts ==
    ASSUME jobs \in Seq(Offsets), jobs # <<>>
    PROVE  /\ Head(jobs) = jobs[1] /\ 1 \in Slots
           /\ Tail(jobs) \in Seq(Offsets)
           /\ Len(Tail(jobs)) = Len(jobs) - 1
           /\ \A i \in 1 .. Len(Tail(jobs)) : Tail(jobs)[i] = jobs[i + 1]
           /\ Len(jobs) \in Nat \ {0}
<1>1. Len(jobs) \in Nat \ {0}
  BY EmptySeq
<1>2. Head(jobs) = jobs[1]
  OBVIOUS
<1> QED  BY <1>1, <1>2, HeadTailProperties DEF Slots

\* The channel holds offsets.
LEMMA SlotTyped ==
    ASSUME jobs \in Seq(Offsets)
    PROVE  /\ Len(jobs) \in Nat
           /\ \A i \in Slots : jobs[i] \in Offsets
           /\ jobs = <<>> <=> Slots = {}
<1>1. Len(jobs) \in Nat
  BY LenProperties
<1>2. \A i \in Slots : jobs[i] \in Offsets
  BY ElementOfSeq DEF Slots
<1>3. jobs # <<>> => Len(jobs) \in Nat \ {0}
  BY EmptySeq
<1>4. jobs = <<>> => Len(jobs) = 0
  BY EmptySeq
<1> QED  BY <1>1, <1>2, <1>3, <1>4 DEF Slots

----------------------------------------------------------------------------
(***************************************************************************)
(* The invariant is inductive.                                             *)
(***************************************************************************)

\* Every variable keeps its type.
LEMMA TypeStep ==
    ASSUME ConsumerInv, [Next]_vars
    PROVE  TypeOK'
<1> USE ConsumerAssumption DEF TypeOK, ConsumerInv, procVars, dataVars
<1>0. errors \in 0 .. MaxErrors /\ \A k : Error(k) => errors' \in 0 .. MaxErrors
  BY DEF Error
<1>1. CASE Publish
  BY <1>1 DEF Publish
<1>2. CASE Fetch
  BY <1>2 DEF Fetch, PhasesOK
<1>3. CASE FetchStops
  BY <1>0, <1>3 DEF FetchStops
<1>4. CASE Send
  <2>1. fetched \in Offsets
    BY <1>4 DEF Send, PhasesOK, Offsets
  <2> QED  BY <1>4, <2>1, SendFacts DEF Send
<1>5. CASE SendCancelled
  BY <1>5 DEF SendCancelled
<1>6. CASE Return
  BY <1>6 DEF Return
<1>7. ASSUME NEW w \in Workers, AwaitWorker(w) PROVE TypeOK'
  BY <1>7 DEF AwaitWorker
<1>8. ASSUME NEW w \in Workers, Take(w) PROVE TypeOK'
  <2>1. Head(jobs) \in 0 .. MaxMessages
    BY <1>8, ReceiveFacts, SlotTyped DEF Take, Offsets
  <2>2. Tail(jobs) \in Seq(Offsets) /\ Len(Tail(jobs)) <= QueueDepth
    BY <1>8, ReceiveFacts DEF Take
  <2> QED  BY <1>8, <2>1, <2>2 DEF Take
<1>9. ASSUME NEW w \in Workers, Handle(w) PROVE TypeOK'
  <2>1. job[w] \in Offsets
    BY <1>9 DEF Handle, PhasesOK, Offsets
  <2> QED  BY <1>9, <2>1 DEF Handle
<1>10. ASSUME NEW w \in Workers, CommitMessages(w) PROVE TypeOK'
  BY <1>10 DEF CommitMessages, Release
<1>11. ASSUME NEW w \in Workers, WorkerExits(w) PROVE TypeOK'
  BY <1>11 DEF WorkerExits
<1>12. ASSUME NEW w \in Workers, HandleFails(w) PROVE TypeOK'
  BY <1>0, <1>12 DEF HandleFails, Release
<1>13. ASSUME NEW w \in Workers, CommitFails(w) PROVE TypeOK'
  BY <1>0, <1>13 DEF CommitFails, Release
<1>14. CASE Cancel
  BY <1>14 DEF Cancel
<1>15. CASE Restart
  <2>1. <<>> \in Seq(Offsets) /\ Len(<<>>) = 0
    BY EmptySeq
  <2>2. worker' \in [Workers -> {"idle", "handle", "commit", "exit", "gone"}]
    BY <1>15 DEF Restart
  <2>3. job' \in [Workers -> 0 .. MaxMessages]
    BY <1>15 DEF Restart
  <2>4. jobs' \in Seq(Offsets) /\ Len(jobs') <= QueueDepth
    BY <1>15, <2>1 DEF Restart
  <2>5. closed' \in BOOLEAN /\ cancelled' \in BOOLEAN
    BY <1>15 DEF Restart
  <2>6. /\ UNCHANGED <<published, committed, handled, errors>> /\ fetched' = 0
        /\ position' \in 1 .. MaxMessages + 1 /\ resumes' \in 0 .. MaxResumes
        /\ loop' = "fetch"
    BY <1>15 DEF Restart
  <2> QED  BY <2>2, <2>3, <2>4, <2>5, <2>6
<1>16. CASE Idle \/ UNCHANGED vars
  BY <1>16 DEF Idle, vars
<1>17. CASE Rebalance
  BY <1>17 DEF Rebalance
<1> QED
  BY <1>1, <1>2, <1>3, <1>4, <1>5, <1>6, <1>7, <1>8, <1>9, <1>10, <1>11, <1>12, <1>13,
     <1>14, <1>15, <1>16, <1>17
     DEF Next, FetchLoop, Work, Fail

\* Only Fetch brings in a message, which is in the partition; Send and Take move
\* one.
LEMMA FetchedStep ==
    ASSUME ConsumerInv, [Next]_vars
    PROVE  Fetched'
<1>0. /\ Len(jobs) \in Nat /\ \A i \in Slots : jobs[i] \in Nat
      /\ published \in Nat /\ published' \in Nat /\ published <= published'
      /\ fetched \in Nat /\ job \in [Workers -> Nat]
  <2>1. published \in Nat /\ published' \in Nat
    BY TypeStep, ConsumerAssumption DEF ConsumerInv, TypeOK
  <2>2. published' = published \/ published' = published + 1
    BY DEF Next, FetchLoop, Work, Fail, Publish, Fetch, FetchStops, Send, SendCancelled,
           Return, AwaitWorker, Take, Handle, CommitMessages, WorkerExits, HandleFails,
           CommitFails, Cancel, Restart, Rebalance, Idle, vars
  <2> QED
    BY <2>1, <2>2, ConsumerAssumption, SlotTyped DEF ConsumerInv, TypeOK, Offsets
<1>a. Fetched
  BY DEF ConsumerInv
<1>1. ASSUME fetched' \in {0, fetched}, UNCHANGED <<jobs, job>> PROVE Fetched'
  BY <1>0, <1>1, <1>a DEF Fetched, Slots
<1>2. CASE Fetch
  BY <1>0, <1>2, <1>a DEF Fetch, Fetched, Slots
<1>3. CASE Send
  <2>1. fetched \in Offsets
    BY <1>3, ConsumerAssumption DEF Send, ConsumerInv, TypeOK, PhasesOK, Offsets
  <2>2. /\ Len(jobs') = Len(jobs) + 1
        /\ \A i \in Slots : jobs'[i] = jobs[i]
        /\ jobs'[Len(jobs) + 1] = fetched
    BY <1>3, <2>1, SendFacts DEF Send, ConsumerInv, TypeOK
  <2>3. \A i \in Slots' : i \in Slots \/ i = Len(jobs) + 1
    BY <1>0, <2>2 DEF Slots
  <2>4. UNCHANGED <<published, job>> /\ fetched' = 0
    BY <1>3 DEF Send
  <2> QED  BY <1>0, <1>a, <2>2, <2>3, <2>4 DEF Fetched
<1>4. ASSUME NEW w \in Workers, Take(w) PROVE Fetched'
  <2>1. jobs \in Seq(Offsets) /\ jobs # <<>>
    BY <1>4 DEF Take, ConsumerInv, TypeOK
  <2>2. /\ Len(jobs') = Len(jobs) - 1
        /\ \A i \in Slots' : jobs'[i] = jobs[i + 1]
        /\ 1 \in Slots /\ job' = [job EXCEPT ![w] = jobs[1]]
    BY <1>4, <2>1, ReceiveFacts DEF Take, Slots
  <2>3. \A i \in Slots' : i + 1 \in Slots
    BY <1>0, <2>2 DEF Slots
  <2>4. UNCHANGED <<published, fetched>>
    BY <1>4 DEF Take
  <2> QED  BY <1>0, <1>a, <2>2, <2>3, <2>4 DEF Fetched
<1>5. ASSUME NEW w \in Workers, Release(w), UNCHANGED <<fetched, jobs>>
      PROVE  Fetched'
  BY <1>0, <1>5, <1>a DEF Release, Fetched, Slots
<1>6. CASE Restart
  <2>1. fetched' = 0 /\ Slots' = {} /\ \A v \in Workers : job'[v] = 0
    BY <1>6, EmptySeq DEF Restart, Slots
  <2> QED  BY <1>0, <2>1 DEF Fetched
<1> QED
  BY <1>1, <1>2, <1>3, <1>4, <1>5, <1>6
     DEF Next, FetchLoop, Work, Fail, Publish, FetchStops, SendCancelled, Return,
         AwaitWorker, Handle, CommitMessages, WorkerExits, HandleFails, CommitFails,
         Cancel, Rebalance, Idle, vars, procVars

\* The fetch loop and the workers hold what their places say.
LEMMA PhasesStep ==
    ASSUME ConsumerInv, [Next]_vars
    PROVE  PhasesOK'
<1> USE ConsumerAssumption DEF procVars, dataVars
<1>0. TypeOK /\ PhasesOK /\ CommittedWasHandled
  BY DEF ConsumerInv
<1>1. CASE Publish \/ Cancel \/ Idle \/ UNCHANGED vars
  BY <1>0, <1>1 DEF Publish, Cancel, Idle, vars, TypeOK, PhasesOK
<1>2. CASE Fetch
  BY <1>0, <1>2 DEF Fetch, TypeOK, PhasesOK
<1>3. CASE FetchStops
  BY <1>0, <1>3 DEF FetchStops, TypeOK, PhasesOK
<1>4. CASE Send
  BY <1>0, <1>4 DEF Send, TypeOK, PhasesOK
<1>5. CASE SendCancelled
  BY <1>0, <1>5 DEF SendCancelled, TypeOK, PhasesOK
<1>6. CASE Return
  BY <1>0, <1>6 DEF Return, TypeOK, PhasesOK
<1>7. ASSUME NEW w \in Workers, AwaitWorker(w) PROVE PhasesOK'
  BY <1>0, <1>7 DEF AwaitWorker, TypeOK, PhasesOK
<1>8. ASSUME NEW w \in Workers, Take(w) PROVE PhasesOK'
  <2>1. Head(jobs) # 0
    BY <1>0, <1>8, ReceiveFacts, SlotTyped DEF Take, TypeOK, Offsets
  <2> QED  BY <1>0, <1>8, <2>1 DEF Take, TypeOK, PhasesOK
<1>9. ASSUME NEW w \in Workers, Handle(w) PROVE PhasesOK'
  BY <1>0, <1>9 DEF Handle, TypeOK, PhasesOK
<1>10. ASSUME NEW w \in Workers, CommitMessages(w) PROVE PhasesOK'
  BY <1>0, <1>10 DEF CommitMessages, Release, TypeOK, PhasesOK, ConsumerInv, Fetched
<1>11. ASSUME NEW w \in Workers, WorkerExits(w) PROVE PhasesOK'
  BY <1>0, <1>11 DEF WorkerExits, TypeOK, PhasesOK
<1>12. ASSUME NEW w \in Workers, HandleFails(w) PROVE PhasesOK'
  BY <1>0, <1>12 DEF HandleFails, Release, TypeOK, PhasesOK
<1>13. ASSUME NEW w \in Workers, CommitFails(w) PROVE PhasesOK'
  BY <1>0, <1>13 DEF CommitFails, Release, TypeOK, PhasesOK, ConsumerInv, Fetched
<1>14. CASE Restart
  BY <1>0, <1>14 DEF Restart, TypeOK, PhasesOK
<1>15. CASE Rebalance
  BY <1>0, <1>15 DEF Rebalance, TypeOK, PhasesOK
<1> QED
  BY <1>1, <1>2, <1>3, <1>4, <1>5, <1>6, <1>7, <1>8, <1>9, <1>10, <1>11, <1>12, <1>13,
     <1>14, <1>15
     DEF Next, FetchLoop, Work, Fail

\* Only a worker that has handled its message moves the committed offset.
LEMMA CommittedStep ==
    ASSUME ConsumerInv, [Next]_vars
    PROVE  CommittedWasHandled'
<1>1. handled \subseteq handled'
  BY DEF Next, FetchLoop, Work, Fail, Publish, Fetch, FetchStops, Send, SendCancelled,
         Return, AwaitWorker, Take, Handle, CommitMessages, WorkerExits, HandleFails,
         CommitFails, Cancel, Restart, Rebalance, Idle, vars, dataVars
<1>2. \/ UNCHANGED committed
      \/ \E w \in Workers : worker[w] = "commit" /\ committed' \in {committed, job[w]}
  BY DEF Next, FetchLoop, Work, Fail, Publish, Fetch, FetchStops, Send, SendCancelled,
         Return, AwaitWorker, Take, Handle, CommitMessages, WorkerExits, HandleFails,
         CommitFails, Cancel, Restart, Rebalance, Idle, vars, dataVars
<1> QED  BY <1>1, <1>2 DEF ConsumerInv, PhasesOK, CommittedWasHandled

\* A message moves from the fetch loop to the channel and to a worker, and is
\* handled; a running process drops one only where its handler fails.
LEMMA OnlyFailuresDrop ==
    ASSUME ConsumerInv, [Next]_vars, ~cancelled', resumes' = 0,
           NEW o \in 1 .. position' - 1
    PROVE  \/ Kept(o)'
           \/ o \in 1 .. position - 1 /\ ~Kept(o)
           \/ \E w \in Workers : HandleFails(w) /\ o = job[w]
<1> USE ConsumerAssumption DEF procVars, dataVars
<1>0. /\ Len(jobs) \in Nat /\ jobs \in Seq(Offsets)
      /\ position \in Nat \ {0} /\ resumes \in Nat
      /\ job \in [Workers -> 0 .. MaxMessages]
      /\ PhasesOK
  BY SlotTyped DEF ConsumerInv, TypeOK
<1>1. CASE UNCHANGED <<position, fetched, jobs, job>> /\ handled \subseteq handled'
  BY <1>1 DEF Kept, Held, Slots
<1>2. CASE Fetch
  <2>1. /\ position' = position + 1 /\ fetched' = position /\ fetched = 0
        /\ UNCHANGED <<jobs, job, handled>>
    BY <1>0, <1>2 DEF Fetch, PhasesOK
  <2>2. CASE o = position
    BY <2>1, <2>2 DEF Kept, Held
  <2>3. CASE o # position
    <3>1. o \in 1 .. position - 1
      BY <1>0, <2>1, <2>3
    <3> QED  BY <2>1, <3>1 DEF Kept, Held, Slots
  <2> QED  BY <2>2, <2>3
<1>3. CASE Send
  <2>1. fetched \in Offsets
    BY <1>3 DEF Send, ConsumerInv, TypeOK, PhasesOK, Offsets
  <2>2. /\ Len(jobs') = Len(jobs) + 1
        /\ \A i \in Slots : jobs'[i] = jobs[i]
        /\ jobs'[Len(jobs) + 1] = fetched
    BY <1>0, <1>3, <2>1, SendFacts DEF Send
  <2>3. /\ \A i \in Slots : i \in Slots'
        /\ Len(jobs) + 1 \in Slots'
    BY <1>0, <2>2 DEF Slots
  <2>4. UNCHANGED <<position, job, handled>>
    BY <1>3 DEF Send
  <2> QED  BY <2>2, <2>3, <2>4 DEF Kept, Held
<1>4. ASSUME NEW w \in Workers, Take(w)
      PROVE  Kept(o)' \/ (o \in 1 .. position - 1 /\ ~Kept(o))
  <2>1. /\ Len(jobs') = Len(jobs) - 1
        /\ \A i \in Slots' : jobs'[i] = jobs[i + 1]
        /\ 1 \in Slots /\ job' = [job EXCEPT ![w] = jobs[1]]
    BY <1>0, <1>4, ReceiveFacts DEF Take, Slots
  <2>2. \A i \in Slots : i # 1 => i - 1 \in Slots' /\ (i - 1) + 1 = i
    BY <1>0, <2>1 DEF Slots
  <2>3. UNCHANGED <<position, fetched, handled>> /\ job[w] = 0
    BY <1>0, <1>4 DEF Take, PhasesOK
  <2>4. ASSUME Held(o) PROVE Held(o)'
    <3>1. CASE fetched = o
      BY <2>3, <3>1 DEF Held
    <3>2. ASSUME NEW i \in Slots, jobs[i] = o PROVE Held(o)'
      <4>1. CASE i = 1
        <5>1. job'[w] = o
          BY <1>0, <2>1, <3>2, <4>1
        <5> QED  BY <5>1 DEF Held
      <4>2. CASE i # 1
        <5>1. i - 1 \in Slots' /\ jobs'[i - 1] = o
          BY <2>1, <2>2, <3>2, <4>2
        <5> QED  BY <5>1 DEF Held
      <4> QED  BY <4>1, <4>2
    <3>3. ASSUME NEW v \in Workers, job[v] = o PROVE Held(o)'
      <4>1. job'[v] = o
        BY <1>0, <2>1, <2>3, <3>3
      <4> QED  BY <4>1 DEF Held
    <3> QED  BY <2>4, <3>1, <3>2, <3>3 DEF Held
  <2> QED  BY <2>3, <2>4 DEF Kept
<1>5. ASSUME NEW w \in Workers, CommitMessages(w) \/ CommitFails(w) \/ HandleFails(w)
      PROVE  \/ Kept(o)' \/ (o \in 1 .. position - 1 /\ ~Kept(o))
             \/ HandleFails(w) /\ o = job[w]
  <2>1. /\ UNCHANGED <<position, fetched, jobs, handled>>
        /\ job' = [job EXCEPT ![w] = 0]
        /\ job[w] \in handled \/ HandleFails(w)
    BY <1>0, <1>5 DEF CommitMessages, CommitFails, HandleFails, Release, PhasesOK
  <2>2. Held(o) => o = job[w] \/ Held(o)'
    BY <1>0, <2>1 DEF Held, Slots
  <2> QED  BY <2>1, <2>2 DEF Kept
<1>6. ~SendCancelled /\ ~Cancel /\ ~Restart /\ ~Rebalance
  BY <1>0 DEF SendCancelled, Cancel, Restart, Rebalance
<1> QED
  BY <1>1, <1>2, <1>3, <1>4, <1>5, <1>6
     DEF Next, FetchLoop, Work, Fail, Publish, FetchStops, Return, AwaitWorker, Handle,
         WorkerExits, Idle, vars

\* A running process counts every failure, the one that ends the fetching too.
LEMMA FailuresCounted ==
    ASSUME ConsumerInv, [Next]_vars, ~cancelled', ~Restart, ~Rebalance
    PROVE  /\ ~cancelled /\ resumes' = resumes /\ errors \in Nat
           /\ \/ errors' = errors /\ closed' = closed /\ \A w \in Workers : ~HandleFails(w)
              \/ errors' = errors + 1 /\ closed' = closed
              \/ /\ errors' = errors + 1 /\ ~closed /\ closed'
                 /\ \A w \in Workers : ~HandleFails(w)
<1>0. errors \in Nat /\ closed \in BOOLEAN /\ PhasesOK
  BY ConsumerAssumption DEF ConsumerInv, TypeOK
<1>1. ~SendCancelled /\ ~Cancel
  BY DEF SendCancelled, Cancel
<1>2. ~cancelled /\ resumes' = resumes
  BY <1>1 DEF Next, FetchLoop, Work, Fail, Publish, Fetch, FetchStops, Send, Return,
         AwaitWorker, Take, Handle, CommitMessages, WorkerExits, HandleFails, CommitFails,
         Idle, vars, procVars
<1>3. \A k : Error(k) => errors' = errors + 1
  BY <1>2 DEF Error
<1>4. \A w \in Workers : HandleFails(w) => errors' = errors + 1 /\ closed' = closed
  BY <1>3 DEF HandleFails
<1>5. CASE FetchStops
  BY <1>0, <1>2, <1>3, <1>4, <1>5 DEF FetchStops, PhasesOK
<1>6. ASSUME NEW w \in Workers, Fail(w) PROVE errors' = errors + 1 /\ closed' = closed
  BY <1>3, <1>6 DEF Fail, HandleFails, CommitFails
<1>7. \/ UNCHANGED <<errors, closed>> \/ FetchStops \/ \E w \in Workers : Fail(w)
  BY <1>1 DEF Next, FetchLoop, Work, Publish, Fetch, Send, Return, AwaitWorker, Take,
         Handle, CommitMessages, WorkerExits, Idle, vars, procVars
<1> QED  BY <1>0, <1>2, <1>4, <1>5, <1>6, <1>7

\* Nothing that was fetched is lost as long as only the fetching has failed.
LEMMA NothingLostStep ==
    ASSUME ConsumerInv, [Next]_vars
    PROVE  NothingLost'
<1>0. /\ NothingLost /\ resumes \in Nat
      /\ closed \in BOOLEAN /\ closed' \in BOOLEAN
  BY TypeStep, ConsumerAssumption DEF ConsumerInv, TypeOK
<1>1. CASE cancelled'
  BY <1>1 DEF NothingLost, OnlyFetchFailed
<1>2. CASE Restart \/ Rebalance
  BY <1>0, <1>2 DEF Restart, Rebalance, NothingLost, OnlyFetchFailed
<1>3. ASSUME ~cancelled', ~Restart, ~Rebalance PROVE NothingLost'
  <2>1. /\ closed => errors >= 1
        /\ OnlyFetchFailed => \A o \in 1 .. position - 1 : Kept(o)
    BY <1>0, <1>3, FailuresCounted DEF NothingLost
  <2>2. closed' => errors' >= 1
    <3>1. \/ errors' = errors /\ closed' = closed
          \/ errors' = errors + 1
      BY <1>3, FailuresCounted
    <3>2. errors \in Nat
      BY <1>3, FailuresCounted
    <3>3. CASE errors' = errors + 1
      BY <3>2, <3>3
    <3>4. CASE errors' = errors /\ closed' = closed
      BY <2>1, <3>4
    <3> QED  BY <3>1, <3>3, <3>4
  <2>3. ASSUME OnlyFetchFailed'
        PROVE  OnlyFetchFailed /\ \A w \in Workers : ~HandleFails(w)
    <3>1. /\ ~cancelled /\ resumes = 0 /\ errors \in Nat
          /\ errors' = IF closed' THEN 1 ELSE 0
      BY <1>3, <2>3, FailuresCounted DEF OnlyFetchFailed
    <3>2. CASE errors' = errors /\ closed' = closed /\ \A w \in Workers : ~HandleFails(w)
      BY <3>1, <3>2 DEF OnlyFetchFailed
    <3>3. CASE errors' = errors + 1 /\ closed' = closed
      BY <1>0, <2>1, <3>1, <3>3
    <3>4. CASE /\ errors' = errors + 1 /\ ~closed /\ closed'
               /\ \A w \in Workers : ~HandleFails(w)
      BY <3>1, <3>4 DEF OnlyFetchFailed
    <3> QED  BY <1>3, <3>2, <3>3, <3>4, FailuresCounted
  <2>4. ASSUME OnlyFetchFailed', NEW o \in 1 .. position' - 1 PROVE Kept(o)'
    <3>1. resumes' = 0
      BY <2>4 DEF OnlyFetchFailed
    <3> QED  BY <1>3, <2>1, <2>3, <2>4, <3>1, OnlyFailuresDrop
  <2> QED  BY <2>2, <2>4 DEF NothingLost
<1> QED  BY <1>1, <1>2, <1>3

----------------------------------------------------------------------------
(***************************************************************************)
(* Theorems.                                                               *)
(***************************************************************************)

LEMMA ConsumerInvariant == Spec => []ConsumerInv
<1>1. Init => ConsumerInv
  <2> SUFFICES ASSUME Init PROVE ConsumerInv
    OBVIOUS
  <2>1. jobs \in Seq(Offsets) /\ Len(jobs) = 0 /\ Slots = {}
    BY EmptySeq DEF Init, Slots
  <2>2. TypeOK
    <3>1. /\ worker \in [Workers -> {"idle", "handle", "commit", "exit", "gone"}]
          /\ job \in [Workers -> 0 .. MaxMessages]
      BY ConsumerAssumption DEF Init
    <3>2. closed \in BOOLEAN /\ cancelled \in BOOLEAN
      BY DEF Init
    <3>3. /\ published = 0 /\ position = 1 /\ loop = "fetch" /\ fetched = 0
          /\ committed = 0 /\ handled = {} /\ errors = 0 /\ resumes = 0
      BY DEF Init
    <3> QED  BY <2>1, <3>1, <3>2, <3>3, ConsumerAssumption DEF TypeOK
  <2>3. Fetched
    BY <2>1 DEF Init, Fetched
  <2>4. PhasesOK
    <3>1. \A w \in Workers : worker[w] = "idle" /\ job[w] = 0
      BY DEF Init
    <3>2. ~closed /\ loop = "fetch" /\ fetched = 0 /\ position = 1 /\ published = 0
          /\ committed = 0
      BY DEF Init
    <3> QED  BY <3>1, <3>2 DEF PhasesOK
  <2>5. NothingLost
    BY DEF Init, NothingLost
  <2>6. CommittedWasHandled
    BY DEF Init, CommittedWasHandled
  <2> QED  BY <2>2, <2>3, <2>4, <2>5, <2>6 DEF ConsumerInv
<1>2. ConsumerInv /\ [Next]_vars => ConsumerInv'
  BY TypeStep, FetchedStep, PhasesStep, CommittedStep, NothingLostStep DEF ConsumerInv
<1> QED  BY <1>1, <1>2, PTL DEF Spec

\* The variables of the consumer keep their types; in particular the channel never
\* holds more than QueueDepth messages.
THEOREM TypeCorrect == Spec => []TypeOK
BY ConsumerInvariant, PTL DEF ConsumerInv

\* CommitMessages only ever stores the offset of a message whose handler
\* returned nil, whatever the workers, the errors, crashes and rebalances do.
THEOREM CommittedWasHandledHolds == Spec => []CommittedWasHandled
BY ConsumerInvariant, PTL DEF ConsumerInv

\* If a fetch error ends Run and nothing else fails, everything that was fetched
\* has been handled when Run returns.
THEOREM FetchErrorDrainsHolds == Spec => []FetchErrorDrains
<1>1. ConsumerInv => FetchErrorDrains
  <2> SUFFICES ASSUME ConsumerInv, loop = "returned", ~cancelled, errors = 1, resumes = 0,
                      NEW o \in 1 .. position - 1
               PROVE  o \in handled
    BY DEF FetchErrorDrains
  <2>1. PICK w \in Workers : worker[w] = "gone"
    BY ConsumerAssumption DEF ConsumerInv, PhasesOK
  <2>2. closed /\ jobs = <<>> /\ fetched = 0
    BY <2>1 DEF ConsumerInv, PhasesOK
  <2>3. Slots = {}
    BY <2>2, SlotTyped DEF ConsumerInv, TypeOK
  <2>4. \A v \in Workers : job[v] = 0
    BY DEF ConsumerInv, PhasesOK
  <2>5. position \in Nat
    BY ConsumerAssumption DEF ConsumerInv, TypeOK
  <2>6. ~Held(o)
    BY <2>2, <2>3, <2>4, <2>5 DEF Held
  <2> QED  BY <2>2, <2>6 DEF ConsumerInv, NothingLost, OnlyFetchFailed, Kept
<1> QED  BY <1>1, ConsumerInvariant, PTL

----------------------------------------------------------------------------
(***************************************************************************)
(* What a crash may cost.  The workers take messages in order and commit   *)
(* them out of order, so that the committed offset runs ahead of messages  *)
(* other workers still hold, but never of one in the channel (Ordered).    *)
(* The worker that committed last holds none below the committed offset    *)
(* (FreeHand), and every message that is neither handled nor in the        *)
(* process is one whose handler failed (FewMissing).  All of it is about a *)
(* reader that has not started over yet.                                   *)
(***************************************************************************)

InOrder ==
    /\ committed < position /\ fetched < position
    /\ \A i \in Slots : jobs[i] < position
    /\ \A w \in Workers : job[w] < position
    /\ \A i, j \in Slots : i < j => jobs[i] < jobs[j]
    /\ \A i \in Slots : committed < jobs[i] /\ \A w \in Workers : job[w] < jobs[i]
    /\ fetched # 0 =>
          /\ committed < fetched
          /\ \A i \in Slots : jobs[i] < fetched
          /\ \A w \in Workers : job[w] < fetched

Ordered == resumes = 0 => InOrder

FreeHand == resumes = 0 /\ committed # 0 => \E w \in Workers : job[w] = 0 \/ job[w] > committed

Missing == {o \in 1 .. position - 1 : ~Kept(o)}
FewMissing == ~cancelled /\ resumes = 0 => Cardinality(Missing) <= errors

LossInv == ConsumerInv /\ Ordered /\ FreeHand /\ FewMissing

\* What leaves the fetch loop goes to the end of the channel, and what a worker
\* takes comes from its front.
LEMMA OrderedStep ==
    ASSUME ConsumerInv, Ordered, [Next]_vars
    PROVE  Ordered'
<1> SUFFICES ASSUME resumes' = 0 PROVE InOrder'
  BY DEF Ordered
<1>r. resumes = 0 /\ ~Restart /\ ~Rebalance
  <2>1. resumes \in Nat
    BY ConsumerAssumption DEF ConsumerInv, TypeOK
  <2>2. ~Restart /\ ~Rebalance
    BY <2>1 DEF Restart, Rebalance
  <2>3. UNCHANGED resumes
    BY <2>2 DEF Next, FetchLoop, Work, Fail, Publish, Fetch, FetchStops, Send,
       SendCancelled, Return, AwaitWorker, Take, Handle, CommitMessages, WorkerExits,
       HandleFails, CommitFails, Cancel, Idle, vars
  <2> QED  BY <2>2, <2>3
<1>o. InOrder
  BY <1>r DEF Ordered
<1>0. /\ Len(jobs) \in Nat /\ \A i \in Slots : jobs[i] \in Nat
      /\ position \in Nat \ {0} /\ fetched \in Nat /\ committed \in Nat
      /\ job \in [Workers -> Nat]
      /\ InOrder
  BY <1>o, ConsumerAssumption, SlotTyped DEF ConsumerInv, TypeOK, Offsets
<1>1. ASSUME UNCHANGED <<position, fetched, jobs, job, committed>> PROVE InOrder'
  BY <1>o, <1>1 DEF InOrder, Slots
<1>2. CASE Fetch
  BY <1>0, <1>2 DEF Fetch, InOrder, Slots, dataVars
<1>3. CASE Send
  <2>1. fetched \in Offsets
    BY <1>3, ConsumerAssumption DEF Send, ConsumerInv, TypeOK, PhasesOK, Offsets
  <2>2. /\ Len(jobs') = Len(jobs) + 1
        /\ \A i \in Slots : jobs'[i] = jobs[i]
        /\ jobs'[Len(jobs) + 1] = fetched
    BY <1>3, <2>1, SendFacts DEF Send, ConsumerInv, TypeOK
  <2>3. \A i \in Slots' : i \in Slots \/ i = Len(jobs) + 1
    BY <1>0, <2>2 DEF Slots
  <2>4. \A i, j \in Slots' : i < j => i \in Slots
    BY <1>0, <2>2 DEF Slots
  <2>5. UNCHANGED <<position, job, committed>> /\ fetched' = 0 /\ fetched # 0
    BY <1>3, <2>1 DEF Send, Offsets, dataVars
  <2> QED  BY <1>o, <1>0, <2>2, <2>3, <2>4, <2>5 DEF InOrder
<1>4. CASE SendCancelled
  BY <1>0, <1>4 DEF SendCancelled, InOrder, Slots, dataVars
<1>5. ASSUME NEW w \in Workers, Take(w) PROVE InOrder'
  <2>1. jobs \in Seq(Offsets) /\ jobs # <<>>
    BY <1>5 DEF Take, ConsumerInv, TypeOK
  <2>2. /\ Len(jobs') = Len(jobs) - 1
        /\ \A i \in Slots' : jobs'[i] = jobs[i + 1]
        /\ 1 \in Slots /\ job' = [job EXCEPT ![w] = jobs[1]]
    BY <1>5, <2>1, ReceiveFacts DEF Take, Slots
  <2>3. /\ \A i \in Slots' : i + 1 \in Slots /\ 1 < i + 1
        /\ \A i, j \in Slots' : i < j => i + 1 < j + 1
    BY <1>0, <2>2 DEF Slots
  <2>4. UNCHANGED <<position, fetched, committed>>
    BY <1>5 DEF Take, dataVars
  <2>5. \A v \in Workers : job'[v] = job[v] \/ job'[v] = jobs[1]
    BY <1>0, <2>2
  <2>6. \A i \in Slots' : committed' < jobs'[i] /\ \A v \in Workers : job'[v] < jobs'[i]
    BY <1>o, <2>2, <2>3, <2>4, <2>5 DEF InOrder
  <2>7. \A i, j \in Slots' : i < j => jobs'[i] < jobs'[j]
    BY <1>o, <2>2, <2>3 DEF InOrder
  <2>8. fetched' # 0 => /\ committed' < fetched'
                        /\ \A i \in Slots' : jobs'[i] < fetched'
                        /\ \A v \in Workers : job'[v] < fetched'
    BY <1>o, <2>2, <2>3, <2>4, <2>5 DEF InOrder
  <2>9. /\ committed' < position' /\ fetched' < position'
        /\ \A i \in Slots' : jobs'[i] < position'
        /\ \A v \in Workers : job'[v] < position'
    BY <1>o, <2>2, <2>3, <2>4, <2>5 DEF InOrder
  <2> QED  BY <2>6, <2>7, <2>8, <2>9 DEF InOrder
<1>6. ASSUME NEW w \in Workers, Release(w), committed' \in {committed, job[w]},
             UNCHANGED <<position, fetched, jobs>>
      PROVE  InOrder'
  <2>1. \A v \in Workers : job'[v] = job[v] \/ job'[v] = 0
    BY <1>0, <1>6 DEF Release
  <2>2. job[w] < position
    BY <1>o, <1>0 DEF InOrder
  <2>3. \A i \in Slots : 0 < jobs[i]
    BY SlotTyped, ConsumerAssumption DEF ConsumerInv, TypeOK, Offsets
  <2>4. job[w] \in Nat /\ Slots' = Slots
    BY <1>0, <1>6 DEF Slots
  <2>5. committed' < position' /\ \A i \in Slots' : committed' < jobs'[i]
    BY <1>o, <1>6, <2>2, <2>4 DEF InOrder
  <2>6. /\ \A i \in Slots', v \in Workers : job'[v] < jobs'[i]
        /\ \A i, j \in Slots' : i < j => jobs'[i] < jobs'[j]
    BY <1>o, <1>6, <2>1, <2>3, <2>4 DEF InOrder
  <2>7. fetched' # 0 => /\ committed' < fetched'
                        /\ \A i \in Slots' : jobs'[i] < fetched'
                        /\ \A v \in Workers : job'[v] < fetched'
    BY <1>o, <1>0, <1>6, <2>1, <2>4 DEF InOrder
  <2>8. /\ fetched' < position' /\ \A i \in Slots' : jobs'[i] < position'
        /\ \A v \in Workers : job'[v] < position'
    BY <1>0, <1>6, <2>1, <2>4 DEF InOrder
  <2> QED  BY <2>5, <2>6, <2>7, <2>8 DEF InOrder
<1> QED
  BY <1>1, <1>2, <1>3, <1>4, <1>5, <1>6, <1>r
     DEF Next, FetchLoop, Work, Fail, Publish, FetchStops, Return, AwaitWorker, Handle,
         CommitMessages, WorkerExits, HandleFails, CommitFails, Cancel, Idle, vars,
         procVars, dataVars

\* A worker that commits has put its message down; one that takes a message takes
\* one above the committed offset.
LEMMA FreeHandStep ==
    ASSUME ConsumerInv, Ordered, FreeHand, [Next]_vars
    PROVE  FreeHand'
<1>0. job \in [Workers -> 0 .. MaxMessages] /\ resumes \in Nat
  BY ConsumerAssumption DEF ConsumerInv, TypeOK
<1>1. CASE UNCHANGED <<committed, job, resumes>>
  BY <1>1 DEF FreeHand
<1>2. ASSUME NEW w \in Workers, Take(w) PROVE FreeHand'
  <2>1. resumes = 0 => job'[w] > committed
    BY <1>0, <1>2, ReceiveFacts DEF Take, ConsumerInv, TypeOK, Ordered, InOrder
  <2>2. committed' = committed /\ resumes' = resumes
    BY <1>2 DEF Take, dataVars
  <2> QED  BY <2>1, <2>2 DEF FreeHand
<1>3. ASSUME NEW w \in Workers, Release(w) PROVE FreeHand'
  BY <1>0, <1>3 DEF Release, FreeHand
<1>4. CASE Restart \/ Rebalance
  BY <1>0, <1>4 DEF Restart, Rebalance, FreeHand
<1> QED
  BY <1>1, <1>2, <1>3, <1>4
     DEF Next, FetchLoop, Work, Fail, Publish, Fetch, FetchStops, Send, SendCancelled,
         Return, AwaitWorker, Handle, CommitMessages, WorkerExits, HandleFails,
         CommitFails, Cancel, Idle, vars, procVars, dataVars

\* The fetched messages are finitely many.
LEMMA MissingFinite ==
    ASSUME TypeOK
    PROVE  IsFiniteSet(Missing) /\ Cardinality(Missing) \in Nat
<1>1. position - 1 \in Int
  BY ConsumerAssumption DEF TypeOK
<1>2. IsFiniteSet(1 .. position - 1) /\ Missing \in SUBSET (1 .. position - 1)
  BY <1>1, FS_Interval DEF Missing
<1> QED  BY <1>2, FS_Subset, FS_CardinalityType

\* Each handler error adds at most the message of its worker.
LEMMA FewMissingStep ==
    ASSUME ConsumerInv, FewMissing, [Next]_vars
    PROVE  FewMissing'
<1> SUFFICES ASSUME ~cancelled', resumes' = 0
             PROVE  Cardinality(Missing') <= errors'
  BY DEF FewMissing
<1>0. IsFiniteSet(Missing) /\ Cardinality(Missing) \in Nat
  BY MissingFinite DEF ConsumerInv
<1>1. ~Restart /\ ~Rebalance
  BY ConsumerAssumption DEF Restart, Rebalance, ConsumerInv, TypeOK
<1>2. /\ errors \in Nat /\ Cardinality(Missing) <= errors
      /\ errors' = errors + 1 \/ (errors' = errors /\ \A w \in Workers : ~HandleFails(w))
  BY <1>1, FailuresCounted DEF FewMissing
<1>3. CASE \A w \in Workers : ~HandleFails(w)
  <2>1. Missing' \in SUBSET Missing
    BY <1>3, OnlyFailuresDrop DEF Missing
  <2>2. Cardinality(Missing') <= Cardinality(Missing) /\ Cardinality(Missing') \in Nat
    BY <1>0, <2>1, FS_Subset, FS_CardinalityType
  <2> QED  BY <1>0, <1>2, <2>2
<1>4. ASSUME NEW w \in Workers, HandleFails(w)
      PROVE  Cardinality(Missing') <= errors'
  <2>1. \A v \in Workers : HandleFails(v) => v = w
    <3>1. \A v \in Workers : HandleFails(v) => job[v] # 0 /\ job'[v] = 0
      BY DEF HandleFails, Release, ConsumerInv, TypeOK, PhasesOK
    <3>2. \A v \in Workers : v # w => job'[v] = job[v]
      BY <1>4 DEF HandleFails, Release, ConsumerInv, TypeOK
    <3> QED  BY <3>1, <3>2
  <2>2. Missing' \in SUBSET (Missing \cup {job[w]})
    <3> SUFFICES ASSUME NEW o \in 1 .. position' - 1, ~Kept(o)'
                 PROVE  o \in Missing \cup {job[w]}
      BY DEF Missing
    <3>1. \/ o \in 1 .. position - 1 /\ ~Kept(o)
          \/ \E v \in Workers : HandleFails(v) /\ o = job[v]
      BY OnlyFailuresDrop
    <3> QED  BY <2>1, <3>1 DEF Missing
  <2>3. /\ IsFiniteSet(Missing \cup {job[w]})
        /\ Cardinality(Missing \cup {job[w]}) \in Nat
        /\ Cardinality(Missing \cup {job[w]}) <= Cardinality(Missing) + 1
    <3>1. /\ IsFiniteSet(Missing \cup {job[w]})
          /\ Cardinality(Missing \cup {job[w]}) =
                IF job[w] \in Missing THEN Cardinality(Missing) ELSE Cardinality(Missing) + 1
      BY <1>0, FS_AddElement, Zenon
    <3> QED  BY <1>0, <3>1
  <2>4. /\ Cardinality(Missing') <= Cardinality(Missing \cup {job[w]})
        /\ Cardinality(Missing') \in Nat
    BY <2>2, <2>3, FS_Subset, FS_CardinalityType
  <2>5. errors' = errors + 1
    BY <1>2, <1>4
  <2> QED  BY <1>0, <1>2, <2>3, <2>4, <2>5
<1> QED  BY <1>3, <1>4

\* What the committed offset covers without being handled is missing, or held by
\* a worker other than the one with the free hand.
LEMMA LossCounted ==
    ASSUME LossInv, ~cancelled, resumes = 0, committed # 0
    PROVE  Cardinality(1 .. committed \ handled) < Cardinality(Workers) + errors
<1>0. /\ committed \in Nat /\ position \in Nat /\ errors \in Nat
      /\ job \in [Workers -> 0 .. MaxMessages] /\ fetched \in Nat
      /\ \A i \in Slots : jobs[i] \in Nat
  BY ConsumerAssumption, SlotTyped DEF LossInv, ConsumerInv, TypeOK, Offsets
<1>1. PICK w \in Workers : job[w] = 0 \/ job[w] > committed
  BY DEF LossInv, FreeHand
<1> DEFINE Others == Workers \ {w}
           WithOthers == {job[v] : v \in Others}
           Lost == 1 .. committed \ handled
           f == [v \in Others |-> job[v]]
<1>2. Lost \subseteq Missing \cup WithOthers
  <2> SUFFICES ASSUME NEW o \in Lost, o \notin WithOthers PROVE o \in Missing
    OBVIOUS
  <2>1. o \in 1 .. position - 1 /\ o <= committed /\ o # 0 /\ o \notin handled
    BY <1>0 DEF LossInv, Ordered, InOrder
  <2>2. fetched # o /\ \A i \in Slots : jobs[i] # o
    BY <1>0, <2>1 DEF LossInv, Ordered, InOrder
  <2>3. \A v \in Workers : job[v] # o
    BY <1>0, <1>1, <2>1
  <2> QED  BY <2>1, <2>2, <2>3 DEF Missing, Kept, Held
<1>3. /\ IsFiniteSet(Others) /\ Cardinality(Workers) \in Nat
      /\ Cardinality(Others) = Cardinality(Workers) - 1
  BY ConsumerAssumption, FS_RemoveElement, FS_CardinalityType
<1>4. f \in Surjection(Others, WithOthers)
  BY DEF Surjection
<1>5. /\ IsFiniteSet(WithOthers) /\ Cardinality(WithOthers) <= Cardinality(Others)
      /\ Cardinality(WithOthers) \in Nat
  BY <1>3, <1>4, FS_Surjection, FS_CardinalityType
<1>6. /\ IsFiniteSet(Missing) /\ Cardinality(Missing) \in Nat
      /\ Cardinality(Missing) <= errors
  BY MissingFinite DEF LossInv, ConsumerInv, FewMissing
<1> HIDE DEF Others, WithOthers, Lost, f
<1>7. /\ IsFiniteSet(Missing \cup WithOthers)
      /\ Cardinality(Missing \cup WithOthers) \in Nat
      /\ Cardinality(Missing \cup WithOthers)
            <= Cardinality(Missing) + Cardinality(WithOthers)
  <2>1. Cardinality(Missing \cap WithOthers) \in Nat
    BY <1>6, FS_Intersection, FS_CardinalityType
  <2>2. /\ IsFiniteSet(Missing \cup WithOthers)
        /\ Cardinality(Missing \cup WithOthers)
              = Cardinality(Missing) + Cardinality(WithOthers)
                - Cardinality(Missing \cap WithOthers)
    BY <1>5, <1>6, FS_Union
  <2>3. Cardinality(Missing \cup WithOthers) \in Nat
    BY <2>2, FS_CardinalityType
  <2> QED  BY <1>5, <1>6, <2>1, <2>2, <2>3
<1>8. /\ Cardinality(Lost) <= Cardinality(Missing \cup WithOthers)
      /\ Cardinality(Lost) \in Nat
  <2>1. Lost \in SUBSET (Missing \cup WithOthers)
    BY <1>2
  <2>2. IsFiniteSet(Lost) /\ Cardinality(Lost) <= Cardinality(Missing \cup WithOthers)
    BY <1>7, <2>1, FS_Subset
  <2> QED  BY <2>2, FS_CardinalityType
<1>9. Cardinality(Lost) < Cardinality(Workers) + errors
  BY <1>0, <1>3, <1>5, <1>6, <1>7, <1>8
<1> QED  BY <1>9 DEF Lost

\* A crash costs at most one message for each other worker and one for each error:
\* no more of the messages the committed offset covers are unhandled.
THEOREM LossIsBoundedHolds == Spec => []LossIsBounded
<1>1. Init => Ordered /\ FreeHand /\ FewMissing
  <2> SUFFICES ASSUME Init PROVE Ordered /\ FreeHand /\ FewMissing
    OBVIOUS
  <2>1. /\ Slots = {} /\ committed = 0 /\ position = 1 /\ fetched = 0 /\ errors = 0
        /\ \A w \in Workers : job[w] = 0
    BY EmptySeq DEF Init, Slots
  <2>2. Missing = {}
    BY <2>1 DEF Missing
  <2> QED  BY <2>1, <2>2, FS_EmptySet DEF Ordered, InOrder, FreeHand, FewMissing
<1>2. /\ ConsumerInv /\ Ordered /\ FreeHand /\ FewMissing /\ [Next]_vars
      => Ordered' /\ FreeHand' /\ FewMissing'
  BY OrderedStep, FreeHandStep, FewMissingStep
<1>3. ConsumerInv /\ Ordered /\ FreeHand /\ FewMissing => LossIsBounded
  <2> SUFFICES ASSUME LossInv, ~cancelled, resumes = 0
               PROVE  Cardinality(1 .. committed \ handled) < Cardinality(Workers) + errors
    BY DEF LossInv, LossIsBounded
  <2>1. CASE committed = 0
    <3>1. 1 .. committed \ handled = {}
      BY <2>1
    <3>2. Cardinality(Workers) \in Nat /\ Cardinality(Workers) # 0 /\ errors \in Nat
      BY ConsumerAssumption, FS_EmptySet, FS_CardinalityType
         DEF LossInv, ConsumerInv, TypeOK
    <3> QED  BY <3>1, <3>2, FS_EmptySet
  <2> QED  BY <2>1, LossCounted
<1> QED  BY <1>1, <1>2, <1>3, ConsumerInvariant, PTL DEF Spec

----------------------------------------------------------------------------
(***************************************************************************)
(* The breakers on the search path.                                        *)
(***************************************************************************)

\* The breakers' part of the types, and everybody else's.
BreakerTypeOK ==
    /\ state \in [Breakers -> {"closed", "half-open", "open"}]
    /\ failures \in [Breakers -> 0 .. TripAt - 1]
    /\ trials \in [Breakers -> 0 .. MaxRequests]
    /\ inside \in [Breakers -> SUBSET Callers]

CallerTypeOK ==
    /\ up \in [Dependencies -> BOOLEAN]
    /\ pc \in [Callers -> {"idle", "execute", "rpc", "query", "delete", "return", "fallback"}]
    /\ gone \subseteq Searchers /\ expired \subseteq Searchers
    /\ result \in [Searchers -> Results]

LEMMA NewGenerationKeeps ==
    ASSUME BreakerTypeOK, NEW b \in Breakers, NEW to \in {"closed", "half-open", "open"},
           NewGeneration(b, to)
    PROVE  BreakerTypeOK'
BY SearchAssumption DEF BreakerTypeOK, NewGeneration, MaxRequests

LEMMA BeforeRequestKeeps ==
    ASSUME BreakerTypeOK, NEW b \in Breakers, NEW c \in Callers, BeforeRequest(b, c)
    PROVE  BreakerTypeOK'
BY DEF BreakerTypeOK, BeforeRequest, Allows, MaxRequests

LEMMA BreakerUntouched ==
    ASSUME BreakerTypeOK, UNCHANGED breaker
    PROVE  BreakerTypeOK'
BY DEF BreakerTypeOK, breaker

\* The failure that would make the count reach TripAt opens the breaker instead.
LEMMA AfterRequestKeeps ==
    ASSUME BreakerTypeOK, NEW b \in Breakers, NEW c \in Callers, NEW ok \in BOOLEAN,
           AfterRequest(b, c, ok)
    PROVE  BreakerTypeOK'
<1>1. CASE \E to \in {"closed", "half-open", "open"} : NewGeneration(b, to)
  BY <1>1, NewGenerationKeeps
<1>2. CASE /\ UNCHANGED <<state, trials>>
           /\ ok \/ ~ReadyToTrip(b)
           /\ inside' = [inside EXCEPT ![b] = @ \ {c}]
           /\ failures' = [failures EXCEPT ![b] = IF ok THEN 0 ELSE @ + 1]
  BY <1>2, SearchAssumption DEF BreakerTypeOK, ReadyToTrip
<1>3. CASE c \notin inside[b]
  BY <1>3, BreakerUntouched DEF AfterRequest
<1>4. CASE c \in inside[b] /\ state[b] = "half-open"
  BY <1>1, <1>4 DEF AfterRequest
<1>5. CASE c \in inside[b] /\ state[b] # "half-open"
  BY <1>1, <1>2, <1>5 DEF AfterRequest
<1> QED  BY <1>3, <1>4, <1>5

LEMMA BreakerStep ==
    ASSUME BreakerTypeOK, [SearchNext]_searchVars
    PROVE  BreakerTypeOK'
<1>0. Indexer \in Callers /\ \A s \in Searchers : s \in Callers
  BY DEF Callers
<1>1. ASSUME NEW s \in Searchers, Step(s) \/ Leave(s) \/ Expire(s) PROVE BreakerTypeOK'
  <2>1. CASE Search(s) \/ ExecuteRefused(s) \/ CallFails(s) \/ Fallback(s)
             \/ ServeRefused(s) \/ Leave(s) \/ Expire(s)
    BY <2>1, BreakerUntouched
       DEF Search, ExecuteRefused, CallFails, Fallback, ServeRefused, Leave, Expire
  <2>2. CASE Execute(s) \/ Serve(s)
    BY <1>0, <2>2, BeforeRequestKeeps DEF Execute, Serve, Breakers
  <2>3. CASE ExecuteReturns(s)
    <3>1. (result[s] = "ok") \in BOOLEAN
      OBVIOUS
    <3> QED  BY <1>0, <2>3, <3>1, AfterRequestKeeps DEF ExecuteReturns, Breakers
  <2>4. CASE Query(s)
    <3>1. PICK ok \in BOOLEAN : AfterRequest("elasticsearch", s, ok)
      BY <2>4 DEF Query
    <3> QED  BY <1>0, <3>1, AfterRequestKeeps DEF Breakers
  <2> QED  BY <1>1, <2>1, <2>2, <2>3, <2>4 DEF Step
<1>2. CASE Upsert \/ Delete
  BY <1>0, <1>2, BeforeRequestKeeps DEF Upsert, Delete, Write, Breakers
<1>3. CASE UpsertReturns
  <2>1. PICK ok \in BOOLEAN : ok <=> up["elasticsearch"]
    OBVIOUS
  <2>2. AfterRequest("elasticsearch", Indexer, ok)
    BY <1>3, <2>1 DEF UpsertReturns, AfterRequest
  <2> QED  BY <1>0, <2>2, AfterRequestKeeps DEF Breakers
<1>4. CASE DeleteReturns
  <2>1. PICK ok \in BOOLEAN : AfterRequest("elasticsearch", Indexer, ok)
    BY <1>4 DEF DeleteReturns
  <2> QED  BY <1>0, <2>1, AfterRequestKeeps DEF Breakers
<1>5. ASSUME NEW b \in Breakers, OpenTimeout(b) \/ IntervalEnds(b) PROVE BreakerTypeOK'
  BY <1>5, NewGenerationKeeps DEF OpenTimeout, IntervalEnds
<1>6. CASE (\E d \in Dependencies : Toggle(d)) \/ UNCHANGED searchVars
  BY <1>6, BreakerUntouched DEF Toggle, searchVars
<1> QED  BY <1>1, <1>2, <1>3, <1>4, <1>5, <1>6 DEF SearchNext

LEMMA CallersStep ==
    ASSUME CallerTypeOK, [SearchNext]_searchVars
    PROVE  CallerTypeOK'
<1> USE DEF CallerTypeOK, Goto, End, Callers, Results
<1>1. ASSUME NEW s \in Searchers, Step(s) PROVE CallerTypeOK'
  <2>1. CASE Search(s) \/ Execute(s) \/ ExecuteRefused(s) \/ CallFails(s)
    BY <2>1 DEF Search, Execute, ExecuteRefused, CallFails
  <2>2. CASE ExecuteReturns(s)
    BY <2>2 DEF ExecuteReturns
  <2>3. CASE Fallback(s)
    BY <2>3 DEF Fallback
  <2>4. CASE Serve(s) \/ ServeRefused(s) \/ Query(s)
    BY <2>4 DEF Serve, ServeRefused, Query
  <2> QED  BY <1>1, <2>1, <2>2, <2>3, <2>4 DEF Step
<1>2. ASSUME NEW s \in Searchers, Leave(s) \/ Expire(s) PROVE CallerTypeOK'
  BY <1>2 DEF Leave, Expire
<1>3. CASE Upsert \/ UpsertReturns \/ Delete \/ DeleteReturns
  BY <1>3 DEF Upsert, UpsertReturns, Delete, DeleteReturns, Write
<1>4. CASE \E b \in Breakers : OpenTimeout(b) \/ IntervalEnds(b)
  BY <1>4 DEF OpenTimeout, IntervalEnds
<1>5. CASE \E d \in Dependencies : Toggle(d)
  BY <1>5 DEF Toggle
<1>6. CASE UNCHANGED searchVars
  BY <1>6 DEF searchVars
<1> QED  BY <1>1, <1>2, <1>3, <1>4, <1>5, <1>6 DEF SearchNext

LEMMA SearchInvariant == SearchSpec => [](BreakerTypeOK /\ CallerTypeOK)
<1>1. SearchInit => BreakerTypeOK /\ CallerTypeOK
  BY SearchAssumption DEF SearchInit, BreakerTypeOK, CallerTypeOK, MaxRequests, Results
<1>2. BreakerTypeOK /\ CallerTypeOK /\ [SearchNext]_searchVars
        => (BreakerTypeOK /\ CallerTypeOK)'
  BY BreakerStep, CallersStep
<1> QED  BY <1>1, <1>2, PTL DEF SearchSpec

\* The variables of the search path keep their types; a breaker that is not
\* open has counted fewer than TripAt consecutive failures.
THEOREM SearchTypeCorrect == SearchSpec => []SearchTypeOK
<1>1. BreakerTypeOK /\ CallerTypeOK => SearchTypeOK
  BY DEF BreakerTypeOK, CallerTypeOK, SearchTypeOK
<1> QED  BY <1>1, SearchInvariant, PTL

\* A search is answered 500 only by a failing MySQL, after its client has left, or
\* after its 30 s: what the breakers refuse or the indexer fails on in time goes to
\* FallbackMySQL.
THEOREM DegradesNotFailsHolds == SearchSpec => DegradesNotFails
<1> DEFINE Excused ==
       \A s \in Searchers :
          result[s] # "500" /\ result'[s] = "500" => ~up["mysql"] \/ Done(s)
<1>1. CallerTypeOK /\ [SearchNext]_searchVars => [Excused]_searchVars
  <2> SUFFICES ASSUME CallerTypeOK, SearchNext, NEW t \in Searchers,
                      result[t] # "500", result'[t] = "500"
               PROVE  ~up["mysql"] \/ Done(t)
    OBVIOUS
  <2>0. result \in [Searchers -> Results] /\ ~UNCHANGED result
    BY DEF CallerTypeOK
  <2>1. PICK s \in Searchers : Step(s)
    BY <2>0 DEF SearchNext, Leave, Expire, Upsert, UpsertReturns, Delete, DeleteReturns,
                Write, OpenTimeout, IntervalEnds, Toggle
  <2>2. ASSUME NEW v \in {"none", "ok", "error"}, result' = [result EXCEPT ![s] = v]
        PROVE  FALSE
    BY <2>0, <2>2
  <2>3. CASE Fallback(s)
    <3>1. CASE up["mysql"] /\ ~Done(s) /\ End(s, 200)
      BY <2>2, <3>1 DEF End
    <3>2. CASE (~up["mysql"] \/ Done(s)) /\ End(s, 500)
      BY <2>0, <3>2 DEF End
    <3> QED  BY <2>3, <3>1, <3>2 DEF Fallback
  <2>4. CASE Query(s)
    BY <2>2, <2>4 DEF Query
  <2>5. CASE ExecuteReturns(s)
    <3>1. ~End(s, 200)
      BY <2>2 DEF End
    <3> QED  BY <2>0, <2>5, <3>1 DEF ExecuteReturns
  <2> QED  BY <2>0, <2>1, <2>2, <2>3, <2>4, <2>5
           DEF Step, Search, Execute, ExecuteRefused, CallFails, Serve, ServeRefused
<1>2. DegradesNotFails <=> [][Excused]_searchVars
  BY PTL DEF DegradesNotFails
<1> HIDE DEF Excused
<1> QED  BY <1>1, <1>2, SearchInvariant, PTL DEF SearchSpec

============================================================================
