-------------------------- MODULE BookingLifecycle --------------------------
(***************************************************************************)
(* The life of one booking after it was created: the handlers Approve,     *)
(* Reject, Cancel, Activate, Complete (internal/booking/handler.go) and    *)
(* Dispute (internal/app/dispute.go), each running Service.transition and  *)
(* Repository.UpdateStatus.  UpdateStatus reads the status through         *)
(* Reader(), checks CanTransition, and writes the new status to the        *)
(* primary in a second round trip: other requests run in between, and the  *)
(* read may come from a replica that lags.                                 *)
(*                                                                         *)
(* history is every value the status column has had, in commit order; the  *)
(* replica has applied a prefix of it.                                     *)
(***************************************************************************)
EXTENDS Integers, Sequences, FiniteSets

CONSTANTS
    Callers,     \* concurrent transition requests for this booking
    HasReplica,  \* Reader() is a replica of the primary
    Faults       \* which failures of the environment may happen

FaultKinds == {"connection", "broker", "queue", "notifier", "mongo", "crash"}

ASSUME LifecycleAssumption ==
    /\ HasReplica \in BOOLEAN
    /\ Faults \subseteq FaultKinds

VARIABLES
    history,  \* values of bookings.status of the row, oldest first
    applied,  \* how many of them the replica has applied
    to,       \* the status each caller asks for
    pc,       \* where the caller's request is
    readAt,   \* version of the row UpdateStatus read, 0 before
    wroteAt,  \* version of the row after the UPDATE, 0 before
    shown,    \* version of the row the re-read returned, 0 before
    effects,  \* side effects performed
    reply     \* HTTP status answered, or "none"

vars == <<history, applied, to, pc, readAt, wroteAt, shown, effects, reply>>

Statuses == {"requested", "approved", "rejected", "active", "completed",
             "cancelled", "disputed"}
Targets == Statuses \ {"requested"}

PCs == {"start", "read", "write", "reread", "publish", "email", "sync",
        "respond", "done", "crashed"}
Effects == {"invalidate", "event", "email", "sync", "owner", "report"}
Replies == {"none", "200", "201", "400", "404", "409", "500"}

TypeOK ==
    /\ history \in Seq(Statuses) /\ Len(history) >= 1
    /\ applied \in 0 .. Len(history)
    /\ to \in [Callers -> Targets]
    /\ pc \in [Callers -> PCs]
    /\ readAt \in [Callers -> 0 .. Len(history)]
    /\ wroteAt \in [Callers -> 0 .. Len(history)]
    /\ shown \in [Callers -> 0 .. Len(history)]
    /\ effects \in [Callers -> SUBSET Effects]
    /\ reply \in [Callers -> Replies]

\* The booking is new, or was approved or activated earlier; the replica may
\* not have the row, or its latest status, yet.
Init ==
    /\ history \in {<<"requested">>, <<"requested", "approved">>,
                    <<"requested", "approved", "active">>}
    /\ applied \in 0 .. Len(history)
    /\ to \in [Callers -> Targets]
    /\ pc = [c \in Callers |-> "start"]
    /\ readAt = [c \in Callers |-> 0]
    /\ wroteAt = [c \in Callers |-> 0]
    /\ shown = [c \in Callers |-> 0]
    /\ effects = [c \in Callers |-> {}]
    /\ reply = [c \in Callers |-> "none"]

----------------------------------------------------------------------------

\* model.go: the statuses a booking may go to from s.  A status without an
\* entry in the map is terminal.
validTransitions ==
    [s \in Statuses |->
        IF s = "requested" THEN {"approved", "rejected", "cancelled"}
        ELSE IF s = "approved" THEN {"active", "cancelled"}
        ELSE IF s = "active" THEN {"completed", "disputed"}
        ELSE {}]

\* Mutant: only the terminal statuses are guarded, so steps can be skipped.
CanTransitionSkips(from, target) ==
    validTransitions[from] # {} /\ target # from

\* Mutant: a booking cannot be moved to where it is, but anywhere else.
CanTransitionAlways(from, target) == from # target

CanTransition(from, target) == target \in validTransitions[from]

Current == history[Len(history)]

\* The version a query through Reader() sees; 0 means no row.
ReaderVersion == IF HasReplica THEN applied ELSE Len(history)

\* emailTemplateFor: the transitions that send an email.
HasEmail(s) == s \in {"approved", "disputed"}

Answer(c, status) ==
    /\ reply' = [reply EXCEPT ![c] = status]
    /\ pc' = [pc EXCEPT ![c] = "done"]

Goto(c, label) ==
    /\ pc' = [pc EXCEPT ![c] = label]
    /\ UNCHANGED reply

\* The handler parses the id, and for a dispute the body.
Parse(c) ==
    /\ pc[c] = "start"
    /\ Goto(c, "read") \/ Answer(c, "400")
    /\ UNCHANGED <<history, applied, to, readAt, wroteAt, shown, effects>>

\* UpdateStatus, first half: GetByID through Reader() and CanTransition.
UpdateStatusRead(c) ==
    /\ pc[c] = "read"
    /\ readAt' = [readAt EXCEPT ![c] = ReaderVersion]
    /\ \/ ReaderVersion = 0 /\ Answer(c, "404")
       \/ /\ ReaderVersion # 0
          /\ IF CanTransition(history[ReaderVersion], to[c])
             THEN Goto(c, "write")
             ELSE Answer(c, "409")
    /\ UNCHANGED <<history, applied, to, wroteAt, shown, effects>>

\* UPDATE bookings SET status = ? WHERE id = ?.  An update to the value the
\* row already has writes nothing.
SetStatus(c) ==
    /\ history' = IF Current = to[c] THEN history ELSE Append(history, to[c])
    /\ wroteAt' = [wroteAt EXCEPT ![c] = Len(history')]

\* UpdateStatus, second half: the UPDATE on the primary, which does not look
\* at the status again.
UpdateStatusWrite(c) ==
    /\ pc[c] = "write"
    /\ SetStatus(c)
    /\ Goto(c, "reread")
    /\ UNCHANGED <<applied, to, readAt, shown, effects>>

\* Mutant: the events and emails go out although the UPDATE failed.
QueryFailsIgnored(c) ==
    /\ "connection" \in Faults
    /\ pc[c] = "write"
    /\ Goto(c, "publish")
    /\ UNCHANGED <<history, wroteAt, applied, to, readAt, shown, effects>>

\* transition re-reads the row, through Reader() again, which has it since
\* UpdateStatusRead found it there.  The status of the event, the owner's feed
\* and the answer is the one of this version: it may be older than the UPDATE,
\* when the replica is late, or another caller's newer one.
Reread(c) ==
    /\ pc[c] = "reread"
    /\ shown' = [shown EXCEPT ![c] = ReaderVersion]
    /\ Goto(c, "publish")
    /\ UNCHANGED <<history, applied, to, readAt, wroteAt, effects>>

\* One of the SQL statements fails; the UPDATE may have been executed or not.
QueryFails(c) ==
    /\ "connection" \in Faults
    /\ \/ pc[c] \in {"read", "write", "reread"} /\ UNCHANGED <<history, wroteAt>>
       \/ pc[c] = "write" /\ SetStatus(c)
    /\ Answer(c, "500")
    /\ UNCHANGED <<applied, to, readAt, shown, effects>>

\* Records that c performed some side effects, in program order.
Perform(c, done) == effects' = [effects EXCEPT ![c] = @ \cup done]

\* Evict the listing from the cache and publish the event of the transition;
\* a broker failure is only logged.
Publish(c) ==
    /\ pc[c] = "publish"
    /\ \/ Perform(c, {"invalidate", "event"})
       \/ "broker" \in Faults /\ Perform(c, {"invalidate"})
    /\ Goto(c, IF HasEmail(to[c]) THEN "email" ELSE "respond")
    /\ UNCHANGED <<history, applied, to, readAt, wroteAt, shown>>

\* queueEmail; a failure is only logged.
QueueEmail(c) ==
    /\ pc[c] = "email"
    /\ \/ Perform(c, {"email"})
       \/ "queue" \in Faults /\ UNCHANGED effects
    /\ Goto(c, IF to[c] = "disputed" THEN "sync" ELSE "respond")
    /\ UNCHANGED <<history, applied, to, readAt, wroteAt, shown>>

\* A dispute also sends a transactional notification over gRPC.
SendTransactional(c) ==
    /\ pc[c] = "sync"
    /\ \/ Perform(c, {"sync"})
       \/ "notifier" \in Faults /\ UNCHANGED effects
    /\ Goto(c, "respond")
    /\ UNCHANGED <<history, applied, to, readAt, wroteAt, shown>>

\* transitionHandler pushes the booking to the owner's feed and answers 200.
RespondTransition(c) ==
    /\ pc[c] = "respond"
    /\ to[c] # "disputed"
    /\ \/ Perform(c, {"owner"})
       \/ "connection" \in Faults /\ UNCHANGED effects  \* listing lookup fails
    /\ Answer(c, "200")
    /\ UNCHANGED <<history, applied, to, readAt, wroteAt, shown>>

\* DisputeHandler saves the damage report in MongoDB; without it the answer
\* is 201 with a warning.
RespondDispute(c) ==
    /\ pc[c] = "respond"
    /\ to[c] = "disputed"
    /\ \/ Perform(c, {"report"})
       \/ "mongo" \in Faults /\ UNCHANGED effects
    /\ Answer(c, "201")
    /\ UNCHANGED <<history, applied, to, readAt, wroteAt, shown>>

\* The process serving c is killed.
Crash(c) ==
    /\ "crash" \in Faults
    /\ pc[c] \notin {"done", "crashed"}
    /\ Goto(c, "crashed")
    /\ UNCHANGED <<history, applied, to, readAt, wroteAt, shown, effects>>

\* The replica applies the next change of the row (external).
Replicate ==
    /\ applied < Len(history)
    /\ applied' = applied + 1
    /\ UNCHANGED <<history, to, pc, readAt, wroteAt, shown, effects, reply>>

Progress(c) ==
    \/ Parse(c) \/ UpdateStatusRead(c) \/ UpdateStatusWrite(c) \/ Reread(c)
    \/ Publish(c) \/ QueueEmail(c) \/ SendTransactional(c)
    \/ RespondTransition(c) \/ RespondDispute(c)

Terminated ==
    /\ \A c \in Callers : pc[c] \in {"done", "crashed"}
    /\ applied = Len(history)
    /\ UNCHANGED vars

Next ==
    \/ \E c \in Callers : Progress(c) \/ QueryFails(c) \/ Crash(c)
    \/ Replicate
    \/ Terminated

Spec == Init /\ [][Next]_vars

----------------------------------------------------------------------------
(***************************************************************************)
(* Properties.                                                             *)
(***************************************************************************)

\* Whatever races with UpdateStatus and however far the replica lags, a
\* status is only ever written if the booking once had a status that permits
\* it: nothing is completed or disputed that was never active, nothing active
\* that was never approved.
EveryStatusWasEarned ==
    \A i \in 2 .. Len(history) :
        \E j \in 1 .. (i - 1) : history[i] \in validTransitions[history[j]]

\* Nobody is told of a transition that did not happen: cache eviction, event,
\* email, notification, owner feed and damage report all follow an UPDATE that
\* wrote the status asked for.  The status they carry, which is that of the
\* re-read row, is one the booking has had since the request checked it: the
\* feeds never go back behind the check, however late the replica is.
EffectsFollowWrite ==
    \A c \in Callers :
        effects[c] # {} =>
            /\ wroteAt[c] # 0 /\ history[wroteAt[c]] = to[c]
            /\ shown[c] # 0 /\ readAt[c] <= shown[c]

\* The booking is over, every reader knows it, and no request is between its
\* check and its UPDATE.
Settled ==
    /\ validTransitions[Current] = {}
    /\ HasReplica => applied = Len(history)
    /\ \A c \in Callers : pc[c] # "write"

\* A booking that is settled stays settled: late requests, retries and slow
\* handlers cannot bring a rejected, cancelled, completed or disputed booking
\* back.
SettledIsFinal == [][Settled => Settled' /\ UNCHANGED history]_vars

\* repository.go: CanTransition is enforced "before writing, so an invalid
\* transition never reaches the database".
OnlyValidTransitions ==
    [][history' # history => CanTransition(Current, Current')]_vars

============================================================================
