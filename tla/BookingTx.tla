----------------------------- MODULE BookingTx -----------------------------
(***************************************************************************)
(* Creation of bookings: POST /bookings from the HTTP handler              *)
(* (internal/booking/handler.go, Create) through Service.CreateBooking and *)
(* TxRunner.CreateAtomic (tx.go) down to DB.WithinTransaction              *)
(* (internal/db/tx.go) and the two tables it writes.                       *)
(*                                                                         *)
(* Each element of Requests is one HTTP request, served by a goroutine of  *)
(* some API process.  Requests interleave at every SQL round trip.  InnoDB *)
(* is external: what the code relies on is the index                       *)
(* (listing_id, start_date, end_date) of availability_blocks, the          *)
(* next-key locks that SELECT ... FOR UPDATE takes on it at the default    *)
(* REPEATABLE READ level (gap locks of two transactions are compatible,    *)
(* an insert waits for a gap lock of another transaction, a scan waits for *)
(* a row another transaction wrote or locked), deadlock detection (1213)   *)
(* and the lock wait timeout (1205).                                       *)
(***************************************************************************)
EXTENDS Integers, FiniteSets

CONSTANTS
    Requests,      \* concurrent POST /bookings requests
    Listings,      \* listings they may name
    MaxDay,        \* dates are the days 1..MaxDay
    MaxTxRetries,  \* internal/db/tx.go: maxTxRetries = 3
    HasReplica,    \* db.DB has a Replica, so Reader() is not the primary
    Faults         \* which failures of the environment may happen

FaultKinds == {"listing", "timeout", "connection", "broker", "crash"}

ASSUME BookingTxAssumption ==
    /\ MaxDay \in Nat
    /\ MaxTxRetries \in Nat \ {0}
    /\ HasReplica \in BOOLEAN
    /\ Faults \subseteq FaultKinds

VARIABLES
    req,         \* the body of each request: listing and dates
    pc,          \* where the goroutine serving the request is
    attempt,     \* attempts of WithinTransaction begun so far
    err,         \* the error that attemptTx is about to roll back for
    locks,       \* index keys of availability_blocks locked by the open transaction
    txBookings,  \* rows the open transaction inserted, not yet committed
    txBlocks,
    bookings,    \* committed rows of the table bookings (their ids)
    blocks,      \* committed rows of the table availability_blocks
    replica,     \* booking ids the read replica has applied
    effects,     \* what Service and Handler did after the commit
    reply        \* HTTP status answered, or "none"

vars == <<req, pc, attempt, err, locks, txBookings, txBlocks, bookings,
          blocks, replica, effects, reply>>

txVars  == <<locks, txBookings, txBlocks>>
dbVars  == <<bookings, blocks>>

Days == 1 .. MaxDay

\* A position in the index on (listing_id, start_date, end_date).
Keys == Listings \X Days

\* The dates a request asks for; the handler accepts any two parsable dates,
\* also an end before the start.
Bodies == [listing : Listings, start : Days, end : Days]

\* An id from LastInsertId: every INSERT INTO bookings gets a fresh one, and a
\* request executes at most one INSERT per attempt.
BookingIds == Requests \X (1 .. MaxTxRetries)

Blocks == [booking : BookingIds, listing : Listings, start : Days, end : Days]

PCs == {"decode", "load", "begin", "count", "create", "insert", "commit",
        "rollback", "refetch", "publish", "respond", "done", "crashed"}
Errors == {"nil", "unavailable", "retryable", "fatal"}
Effects == {"invalidate", "event", "owner"}
Replies == {"none", "201", "400", "409", "500"}

TypeOK ==
    /\ req \in [Requests -> Bodies]
    /\ pc \in [Requests -> PCs]
    /\ attempt \in [Requests -> 0 .. MaxTxRetries]
    /\ err \in [Requests -> Errors]
    /\ locks \in [Requests -> SUBSET Keys]
    /\ txBookings \in [Requests -> SUBSET BookingIds]
    /\ txBlocks \in [Requests -> SUBSET Blocks]
    /\ bookings \subseteq BookingIds
    /\ blocks \subseteq Blocks
    /\ replica \subseteq BookingIds
    /\ effects \in [Requests -> SUBSET Effects]
    /\ reply \in [Requests -> Replies]

Init ==
    /\ req \in [Requests -> Bodies]
    /\ pc = [r \in Requests |-> "decode"]
    /\ attempt = [r \in Requests |-> 0]
    /\ err = [r \in Requests |-> "nil"]
    /\ locks = [r \in Requests |-> {}]
    /\ txBookings = [r \in Requests |-> {}]
    /\ txBlocks = [r \in Requests |-> {}]
    /\ bookings = {}
    /\ blocks = {}
    /\ replica = {}
    /\ effects = [r \in Requests |-> {}]
    /\ reply = [r \in Requests |-> "none"]

----------------------------------------------------------------------------
(***************************************************************************)
(* Dates, ids and keys.                                                    *)
(***************************************************************************)

\* pricing.go: both ends inclusive.
DatesOverlap(a, b) == ~(a.end < b.start) /\ ~(b.end < a.start)

\* The predicate of the SQL in CountOverlapping, on a row b for a request q.
\* Mutant: half-open ranges, as if the end date were a checkout day.
MatchesHalfOpen(b, q) ==
    b.listing = q.listing /\ b.start < q.end /\ b.end > q.start

Matches(b, q) ==
    b.listing = q.listing /\ b.start <= q.end /\ b.end >= q.start

\* CalculateTotalPriceCents returns ErrInvalidDateRange.
InvalidDateRange(q) == q.end < q.start

BookingId(r) == <<r, attempt[r]>>

BlockOf(r) == [booking |-> BookingId(r), listing |-> req[r].listing,
               start |-> req[r].start, end |-> req[r].end]

Key(b) == <<b.listing, b.start>>

\* The index range the locking read scans: every key of the listing with
\* start_date <= end, and beyond it up to the next record or the end of the
\* index (day h), depending on the rows and the plan.
ScanRange(r, h) == {req[r].listing} \X (1 .. h)
ScanEnds(r) == {h \in Days : req[r].end <= h}

----------------------------------------------------------------------------
(***************************************************************************)
(* InnoDB lock conflicts (external).                                       *)
(***************************************************************************)

\* Transaction u makes the scan of key k wait: it inserted a row there, or
\* holds the lock of a committed row there.  Gap locks alone do not conflict.
RowLocked(u, k) ==
    \/ \E b \in txBlocks[u] : Key(b) = k
    \/ k \in locks[u] /\ \E b \in blocks : Key(b) = k

ScanConflicts(r, h) ==
    {k \in ScanRange(r, h) : \E u \in Requests \ {r} : RowLocked(u, k)}

\* The transactions whose gap lock the insert of r's block waits for.
InsertBlockers(r) == {u \in Requests \ {r} : Key(BlockOf(r)) \in locks[u]}

\* r's current statement waits for transaction u.
WaitsFor(r, u) ==
    \/ /\ pc[r] = "count"
       /\ u # r
       /\ \E h \in ScanEnds(r) : \E k \in ScanRange(r, h) : RowLocked(u, k)
    \/ /\ pc[r] = "insert"
       /\ u \in InsertBlockers(r)

\* r is on a cycle of the waits-for graph.
Deadlocked(r) ==
    \E n \in 2 .. Cardinality(Requests) :
        \E p \in [1 .. n -> Requests] :
            /\ p[1] = r
            /\ \A i \in 1 .. n : WaitsFor(p[i], p[(i % n) + 1])

----------------------------------------------------------------------------
(***************************************************************************)
(* Steps of one request.                                                   *)
(***************************************************************************)

\* The handler writes the response of a request and returns.
Answer(r, status) ==
    /\ reply' = [reply EXCEPT ![r] = status]
    /\ pc' = [pc EXCEPT ![r] = "done"]

Goto(r, label) ==
    /\ pc' = [pc EXCEPT ![r] = label]
    /\ UNCHANGED reply

\* The open transaction of r ends on the server: locks and rows are gone.
EndTx(r) ==
    /\ locks' = [locks EXCEPT ![r] = {}]
    /\ txBookings' = [txBookings EXCEPT ![r] = {}]
    /\ txBlocks' = [txBlocks EXCEPT ![r] = {}]

\* Handler.Create decodes the body and parses the two dates.
Decode(r) ==
    /\ pc[r] = "decode"
    /\ \/ Goto(r, "load")
       \/ Answer(r, "400")
    /\ UNCHANGED <<req, attempt, err, txVars, dbVars, replica, effects>>

\* CreateAtomic loads the listing through Reader() and prices the stay.
LoadListing(r) ==
    /\ pc[r] = "load"
    /\ IF InvalidDateRange(req[r])
       THEN Answer(r, "400")
       ELSE Goto(r, "begin")
    /\ UNCHANGED <<req, attempt, err, txVars, dbVars, replica, effects>>

\* The listing does not exist, or has not reached the replica.
LoadListingFails(r) ==
    /\ "listing" \in Faults
    /\ pc[r] = "load"
    /\ Answer(r, "500")
    /\ UNCHANGED <<req, attempt, err, txVars, dbVars, replica, effects>>

\* attemptTx: BEGIN.
Begin(r) ==
    /\ pc[r] = "begin"
    /\ attempt' = [attempt EXCEPT ![r] = @ + 1]
    /\ Goto(r, "count")
    /\ UNCHANGED <<req, err, txVars, dbVars, replica, effects>>

\* Mutant: the count is a plain SELECT, without FOR UPDATE.
CountOverlappingNoLock(r) ==
    /\ pc[r] = "count"
    /\ IF \E b \in blocks : Matches(b, req[r])
       THEN /\ err' = [err EXCEPT ![r] = "unavailable"]
            /\ Goto(r, "rollback")
       ELSE /\ Goto(r, "create")
            /\ UNCHANGED err
    /\ UNCHANGED <<req, attempt, txVars, dbVars, replica, effects>>

\* CountOverlapping: SELECT COUNT(*) ... FOR UPDATE, a current read that
\* locks the range it scanned.  A count above zero is ErrListingUnavailable.
CountOverlapping(r) ==
    /\ pc[r] = "count"
    /\ \E h \in ScanEnds(r) :
         /\ ScanConflicts(r, h) = {}
         /\ locks' = [locks EXCEPT ![r] = @ \cup ScanRange(r, h)]
    /\ IF \E b \in blocks : Matches(b, req[r])
       THEN /\ err' = [err EXCEPT ![r] = "unavailable"]
            /\ Goto(r, "rollback")
       ELSE /\ Goto(r, "create")
            /\ UNCHANGED err
    /\ UNCHANGED <<req, attempt, txBookings, txBlocks, dbVars, replica, effects>>

\* The same statement reaching a locked row: it keeps what it scanned up to
\* there and waits.
CountOverlappingWaits(r) ==
    /\ pc[r] = "count"
    /\ \E h \in ScanEnds(r) :
         LET held == {k \in ScanRange(r, h) :
                        \A c \in ScanConflicts(r, h) : k[2] < c[2]}
         IN  /\ ScanConflicts(r, h) # {}
             /\ ~(held \subseteq locks[r])
             /\ locks' = [locks EXCEPT ![r] = @ \cup held]
    /\ UNCHANGED <<req, pc, attempt, err, txBookings, txBlocks, dbVars,
                   replica, effects, reply>>

\* Mutant: the booking row is inserted outside the transaction.
CreateOutsideTx(r) ==
    /\ pc[r] = "create"
    /\ bookings' = bookings \cup {BookingId(r)}
    /\ Goto(r, "insert")
    /\ UNCHANGED <<req, attempt, err, locks, txBookings, txBlocks, blocks,
                   replica, effects>>

\* CreateInTx: INSERT INTO bookings.
CreateInTx(r) ==
    /\ pc[r] = "create"
    /\ txBookings' = [txBookings EXCEPT ![r] = {BookingId(r)}]
    /\ Goto(r, "insert")
    /\ UNCHANGED <<req, attempt, err, locks, txBlocks, dbVars, replica, effects>>

\* Mutant: BookingCreated is published from inside the transaction.
InsertBlockPublishes(r) ==
    /\ pc[r] = "insert"
    /\ InsertBlockers(r) = {}
    /\ txBlocks' = [txBlocks EXCEPT ![r] = {BlockOf(r)}]
    /\ effects' = [effects EXCEPT ![r] = @ \cup {"event"}]
    /\ Goto(r, "commit")
    /\ UNCHANGED <<req, attempt, err, locks, txBookings, dbVars, replica>>

\* InsertBlock: INSERT INTO availability_blocks.
InsertBlock(r) ==
    /\ pc[r] = "insert"
    /\ InsertBlockers(r) = {}
    /\ txBlocks' = [txBlocks EXCEPT ![r] = {BlockOf(r)}]
    /\ Goto(r, "commit")
    /\ UNCHANGED <<req, attempt, err, locks, txBookings, dbVars, replica, effects>>

\* tx.Commit on the server: the rows become visible, the locks are released.
CommitTx(r) ==
    /\ bookings' = bookings \cup txBookings[r]
    /\ blocks' = blocks \cup txBlocks[r]
    /\ EndTx(r)

Commit(r) ==
    /\ pc[r] = "commit"
    /\ CommitTx(r)
    /\ Goto(r, "refetch")
    /\ UNCHANGED <<req, attempt, err, replica, effects>>

\* Mutant: a commit whose outcome is unknown is retried like a deadlock.
CommitFailsRetryable(r) ==
    /\ "connection" \in Faults
    /\ pc[r] = "commit"
    /\ \/ CommitTx(r)
       \/ EndTx(r) /\ UNCHANGED dbVars
    /\ IF attempt[r] < MaxTxRetries THEN Goto(r, "begin") ELSE Answer(r, "500")
    /\ UNCHANGED <<req, attempt, err, replica, effects>>

\* Commit returns an error that is not a MySQL lock error (connection lost,
\* context cancelled): the server may have committed or not; no retry.
CommitFails(r) ==
    /\ "connection" \in Faults
    /\ pc[r] = "commit"
    /\ \/ CommitTx(r)
       \/ EndTx(r) /\ UNCHANGED dbVars
    /\ Answer(r, "500")
    /\ UNCHANGED <<req, attempt, err, replica, effects>>

\* BEGIN fails: attemptTx returns without a transaction to roll back.
BeginFails(r) ==
    /\ "connection" \in Faults
    /\ pc[r] = "begin"
    /\ attempt' = [attempt EXCEPT ![r] = @ + 1]
    /\ Answer(r, "500")
    /\ UNCHANGED <<req, err, txVars, dbVars, replica, effects>>

\* A statement fails with an error that isRetryable refuses.
StatementFails(r) ==
    /\ "connection" \in Faults
    /\ pc[r] \in {"count", "create", "insert"}
    /\ err' = [err EXCEPT ![r] = "fatal"]
    /\ Goto(r, "rollback")
    /\ UNCHANGED <<req, attempt, txVars, dbVars, replica, effects>>

\* Error 1213: InnoDB picks r as the victim of a deadlock and has already
\* rolled its transaction back when the statement returns.
DeadlockVictim(r) ==
    /\ Deadlocked(r)
    /\ EndTx(r)
    /\ err' = [err EXCEPT ![r] = "retryable"]
    /\ Goto(r, "rollback")
    /\ UNCHANGED <<req, attempt, dbVars, replica, effects>>

\* Error 1205: the statement gave up waiting; the transaction, its rows and
\* its locks stay until attemptTx rolls back.
LockWaitTimeout(r) ==
    /\ "timeout" \in Faults
    /\ \E u \in Requests : WaitsFor(r, u)
    /\ err' = [err EXCEPT ![r] = "retryable"]
    /\ Goto(r, "rollback")
    /\ UNCHANGED <<req, attempt, txVars, dbVars, replica, effects>>

\* isRetryable, and the loop has an attempt left.
Retries(r) == err[r] = "retryable" /\ attempt[r] < MaxTxRetries

\* WithinTransaction sleeps and begins again, or returns the error, which
\* Handler.Create maps to a status.
AfterError(r) ==
    \/ Retries(r) /\ Goto(r, "begin")
    \/ err[r] = "unavailable" /\ Answer(r, "409")
    \/ err[r] # "unavailable" /\ ~Retries(r) /\ Answer(r, "500")

\* Mutant: an error return that leaves the transaction open.
RollbackForgotten(r) ==
    /\ pc[r] = "rollback"
    /\ AfterError(r)
    /\ err' = [err EXCEPT ![r] = "nil"]
    /\ UNCHANGED <<req, attempt, txVars, dbVars, replica, effects>>

\* attemptTx rolls back on any error and returns it.
Rollback(r) ==
    /\ pc[r] = "rollback"
    /\ EndTx(r)
    /\ AfterError(r)
    /\ err' = [err EXCEPT ![r] = "nil"]
    /\ UNCHANGED <<req, attempt, dbVars, replica, effects>>

\* The row is visible to Reader().
OnReader(id) == id \in (IF HasReplica THEN replica ELSE bookings)

\* CreateAtomic re-fetches the booking it committed, through Reader(); a row
\* the replica has not applied is ErrNotFound, answered 500.
Refetch(r) ==
    /\ pc[r] = "refetch"
    /\ IF OnReader(BookingId(r)) THEN Goto(r, "publish") ELSE Answer(r, "500")
    /\ UNCHANGED <<req, attempt, err, txVars, dbVars, replica, effects>>

RefetchFails(r) ==
    /\ "connection" \in Faults
    /\ pc[r] = "refetch"
    /\ Answer(r, "500")
    /\ UNCHANGED <<req, attempt, err, txVars, dbVars, replica, effects>>

\* CreateBooking evicts the listing from the cache and publishes
\* BookingCreated; a failure to publish is only logged.
PublishCreated(r) ==
    /\ pc[r] = "publish"
    /\ \/ effects' = [effects EXCEPT ![r] = {"invalidate", "event"}]
       \/ "broker" \in Faults /\ effects' = [effects EXCEPT ![r] = {"invalidate"}]
    /\ Goto(r, "respond")
    /\ UNCHANGED <<req, attempt, err, txVars, dbVars, replica>>

\* Handler.Create notifies the owner, unless the listing lookup fails, and
\* answers 201.
Respond(r) ==
    /\ pc[r] = "respond"
    /\ \/ effects' = [effects EXCEPT ![r] = @ \cup {"owner"}]
       \/ "listing" \in Faults /\ UNCHANGED effects
    /\ Answer(r, "201")
    /\ UNCHANGED <<req, attempt, err, txVars, dbVars, replica>>

\* The process serving r is killed; the server rolls its transaction back.
Crash(r) ==
    /\ "crash" \in Faults
    /\ pc[r] \notin {"done", "crashed"}
    /\ EndTx(r)
    /\ err' = [err EXCEPT ![r] = "nil"]
    /\ Goto(r, "crashed")
    /\ UNCHANGED <<req, attempt, dbVars, replica, effects>>

\* The replica applies a committed booking from the binlog (external).
Replicate ==
    /\ HasReplica
    /\ \E id \in bookings \ replica : replica' = replica \cup {id}
    /\ UNCHANGED <<req, pc, attempt, err, txVars, dbVars, effects, reply>>

\* What the code of a request does when nothing fails.
Progress(r) ==
    \/ Decode(r) \/ LoadListing(r) \/ Begin(r) \/ CountOverlapping(r)
    \/ CreateInTx(r) \/ InsertBlock(r) \/ Commit(r) \/ Rollback(r)
    \/ Refetch(r) \/ PublishCreated(r) \/ Respond(r)

Fault(r) ==
    \/ LoadListingFails(r) \/ BeginFails(r) \/ StatementFails(r)
    \/ CommitFails(r) \/ LockWaitTimeout(r) \/ RefetchFails(r) \/ Crash(r)

Finished == \A r \in Requests : pc[r] \in {"done", "crashed"}

\* All requests are over and the replica has caught up.
Terminated ==
    /\ Finished
    /\ HasReplica => replica = bookings
    /\ UNCHANGED vars

Next ==
    \/ \E r \in Requests : Progress(r) \/ CountOverlappingWaits(r)
                           \/ DeadlockVictim(r) \/ Fault(r)
    \/ Replicate
    \/ Terminated

Spec == Init /\ [][Next]_vars

\* A goroutine that can run does run, InnoDB resolves every deadlock, the
\* binlog is eventually applied.
Fairness ==
    /\ \A r \in Requests : WF_vars(Progress(r)) /\ WF_vars(DeadlockVictim(r))
    /\ WF_vars(Replicate)

FairSpec == Spec /\ Fairness

----------------------------------------------------------------------------
(***************************************************************************)
(* Properties.                                                             *)
(***************************************************************************)

\* tx.go: "two concurrent requests for the same dates can never both
\* succeed".  Committed blocks of one listing never overlap, whatever the
\* interleaving of locking reads, inserts, deadlocks, retries and crashes.
NoDoubleBooking ==
    \A a, b \in blocks :
        a # b /\ a.listing = b.listing => ~DatesOverlap(a, b)

\* The overlap count of CountOverlapping is still true when it is acted on:
\* from the locking read to the commit no transaction commits a block that
\* takes a date of r, whatever rolls back, times out or crashes meanwhile.
Checked(r) == pc[r] \in {"create", "insert", "commit"}
CheckedDatesStayFree ==
    \A r \in Requests : Checked(r) => \A b \in blocks : ~Matches(b, req[r])

\* The availability_blocks row that belongs to a booking.
RowFor(id) == [booking |-> id, listing |-> req[id[1]].listing,
               start |-> req[id[1]].start, end |-> req[id[1]].end]

\* tx.go: "no orphaned booking-without-a-block or block-without-a-booking is
\* ever visible to another connection".  At every moment, also between the
\* two inserts and after any crash, the committed blocks are exactly the
\* blocks of the committed bookings, with their listing and dates.
BookingIffBlock == blocks = {RowFor(id) : id \in bookings}

\* A request never leaves two bookings behind, however its attempts were
\* rolled back and retried or its commit was cut off.
OneBookingPerRequest ==
    \A i, j \in bookings : i[1] = j[1] => i = j

Committed(r) == \E id \in bookings : id[1] = r

\* The answer agrees with the tables: 201 only for a committed booking; 400
\* and 409 only if nothing was booked; 409 only while another renter's
\* committed block takes one of the dates.
AnswerAgreesWithTables ==
    \A r \in Requests :
        /\ reply[r] = "201" => Committed(r)
        /\ reply[r] \in {"400", "409"} => ~Committed(r)
        /\ reply[r] = "409" => \E b \in blocks : b.booking[1] # r
                                                 /\ Matches(b, req[r])

\* Nobody hears of a booking that is not durable: the event, the owner
\* notification and the cache eviction follow the commit.
EffectsFollowCommit ==
    \A r \in Requests : effects[r] # {} => Committed(r)

\* Every request is eventually answered (or its process died): no wait for a
\* lock lasts, no retry loop spins.
EveryRequestEnds == \A r \in Requests : <>(pc[r] \in {"done", "crashed"})

\* docs/adr/0002: the replica is "never used for the booking-creation path
\* itself".  Then a committed booking would be answered 201 when nothing
\* fails.
CommittedIsAnswered201 ==
    \A r \in Requests : pc[r] = "done" /\ Committed(r) => reply[r] = "201"

\* The detailed protocol implements the atomic one: a booking is one atomic
\* step that checks all dates, and an answer is final.
Atomic == INSTANCE AtomicBooking
            WITH want <- req,
                 booked <- {id[1] : id \in bookings},
                 answer <- reply
ImplementsAtomicBooking == Atomic!Spec

============================================================================
