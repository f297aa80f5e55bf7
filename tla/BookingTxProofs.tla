-------------------------- MODULE BookingTxProofs --------------------------
(***************************************************************************)
(* Proofs about BookingTx, for any number of requests, listings, days,     *)
(* attempts and any set of faults.                                         *)
(***************************************************************************)
EXTENDS BookingTx, TLAPS

\* A request that has passed the date check of CalculateTotalPriceCents asks
\* for a non-empty range.
ValidDates ==
    \A r \in Requests :
        pc[r] \notin {"decode", "load", "done", "crashed"}
            => req[r].start <= req[r].end

\* What the open transaction of each request has written: nothing before the
\* inserts, both rows when it is about to commit.
TxRows ==
    \A r \in Requests :
        /\ txBlocks[r] = (IF pc[r] = "commit" THEN {BlockOf(r)} ELSE {})
        /\ pc[r] \in {"insert", "commit"} => txBookings[r] = {BookingId(r)}

\* Open transactions have begun: the id of the row they insert exists.
Begun ==
    \A r \in Requests :
        pc[r] \in {"count", "create", "insert", "commit"} => attempt[r] \in 1 .. MaxTxRetries

\* A loop that goes round again has attempts left.
AttemptsLeft ==
    \A r \in Requests :
        pc[r] \in {"decode", "load", "begin"} => attempt[r] < MaxTxRetries

\* From the locking read to the commit, a request holds the lock of every key
\* at which a block overlapping its dates could start.
RangeLocked ==
    \A r \in Requests :
        Checked(r) => \A d \in 1 .. req[r].end : <<req[r].listing, d>> \in locks[r]

\* A block waiting to be committed starts at a key nobody else has locked.
PendingApart ==
    \A r, u \in Requests :
        pc[r] = "commit" /\ u # r => <<req[r].listing, req[r].start>> \notin locks[u]

\* A booking exists only for a request whose transaction is over.
CommittedIsOver ==
    \A id \in bookings :
        pc[id[1]] \in {"refetch", "publish", "respond", "done", "crashed"}

TypeInv == TypeOK /\ Begun /\ AttemptsLeft

SafeInv ==
    /\ ValidDates
    /\ TxRows
    /\ RangeLocked
    /\ PendingApart
    /\ CommittedIsOver
    /\ CheckedDatesStayFree
    /\ NoDoubleBooking
    /\ BookingIffBlock
    /\ OneBookingPerRequest

----------------------------------------------------------------------------
(***************************************************************************)
(* Type correctness.                                                       *)
(***************************************************************************)

\* The locking read only locks keys of the index.
LEMMA ScanRangeType ==
    ASSUME TypeOK, NEW r \in Requests, NEW h \in ScanEnds(r)
    PROVE  ScanRange(r, h) \subseteq Keys
  <1>1. req[r].listing \in Listings
    BY DEF TypeOK, Bodies
  <1>2. 1 .. h \subseteq Days
    BY BookingTxAssumption DEF ScanEnds, Days
  <1> QED
    BY <1>1, <1>2 DEF ScanRange, Keys

\* Before any request runs, no transaction has begun.
LEMMA TypeInit == Init => TypeInv
  BY BookingTxAssumption
     DEF Init, TypeInv, TypeOK, Begun, AttemptsLeft, PCs, Errors, Replies

\* Every step of a request keeps the types and the attempt bounds of
\* WithinTransaction's loop.
LEMMA TypeStep == TypeInv /\ [Next]_vars => TypeInv'
  <1> SUFFICES ASSUME TypeInv, [Next]_vars PROVE TypeInv'
    OBVIOUS
  <1> USE BookingTxAssumption DEF TypeInv, TypeOK, Begun, AttemptsLeft, PCs,
                                  Errors, Effects, Replies
  <1>1. ASSUME NEW r \in Requests, Decode(r) PROVE TypeInv'
    BY <1>1 DEF Decode, Answer, Goto, txVars, dbVars
  <1>2. ASSUME NEW r \in Requests, LoadListing(r) PROVE TypeInv'
    BY <1>2 DEF LoadListing, Answer, Goto, txVars, dbVars
  <1>3. ASSUME NEW r \in Requests, LoadListingFails(r) PROVE TypeInv'
    BY <1>3 DEF LoadListingFails, Answer, txVars, dbVars
  <1>4. ASSUME NEW r \in Requests, Begin(r) PROVE TypeInv'
    BY <1>4 DEF Begin, Goto, txVars, dbVars
  <1>5. ASSUME NEW r \in Requests, BeginFails(r) PROVE TypeInv'
    BY <1>5 DEF BeginFails, Answer, txVars, dbVars
  <1>6. ASSUME NEW r \in Requests, CountOverlapping(r) PROVE TypeInv'
    <2>1. PICK h \in ScanEnds(r) : locks' = [locks EXCEPT ![r] = @ \cup ScanRange(r, h)]
      BY <1>6 DEF CountOverlapping
    <2> QED
      BY <1>6, <2>1, ScanRangeType DEF CountOverlapping, Goto, dbVars
  <1>7. ASSUME NEW r \in Requests, CountOverlappingWaits(r) PROVE TypeInv'
    <2>1. PICK h \in ScanEnds(r) : \E held \in SUBSET ScanRange(r, h) :
              locks' = [locks EXCEPT ![r] = @ \cup held]
      BY <1>7 DEF CountOverlappingWaits
    <2> QED
      BY <1>7, <2>1, ScanRangeType DEF CountOverlappingWaits, dbVars
  <1>8. ASSUME NEW r \in Requests, CreateInTx(r) PROVE TypeInv'
    BY <1>8 DEF CreateInTx, Goto, BookingId, BookingIds, dbVars
  <1>9. ASSUME NEW r \in Requests, InsertBlock(r) PROVE TypeInv'
    BY <1>9 DEF InsertBlock, Goto, BookingId, BookingIds, BlockOf, Blocks, Bodies, dbVars
  <1>10. ASSUME NEW r \in Requests, Commit(r) PROVE TypeInv'
    BY <1>10 DEF Commit, Goto, CommitTx, EndTx
  <1>11. ASSUME NEW r \in Requests, CommitFails(r) PROVE TypeInv'
    BY <1>11 DEF CommitFails, Answer, CommitTx, EndTx, dbVars
  <1>12. ASSUME NEW r \in Requests, StatementFails(r) PROVE TypeInv'
    BY <1>12 DEF StatementFails, Goto, txVars, dbVars
  <1>13. ASSUME NEW r \in Requests, DeadlockVictim(r) PROVE TypeInv'
    BY <1>13 DEF DeadlockVictim, Goto, EndTx, dbVars
  <1>14. ASSUME NEW r \in Requests, LockWaitTimeout(r) PROVE TypeInv'
    BY <1>14 DEF LockWaitTimeout, Goto, txVars, dbVars
  <1>15. ASSUME NEW r \in Requests, Rollback(r) PROVE TypeInv'
    BY <1>15 DEF Rollback, Answer, Goto, EndTx, AfterError, Retries, dbVars
  <1>16. ASSUME NEW r \in Requests, Refetch(r) PROVE TypeInv'
    BY <1>16 DEF Refetch, Answer, Goto, txVars, dbVars
  <1>17. ASSUME NEW r \in Requests, RefetchFails(r) PROVE TypeInv'
    BY <1>17 DEF RefetchFails, Answer, txVars, dbVars
  <1>18. ASSUME NEW r \in Requests, PublishCreated(r) PROVE TypeInv'
    BY <1>18 DEF PublishCreated, Goto, txVars, dbVars
  <1>19. ASSUME NEW r \in Requests, Respond(r) PROVE TypeInv'
    BY <1>19 DEF Respond, Answer, txVars, dbVars
  <1>20. ASSUME NEW r \in Requests, Crash(r) PROVE TypeInv'
    BY <1>20 DEF Crash, Goto, EndTx, dbVars
  <1>21. CASE Replicate
    BY <1>21 DEF Replicate, txVars, dbVars
  <1>22. CASE UNCHANGED vars
    BY <1>22 DEF vars, txVars, dbVars
  <1> QED
    BY <1>1, <1>2, <1>3, <1>4, <1>5, <1>6, <1>7, <1>8, <1>9, <1>10, <1>11,
       <1>12, <1>13, <1>14, <1>15, <1>16, <1>17, <1>18, <1>19, <1>20, <1>21,
       <1>22
       DEF Next, Progress, Fault, Terminated

\* Every variable keeps its type; in particular no request ever begins more
\* than MaxTxRetries transactions (WithinTransaction).
THEOREM TypeCorrect == Spec => []TypeOK
  BY TypeInit, TypeStep, PTL DEF Spec, TypeInv

----------------------------------------------------------------------------
(***************************************************************************)
(* Safety.                                                                 *)
(***************************************************************************)

\* A step of r that leaves the tables and the other requests alone, and after
\* which r holds nothing it did not hold before and is not between its
\* overlap check and its commit.
Withdraws(r) ==
    /\ UNCHANGED <<req, bookings, blocks>>
    /\ \A u \in Requests \ {r} :
          /\ pc'[u] = pc[u]
          /\ attempt'[u] = attempt[u]
          /\ locks'[u] = locks[u]
          /\ txBookings'[u] = txBookings[u]
          /\ txBlocks'[u] = txBlocks[u]
    /\ pc'[r] \notin {"create", "insert", "commit"}
    /\ txBlocks'[r] = {}
    /\ locks'[r] \subseteq locks[r]
    /\ pc[r] \in {"refetch", "publish", "respond", "done", "crashed"}
          => pc'[r] \in {"refetch", "publish", "respond", "done", "crashed"}
    /\ pc'[r] \notin {"decode", "load", "done", "crashed"}
          => req[r].start <= req[r].end

\* A step of r that commits nothing and takes no lock (rollback, early return,
\* crash, the steps after the commit) keeps every safety conjunct.
LEMMA WithdrawIsSafe ==
    ASSUME TypeOK, SafeInv, NEW r \in Requests, Withdraws(r)
    PROVE  SafeInv'
  <1> USE DEF SafeInv, Withdraws
  <1>1. ValidDates'
    BY DEF ValidDates
  <1>2. TxRows'
    BY DEF TxRows, BlockOf, BookingId
  <1>3. RangeLocked'
    BY DEF RangeLocked, Checked
  <1>4. PendingApart'
    BY DEF PendingApart
  <1>5. CommittedIsOver'
    BY DEF CommittedIsOver, TypeOK, BookingIds
  <1>6. CheckedDatesStayFree'
    BY DEF CheckedDatesStayFree, Checked, Matches
  <1>7. NoDoubleBooking' /\ BookingIffBlock' /\ OneBookingPerRequest'
    BY DEF NoDoubleBooking, DatesOverlap, BookingIffBlock, RowFor, OneBookingPerRequest
  <1> QED
    BY <1>1, <1>2, <1>3, <1>4, <1>5, <1>6, <1>7

\* The commit of r.  Its block overlaps no committed block because the check
\* is still true, and takes no date another checked request relies on because
\* its key is outside that request's locks.
LEMMA CommitIsSafe ==
    ASSUME TypeInv, SafeInv, NEW r \in Requests, NEW next \in {"refetch", "done"},
           pc[r] = "commit", CommitTx(r), pc' = [pc EXCEPT ![r] = next],
           UNCHANGED <<req, attempt>>
    PROVE  SafeInv'
  <1> USE DEF SafeInv, TypeInv, TypeOK
  <1> DEFINE b == BlockOf(r)
  <1>1. /\ bookings' = bookings \cup {BookingId(r)}
        /\ blocks' = blocks \cup {b}
    BY DEF CommitTx, TxRows
  <1>2. /\ b.booking = BookingId(r) /\ b.listing = req[r].listing
        /\ b.start = req[r].start /\ b.end = req[r].end
        /\ b = RowFor(BookingId(r))
    BY DEF BlockOf, RowFor, BookingId
  <1>3. /\ \A u \in Requests : /\ req[u].start \in Nat
                               /\ req[u].end \in Nat
        /\ \A c \in blocks : c.start \in Nat /\ c.end \in Nat
        /\ req[r].start >= 1
    BY BookingTxAssumption DEF Bodies, Blocks, Days
  <1>4. \A c \in blocks : ~Matches(c, req[r])
    BY DEF CheckedDatesStayFree, Checked
  <1>5. \A u \in Requests \ {r} : Checked(u) => ~Matches(b, req[u])
    <2> SUFFICES ASSUME NEW u \in Requests \ {r}, Checked(u), Matches(b, req[u])
                 PROVE  FALSE
      OBVIOUS
    <2>1. <<req[r].listing, req[r].start>> \notin locks[u]
      BY DEF PendingApart
    <2>2. req[r].listing = req[u].listing /\ req[r].start \in 1 .. req[u].end
      BY <1>2, <1>3 DEF Matches
    <2> QED
      BY <2>1, <2>2 DEF RangeLocked
  <1>6. ValidDates' /\ TxRows' /\ RangeLocked' /\ PendingApart'
    <2>1. ValidDates'
      BY DEF ValidDates, CommitTx, EndTx
    <2>2. TxRows'
      BY DEF TxRows, CommitTx, EndTx, BlockOf, BookingId
    <2>3. RangeLocked'
      BY DEF RangeLocked, Checked, CommitTx, EndTx
    <2>4. PendingApart'
      BY DEF PendingApart, CommitTx, EndTx
    <2> QED  BY <2>1, <2>2, <2>3, <2>4
  <1>7. CommittedIsOver'
    BY <1>1 DEF CommittedIsOver, BookingId, BookingIds
  <1>8. CheckedDatesStayFree'
    BY <1>1, <1>5 DEF CheckedDatesStayFree, Checked, Matches
  <1>9. NoDoubleBooking'
    BY <1>1, <1>2, <1>3, <1>4 DEF NoDoubleBooking, DatesOverlap, Matches
  <1>10. BookingIffBlock'
    BY <1>1, <1>2 DEF BookingIffBlock, RowFor
  <1>11. OneBookingPerRequest'
    <2>1. \A id \in bookings : id[1] # r
      BY DEF CommittedIsOver
    <2> QED
      BY <1>1, <2>1 DEF OneBookingPerRequest, BookingId
  <1> QED
    BY <1>6, <1>7, <1>8, <1>9, <1>10, <1>11

\* The victim of a deadlock is executing a statement that waits.
LEMMA VictimWaits ==
    ASSUME NEW r \in Requests, Deadlocked(r)
    PROVE  pc[r] \in {"count", "insert"}
  <1>1. PICK n \in 2 .. Cardinality(Requests) :
          \E p \in [1 .. n -> Requests] :
            /\ p[1] = r
            /\ \A i \in 1 .. n : WaitsFor(p[i], p[(i % n) + 1])
    BY DEF Deadlocked
  <1>2. PICK p \in [1 .. n -> Requests] :
            /\ p[1] = r
            /\ \A i \in 1 .. n : WaitsFor(p[i], p[(i % n) + 1])
    BY <1>1
  <1>3. 1 \in 1 .. n
    OBVIOUS
  <1>4. WaitsFor(r, p[(1 % n) + 1])
    BY <1>2, <1>3
  <1> QED
    BY <1>4 DEF WaitsFor

\* The part of the range that a waiting scan keeps holds no row of another
\* transaction.
LEMMA HeldIsUnlocked ==
    ASSUME NEW r \in Requests, NEW h \in ScanEnds(r), NEW k \in ScanRange(r, h),
           \A c \in ScanConflicts(r, h) : k[2] < c[2],
           NEW u \in Requests \ {r}
    PROVE  ~RowLocked(u, k)
  <1>1. k[2] \in Nat
    BY BookingTxAssumption DEF ScanRange, ScanEnds, Days
  <1>2. k \notin ScanConflicts(r, h)
    BY <1>1
  <1> QED
    BY <1>2 DEF ScanConflicts

\* The key of a block about to be committed is one a scan would wait for.
LEMMA PendingIsRowLocked ==
    ASSUME SafeInv, NEW u \in Requests, pc[u] = "commit"
    PROVE  RowLocked(u, <<req[u].listing, req[u].start>>)
  <1>1. BlockOf(u) \in txBlocks[u]
    BY DEF SafeInv, TxRows
  <1>2. Key(BlockOf(u)) = <<req[u].listing, req[u].start>>
    BY DEF BlockOf, Key
  <1> QED
    BY <1>1, <1>2 DEF RowLocked

\* Empty tables and no open transaction are safe.
LEMMA SafeInit == Init => SafeInv
  BY DEF Init, SafeInv, ValidDates, TxRows, RangeLocked, PendingApart, Checked,
         CommittedIsOver, CheckedDatesStayFree, NoDoubleBooking,
         BookingIffBlock, OneBookingPerRequest

\* Every action keeps SafeInv: locks and pending rows stay apart, and a commit
\* adds a block whose dates are free.
LEMMA SafeStep == TypeInv /\ SafeInv /\ [Next]_vars => SafeInv'
  <1> SUFFICES ASSUME TypeInv, SafeInv, [Next]_vars PROVE SafeInv'
    OBVIOUS
  <1> USE DEF TypeInv, TypeOK
  <1>1. ASSUME NEW r \in Requests, Decode(r) PROVE SafeInv'
    <2>1. Withdraws(r)
      BY <1>1
      DEF Decode, Answer, Goto, txVars, dbVars, SafeInv, ValidDates,
          TxRows, Withdraws
    <2> QED
      BY <2>1, WithdrawIsSafe
  <1>2. ASSUME NEW r \in Requests, LoadListing(r) PROVE SafeInv'
    <2>1. Withdraws(r)
      BY BookingTxAssumption, <1>2
      DEF LoadListing, InvalidDateRange, Answer, Goto, txVars, Bodies, Days, dbVars,
          SafeInv, ValidDates, TxRows, Withdraws
    <2> QED
      BY <2>1, WithdrawIsSafe
  <1>3. ASSUME NEW r \in Requests, LoadListingFails(r) PROVE SafeInv'
    <2>1. Withdraws(r)
      BY <1>3
      DEF LoadListingFails, Answer, txVars, dbVars, SafeInv,
          ValidDates, TxRows, Withdraws
    <2> QED
      BY <2>1, WithdrawIsSafe
  <1>4. ASSUME NEW r \in Requests, Begin(r) PROVE SafeInv'
    <2>1. Withdraws(r)
      BY <1>4
      DEF Begin, Goto, txVars, dbVars, SafeInv, ValidDates, TxRows,
          Withdraws
    <2> QED
      BY <2>1, WithdrawIsSafe
  <1>5. ASSUME NEW r \in Requests, BeginFails(r) PROVE SafeInv'
    <2>1. Withdraws(r)
      BY <1>5
      DEF BeginFails, Answer, txVars, dbVars, SafeInv, ValidDates,
          TxRows, Withdraws
    <2> QED
      BY <2>1, WithdrawIsSafe
  <1>6. ASSUME NEW r \in Requests, StatementFails(r) PROVE SafeInv'
    <2>1. Withdraws(r)
      BY <1>6
      DEF StatementFails, Goto, txVars, dbVars, SafeInv, ValidDates,
          TxRows, Withdraws
    <2> QED
      BY <2>1, WithdrawIsSafe
  <1>7. ASSUME NEW r \in Requests, DeadlockVictim(r) PROVE SafeInv'
    <2>1. Withdraws(r)
      BY VictimWaits, <1>7
      DEF DeadlockVictim, Goto, EndTx, dbVars, SafeInv, ValidDates,
          TxRows, Withdraws
    <2> QED
      BY <2>1, WithdrawIsSafe
  <1>8. ASSUME NEW r \in Requests, LockWaitTimeout(r) PROVE SafeInv'
    <2>1. Withdraws(r)
      BY <1>8
      DEF LockWaitTimeout, Goto, txVars, WaitsFor, dbVars, SafeInv,
          ValidDates, TxRows, Withdraws
    <2> QED
      BY <2>1, WithdrawIsSafe
  <1>9. ASSUME NEW r \in Requests, Rollback(r) PROVE SafeInv'
    <2>1. Withdraws(r)
      BY <1>9
      DEF Rollback, Answer, Goto, EndTx, AfterError, Retries, dbVars,
          SafeInv, ValidDates, TxRows, Withdraws
    <2> QED
      BY <2>1, WithdrawIsSafe
  <1>10. ASSUME NEW r \in Requests, Refetch(r) PROVE SafeInv'
    <2>1. Withdraws(r)
      BY <1>10
      DEF Refetch, Answer, Goto, txVars, dbVars, SafeInv, ValidDates,
          TxRows, Withdraws
    <2> QED
      BY <2>1, WithdrawIsSafe
  <1>11. ASSUME NEW r \in Requests, RefetchFails(r) PROVE SafeInv'
    <2>1. Withdraws(r)
      BY <1>11
      DEF RefetchFails, Answer, txVars, dbVars, SafeInv, ValidDates,
          TxRows, Withdraws
    <2> QED
      BY <2>1, WithdrawIsSafe
  <1>12. ASSUME NEW r \in Requests, PublishCreated(r) PROVE SafeInv'
    <2>1. Withdraws(r)
      BY <1>12
      DEF PublishCreated, Goto, txVars, dbVars, SafeInv, ValidDates,
          TxRows, Withdraws
    <2> QED
      BY <2>1, WithdrawIsSafe
  <1>13. ASSUME NEW r \in Requests, Respond(r) PROVE SafeInv'
    <2>1. Withdraws(r)
      BY <1>13
      DEF Respond, Answer, txVars, dbVars, SafeInv, ValidDates,
          TxRows, Withdraws
    <2> QED
      BY <2>1, WithdrawIsSafe
  <1>14. ASSUME NEW r \in Requests, Crash(r) PROVE SafeInv'
    <2>1. Withdraws(r)
      BY <1>14
      DEF Crash, Goto, EndTx, dbVars, SafeInv, ValidDates, TxRows,
          Withdraws
    <2> QED
      BY <2>1, WithdrawIsSafe
  <1>15. ASSUME NEW r \in Requests, Commit(r) PROVE SafeInv'
    BY <1>15, CommitIsSafe DEF Commit, Goto
  <1>16. ASSUME NEW r \in Requests, CommitFails(r) PROVE SafeInv'
    <2>1. CASE CommitTx(r)
      BY <1>16, <2>1, CommitIsSafe DEF CommitFails, Answer
    <2>2. CASE EndTx(r) /\ UNCHANGED dbVars
      <3>1. Withdraws(r)
        BY <1>16, <2>2 DEF CommitFails, Answer, EndTx, dbVars, Withdraws
      <3> QED
        BY <3>1, WithdrawIsSafe
    <2> QED
      BY <1>16, <2>1, <2>2 DEF CommitFails
  <1>17. ASSUME NEW r \in Requests, CountOverlappingWaits(r) PROVE SafeInv'
    <2>1. PICK h \in ScanEnds(r) :
            locks' = [locks EXCEPT ![r] = @ \cup
                        {k \in ScanRange(r, h) :
                           \A c \in ScanConflicts(r, h) : k[2] < c[2]}]
      BY <1>17 DEF CountOverlappingWaits
    <2>2. \A k \in locks'[r], u \in Requests \ {r} :
             k \in locks[r] \/ ~RowLocked(u, k)
      BY <2>1, HeldIsUnlocked
    <2>3. PendingApart'
      BY <1>17, <2>1, <2>2, PendingIsRowLocked
      DEF CountOverlappingWaits, SafeInv, PendingApart
    <2> QED
      BY <1>17, <2>1, <2>3
      DEF CountOverlappingWaits, SafeInv, ValidDates, TxRows, RangeLocked,
          Checked, dbVars, CommittedIsOver, CheckedDatesStayFree,
          NoDoubleBooking, BookingIffBlock, OneBookingPerRequest, BlockOf,
          BookingId, RowFor
  <1>18. ASSUME NEW r \in Requests, CountOverlapping(r) PROVE SafeInv'
    <2>1. PICK h \in ScanEnds(r) :
            /\ locks' = [locks EXCEPT ![r] = @ \cup ScanRange(r, h)]
            /\ ScanConflicts(r, h) = {}
      BY <1>18 DEF CountOverlapping
    <2>2. \A k \in locks'[r], u \in Requests \ {r} :
             k \in locks[r] \/ ~RowLocked(u, k)
      BY <2>1 DEF ScanConflicts
    <2>3. PendingApart'
      BY <1>18, <2>2, <2>1, PendingIsRowLocked
      DEF CountOverlapping, Goto, SafeInv, PendingApart
    <2>4. RangeLocked'
      <3>1. \A d \in 1 .. req[r].end : <<req[r].listing, d>> \in locks'[r]
        BY <2>1, BookingTxAssumption DEF ScanRange, ScanEnds, Days, Bodies
      <3> QED
        BY <1>18, <2>1, <3>1 DEF CountOverlapping, Goto, SafeInv, RangeLocked, Checked
    <2>5. CheckedDatesStayFree'
      BY <1>18 DEF CountOverlapping, Goto, SafeInv, CheckedDatesStayFree,
                   Checked, Matches, dbVars
    <2>6. ValidDates' /\ TxRows'
      BY <1>18 DEF CountOverlapping, Goto, SafeInv, ValidDates, TxRows,
                   BlockOf, BookingId
    <2>7. CommittedIsOver'
      BY <1>18 DEF CountOverlapping, Goto, SafeInv, CommittedIsOver, dbVars,
                   BookingIds
    <2>8. NoDoubleBooking' /\ BookingIffBlock' /\ OneBookingPerRequest'
      BY <1>18 DEF CountOverlapping, SafeInv, NoDoubleBooking, DatesOverlap,
                   BookingIffBlock, RowFor, OneBookingPerRequest, dbVars
    <2> QED
      BY <2>3, <2>4, <2>5, <2>6, <2>7, <2>8 DEF SafeInv
  <1>19. ASSUME NEW r \in Requests, CreateInTx(r) PROVE SafeInv'
    BY <1>19
    DEF CreateInTx, Goto, SafeInv, ValidDates, TxRows, RangeLocked, Checked,
        PendingApart, dbVars, CommittedIsOver, CheckedDatesStayFree, Matches,
        NoDoubleBooking, BookingIffBlock, OneBookingPerRequest, BlockOf,
        BookingId, RowFor
  <1>20. ASSUME NEW r \in Requests, InsertBlock(r) PROVE SafeInv'
    <2>1. PendingApart'
      BY <1>20 DEF InsertBlock, Goto, SafeInv, PendingApart, InsertBlockers,
                   BlockOf, Key
    <2>2. TxRows'
      BY <1>20 DEF InsertBlock, Goto, SafeInv, TxRows, BlockOf, BookingId
    <2>3. ValidDates' /\ RangeLocked' /\ CheckedDatesStayFree'
      BY <1>20 DEF InsertBlock, Goto, SafeInv, ValidDates, RangeLocked,
                   CheckedDatesStayFree, Checked, Matches, dbVars
    <2>4. CommittedIsOver'
      BY <1>20 DEF InsertBlock, Goto, SafeInv, CommittedIsOver, dbVars, BookingIds
    <2>5. NoDoubleBooking' /\ BookingIffBlock' /\ OneBookingPerRequest'
      BY <1>20 DEF InsertBlock, SafeInv, NoDoubleBooking, DatesOverlap,
                   BookingIffBlock, RowFor, OneBookingPerRequest, dbVars
    <2> QED
      BY <2>1, <2>2, <2>3, <2>4, <2>5 DEF SafeInv
  <1>21. CASE Replicate
    BY <1>21
    DEF Replicate, txVars, dbVars, SafeInv, ValidDates, TxRows, RangeLocked,
        Checked, PendingApart, CommittedIsOver, CheckedDatesStayFree, Matches,
        NoDoubleBooking, BookingIffBlock, OneBookingPerRequest, BlockOf,
        BookingId, RowFor
  <1>22. CASE UNCHANGED vars
    BY <1>22
    DEF vars, SafeInv, ValidDates, TxRows, RangeLocked,
        Checked, PendingApart, CommittedIsOver, CheckedDatesStayFree, Matches,
        NoDoubleBooking, BookingIffBlock, OneBookingPerRequest, BlockOf,
        BookingId, RowFor
  <1> QED
    BY <1>1, <1>2, <1>3, <1>4, <1>5, <1>6, <1>7, <1>8, <1>9, <1>10, <1>11,
       <1>12, <1>13, <1>14, <1>15, <1>16, <1>17, <1>18, <1>19, <1>20, <1>21,
       <1>22
       DEF Next, Progress, Fault, Terminated

----------------------------------------------------------------------------
(***************************************************************************)
(* Answers.                                                                *)
(***************************************************************************)

\* A request that is not over has not been answered.
NoEarlyAnswer == \A r \in Requests : pc[r] # "done" => reply[r] = "none"

\* ErrListingUnavailable is on its way only if a committed block is the cause.
ConflictSeen ==
    \A r \in Requests : err[r] = "unavailable" =>
        /\ pc[r] = "rollback"
        /\ \E b \in blocks : Matches(b, req[r])

\* After a successful commit the booking is in the table.
RowIsThere ==
    \A r \in Requests :
        pc[r] \in {"refetch", "publish", "respond"} => BookingId(r) \in bookings

\* Committed blocks cover at least one day.
BlocksNonEmpty == \A b \in blocks : b.start <= b.end

AnswerInv ==
    /\ NoEarlyAnswer
    /\ ConflictSeen
    /\ RowIsThere
    /\ BlocksNonEmpty
    /\ AnswerAgreesWithTables
    /\ EffectsFollowCommit

\* Before any request runs, nothing is answered or announced.
LEMMA AnswerInit == Init => AnswerInv
  BY DEF Init, AnswerInv, NoEarlyAnswer, ConflictSeen, RowIsThere,
         BlocksNonEmpty, AnswerAgreesWithTables, EffectsFollowCommit

\* Every action keeps answers and side effects in agreement with the tables.
LEMMA AnswerStep == TypeInv /\ SafeInv /\ AnswerInv /\ [Next]_vars => AnswerInv'
  <1> SUFFICES ASSUME TypeInv, SafeInv, AnswerInv, [Next]_vars PROVE AnswerInv'
    OBVIOUS
  <1> USE DEF TypeInv, TypeOK, AnswerInv, NoEarlyAnswer, ConflictSeen,
              RowIsThere, BlocksNonEmpty, AnswerAgreesWithTables,
              EffectsFollowCommit, Committed, Matches, BookingId, dbVars
  <1>0. \A r \in Requests :
          Committed(r) => pc[r] \in {"refetch", "publish", "respond", "done", "crashed"}
    BY DEF SafeInv, CommittedIsOver
  <1>1. ASSUME NEW r \in Requests, Decode(r) PROVE AnswerInv'
    BY <1>0, <1>1 DEF Decode, Answer, Goto
  <1>2. ASSUME NEW r \in Requests, LoadListing(r) PROVE AnswerInv'
    BY <1>0, <1>2 DEF LoadListing, Answer, Goto
  <1>3. ASSUME NEW r \in Requests, LoadListingFails(r) PROVE AnswerInv'
    BY <1>0, <1>3 DEF LoadListingFails, Answer
  <1>4. ASSUME NEW r \in Requests, Begin(r) PROVE AnswerInv'
    BY <1>0, <1>4 DEF Begin, Goto
  <1>5. ASSUME NEW r \in Requests, BeginFails(r) PROVE AnswerInv'
    BY <1>0, <1>5 DEF BeginFails, Answer
  <1>6. ASSUME NEW r \in Requests, CountOverlapping(r) PROVE AnswerInv'
    BY <1>0, <1>6 DEF CountOverlapping, Goto
  <1>7. ASSUME NEW r \in Requests, CountOverlappingWaits(r) PROVE AnswerInv'
    BY <1>0, <1>7 DEF CountOverlappingWaits
  <1>8. ASSUME NEW r \in Requests, CreateInTx(r) PROVE AnswerInv'
    BY <1>0, <1>8 DEF CreateInTx, Goto
  <1>9. ASSUME NEW r \in Requests, InsertBlock(r) PROVE AnswerInv'
    BY <1>0, <1>9 DEF InsertBlock, Goto
  <1>10. ASSUME NEW r \in Requests, Commit(r) PROVE AnswerInv'
    BY <1>0, <1>10 DEF Commit, Goto, CommitTx, SafeInv, TxRows, BlockOf, ValidDates
  <1>11. ASSUME NEW r \in Requests, CommitFails(r) PROVE AnswerInv'
    BY <1>0, <1>11 DEF CommitFails, Answer, CommitTx, SafeInv, TxRows, BlockOf, ValidDates
  <1>12. ASSUME NEW r \in Requests, StatementFails(r) PROVE AnswerInv'
    BY <1>0, <1>12 DEF StatementFails, Goto
  <1>13. ASSUME NEW r \in Requests, DeadlockVictim(r) PROVE AnswerInv'
    BY <1>0, <1>13, VictimWaits DEF DeadlockVictim, Goto
  <1>14. ASSUME NEW r \in Requests, LockWaitTimeout(r) PROVE AnswerInv'
    BY <1>0, <1>14 DEF LockWaitTimeout, Goto, WaitsFor
  <1>15. ASSUME NEW r \in Requests, Rollback(r) PROVE AnswerInv'
    BY <1>0, <1>15, SMTT(60)
    DEF Rollback, Answer, Goto, AfterError, Retries, SafeInv, BookingIffBlock, RowFor
  <1>16. ASSUME NEW r \in Requests, Refetch(r) PROVE AnswerInv'
    BY <1>0, <1>16 DEF Refetch, Answer, Goto
  <1>17. ASSUME NEW r \in Requests, RefetchFails(r) PROVE AnswerInv'
    BY <1>0, <1>17 DEF RefetchFails, Answer
  <1>18. ASSUME NEW r \in Requests, PublishCreated(r) PROVE AnswerInv'
    <2>1. <<r, attempt[r]>> \in bookings /\ <<r, attempt[r]>>[1] = r
      BY <1>18 DEF PublishCreated
    <2>2. Committed(r)
      BY <2>1
    <2> QED
      BY <1>0, <1>18, <2>2 DEF PublishCreated, Goto
  <1>19. ASSUME NEW r \in Requests, Respond(r) PROVE AnswerInv'
    <2>1. <<r, attempt[r]>> \in bookings /\ <<r, attempt[r]>>[1] = r
      BY <1>19 DEF Respond
    <2>2. Committed(r)
      BY <2>1
    <2> QED
      BY <1>0, <1>19, <2>2 DEF Respond, Answer
  <1>20. ASSUME NEW r \in Requests, Crash(r) PROVE AnswerInv'
    BY <1>0, <1>20 DEF Crash, Goto
  <1>21. CASE Replicate
    BY <1>21 DEF Replicate
  <1>22. CASE UNCHANGED vars
    BY <1>22 DEF vars
  <1> QED
    BY <1>1, <1>2, <1>3, <1>4, <1>5, <1>6, <1>7, <1>8, <1>9, <1>10, <1>11,
       <1>12, <1>13, <1>14, <1>15, <1>16, <1>17, <1>18, <1>19, <1>20, <1>21,
       <1>22
       DEF Next, Progress, Fault, Terminated

----------------------------------------------------------------------------

\* The three parts together are an invariant of booking creation.
LEMMA Invariance == Spec => [](TypeInv /\ SafeInv /\ AnswerInv)
  BY TypeInit, TypeStep, SafeInit, SafeStep, AnswerInit, AnswerStep, PTL DEF Spec

\* CreateAtomic never lets two bookings of one listing share a day, for any
\* number of concurrent requests, attempts, lock waits, deadlocks and crashes.
THEOREM NoDoubleBookingHolds == Spec => []NoDoubleBooking
  BY Invariance, PTL DEF SafeInv

\* tx.go:23-24: at no time, also between the two inserts or after a crash, is
\* there a booking without its block or a block without its booking.
THEOREM BookingIffBlockHolds == Spec => []BookingIffBlock
  BY Invariance, PTL DEF SafeInv

\* WithinTransaction never leaves two bookings of one request behind.
THEOREM OneBookingPerRequestHolds == Spec => []OneBookingPerRequest
  BY Invariance, PTL DEF SafeInv

\* The overlap count a transaction acted on is still true when it commits.
THEOREM CheckedDatesStayFreeHolds == Spec => []CheckedDatesStayFree
  BY Invariance, PTL DEF SafeInv

\* CreateBooking and Handler.Create announce only what was committed.
THEOREM EffectsFollowCommitHolds == Spec => []EffectsFollowCommit
  BY Invariance, PTL DEF AnswerInv

\* What Handler.Create answers agrees with what was committed.
THEOREM AnswersAgree == Spec => []AnswerAgreesWithTables
  BY Invariance, PTL DEF AnswerInv

----------------------------------------------------------------------------
(***************************************************************************)
(* Refinement: CreateAtomic implements AtomicBooking.                      *)
(***************************************************************************)

\* The SQL predicate of CountOverlapping says that two non-empty ranges share
\* a day.
LEMMA OverlapIsSharedDay ==
    \A a, b, c, d \in Days :
        a <= b /\ c <= d =>
          ((c <= b /\ a <= d) <=> \E x \in Days : a <= x /\ x <= b /\ c <= x /\ x <= d)
  <1> TAKE a, b, c, d \in Days
  <1> HAVE a <= b /\ c <= d
  <1> USE BookingTxAssumption DEF Days
  <1>1. ASSUME c <= b, a <= d
        PROVE  \E x \in Days : a <= x /\ x <= b /\ c <= x /\ x <= d
    <2>1. CASE a <= c
      BY <1>1, <2>1
    <2>2. CASE c <= a
      BY <1>1, <2>2
    <2> QED
      BY <2>1, <2>2
  <1> QED
    BY <1>1

\* A request competes in the abstract specification with the owner of a
\* committed block exactly when the block matches its dates.
LEMMA CompeteIsMatch ==
    ASSUME TypeInv, SafeInv, AnswerInv, NEW r \in Requests,
           req[r].start <= req[r].end, NEW id \in bookings
    PROVE  /\ RowFor(id) \in blocks
           /\ Atomic!Compete(r, id[1]) <=> Matches(RowFor(id), req[r])
  <1>1. RowFor(id) \in blocks
    BY DEF SafeInv, BookingIffBlock
  <1>2. id[1] \in Requests
    BY DEF TypeInv, TypeOK, BookingIds
  <1>3. /\ req[r].start \in Days /\ req[r].end \in Days
        /\ req[id[1]].start \in Days /\ req[id[1]].end \in Days
    BY <1>2 DEF TypeInv, TypeOK, Bodies
  <1>4. req[id[1]].start <= req[id[1]].end
    BY <1>1 DEF AnswerInv, BlocksNonEmpty, RowFor
  <1>5. Atomic!DaysOf(r) \cap Atomic!DaysOf(id[1]) # {}
          <=> req[id[1]].start <= req[r].end /\ req[r].start <= req[id[1]].end
    <2>1. Atomic!DaysOf(r) \cap Atomic!DaysOf(id[1]) # {}
            <=> \E x \in Days : /\ req[r].start <= x /\ x <= req[r].end
                                /\ req[id[1]].start <= x /\ x <= req[id[1]].end
      BY DEF Atomic!DaysOf, Atomic!Days, Days
    <2> QED
      <3> DEFINE a == req[r].start
                 b == req[r].end
                 c == req[id[1]].start
                 d == req[id[1]].end
      <3>1. a \in Days /\ b \in Days /\ c \in Days /\ d \in Days /\ a <= b /\ c <= d
        BY <1>3, <1>4
      <3> HIDE DEF a, b, c, d
      <3>2. (c <= b /\ a <= d) <=> \E x \in Days : a <= x /\ x <= b /\ c <= x /\ x <= d
        BY <3>1, OverlapIsSharedDay, BookingTxAssumption DEF Days
      <3> QED
        BY <2>1, <3>2 DEF a, b, c, d
  <1> QED
    BY <1>1, <1>3, <1>5, BookingTxAssumption DEF Atomic!Compete, Matches, RowFor, Days

\* Initially nobody has booked or been answered.
LEMMA RefineInit == Init => Atomic!Init
  BY DEF Init, Atomic!Init, Bodies, Days, Atomic!Days

\* The commit of r is the step Book(r).
LEMMA CommitRefines ==
    ASSUME TypeInv, SafeInv, AnswerInv, NEW r \in Requests,
           pc[r] = "commit", CommitTx(r), UNCHANGED req,
           reply' \in {reply, [reply EXCEPT ![r] = "500"]}
    PROVE  Atomic!Book(r)
  <1>1. reply[r] = "none"
    BY DEF AnswerInv, NoEarlyAnswer
  <1>2. r \notin {id[1] : id \in bookings}
    BY DEF SafeInv, CommittedIsOver
  <1>3. req[r].start <= req[r].end
    BY DEF SafeInv, ValidDates
  <1>4. req[r].start \in Atomic!DaysOf(r)
    BY <1>3, BookingTxAssumption DEF Atomic!DaysOf, Atomic!Days, Days, TypeInv, TypeOK, Bodies
  <1>5. \A id \in bookings : ~Atomic!Compete(r, id[1])
    BY <1>3, CompeteIsMatch DEF SafeInv, CheckedDatesStayFree, Checked
  <1>6. Atomic!Free(r)
    BY <1>4, <1>5 DEF Atomic!Free
  <1>7. bookings' = bookings \cup {<<r, attempt[r]>>}
    BY DEF CommitTx, SafeInv, TxRows, BookingId
  <1>8. {id[1] : id \in bookings'} = {id[1] : id \in bookings} \cup {r}
    <2>1. <<r, attempt[r]>>[1] = r
      OBVIOUS
    <2> QED
      BY <1>7, <2>1
  <1> QED
    BY <1>1, <1>2, <1>6, <1>8 DEF Atomic!Book

\* An answer without a commit, by status.
LEMMA AnswerRefines ==
    ASSUME TypeInv, SafeInv, AnswerInv, NEW r \in Requests, pc[r] # "done",
           UNCHANGED <<req, bookings>>
    PROVE  /\ Answer(r, "500") => Atomic!Fail(r)
           /\ Answer(r, "400") /\ ~Committed(r) => Atomic!RejectInput(r)
           /\ Answer(r, "201") /\ Committed(r) => Atomic!Confirm(r)
           /\ /\ Answer(r, "409")
              /\ ~Committed(r)
              /\ req[r].start <= req[r].end
              /\ \E b \in blocks : Matches(b, req[r])
              => Atomic!Refuse(r)
  <1>1. reply[r] = "none"
    BY DEF AnswerInv, NoEarlyAnswer
  <1>2. Committed(r) <=> r \in {id[1] : id \in bookings}
    BY DEF Committed
  <1>3. ASSUME req[r].start <= req[r].end, \E b \in blocks : Matches(b, req[r])
        PROVE  \E q \in {id[1] : id \in bookings} : Atomic!Compete(r, q)
    <2>1. PICK id \in bookings : Matches(RowFor(id), req[r])
      BY <1>3 DEF SafeInv, BookingIffBlock
    <2> QED
      BY <1>3, <2>1, CompeteIsMatch
  <1> QED
    BY <1>1, <1>2, <1>3
    DEF Answer, Atomic!Fail, Atomic!RejectInput, Atomic!Confirm, Atomic!Refuse

\* Every step of booking creation is a step of AtomicBooking or changes nothing
\* it can see.
LEMMA RefineStep ==
    TypeInv /\ SafeInv /\ AnswerInv /\ [Next]_vars => [Atomic!Next]_Atomic!vars
  <1> SUFFICES ASSUME TypeInv, SafeInv, AnswerInv, [Next]_vars
               PROVE  Atomic!Next \/ UNCHANGED Atomic!vars
    OBVIOUS
  <1>0. \A r \in Requests :
          Committed(r) => pc[r] \in {"refetch", "publish", "respond", "done", "crashed"}
    BY DEF SafeInv, CommittedIsOver, Committed
  <1>1. ASSUME NEW r \in Requests, Decode(r) PROVE Atomic!Next \/ UNCHANGED Atomic!vars
    BY <1>0, <1>1, AnswerRefines DEF Decode, Goto, dbVars, Atomic!Next, Atomic!vars
  <1>2. ASSUME NEW r \in Requests, LoadListing(r) PROVE Atomic!Next \/ UNCHANGED Atomic!vars
    BY <1>0, <1>2, AnswerRefines DEF LoadListing, Goto, dbVars, Atomic!Next, Atomic!vars
  <1>3. ASSUME NEW r \in Requests,
               LoadListingFails(r) \/ BeginFails(r) \/ RefetchFails(r)
        PROVE  Atomic!Next
    BY <1>3, AnswerRefines DEF LoadListingFails, BeginFails, RefetchFails, dbVars, Atomic!Next
  <1>4. ASSUME NEW r \in Requests,
               Begin(r) \/ CountOverlapping(r) \/ CountOverlappingWaits(r)
               \/ CreateInTx(r) \/ InsertBlock(r) \/ StatementFails(r)
               \/ DeadlockVictim(r) \/ LockWaitTimeout(r) \/ PublishCreated(r)
               \/ Crash(r)
        PROVE  UNCHANGED Atomic!vars
    BY <1>4 DEF Begin, CountOverlapping, CountOverlappingWaits, CreateInTx,
                InsertBlock, StatementFails, DeadlockVictim, LockWaitTimeout,
                PublishCreated, Crash, Goto, dbVars, Atomic!vars
  <1>5. ASSUME NEW r \in Requests, Commit(r) PROVE Atomic!Next
    BY <1>5, CommitRefines DEF Commit, Goto, Atomic!Next
  <1>6. ASSUME NEW r \in Requests, CommitFails(r) PROVE Atomic!Next
    <2>1. CASE CommitTx(r)
      BY <1>6, <2>1, CommitRefines DEF CommitFails, Answer, Atomic!Next
    <2>2. CASE UNCHANGED dbVars
      BY <1>6, <2>2, AnswerRefines DEF CommitFails, dbVars, Atomic!Next
    <2> QED
      BY <1>6, <2>1, <2>2 DEF CommitFails
  <1>7. ASSUME NEW r \in Requests, Rollback(r) PROVE Atomic!Next \/ UNCHANGED Atomic!vars
    <2>1. req[r].start <= req[r].end /\ ~Committed(r)
      BY <1>0, <1>7 DEF Rollback, SafeInv, ValidDates
    <2> QED
      BY <1>7, <2>1, AnswerRefines
      DEF Rollback, AfterError, Goto, dbVars, AnswerInv, ConflictSeen,
          Atomic!Next, Atomic!vars
  <1>8. ASSUME NEW r \in Requests, Refetch(r) PROVE Atomic!Next \/ UNCHANGED Atomic!vars
    BY <1>8, AnswerRefines DEF Refetch, Goto, dbVars, Atomic!Next, Atomic!vars
  <1>9. ASSUME NEW r \in Requests, Respond(r) PROVE Atomic!Next
    <2>1. <<r, attempt[r]>> \in bookings /\ <<r, attempt[r]>>[1] = r
      BY <1>9 DEF Respond, AnswerInv, RowIsThere, BookingId
    <2>2. Committed(r)
      BY <2>1 DEF Committed
    <2> QED
      BY <1>9, <2>2, AnswerRefines DEF Respond, dbVars, Atomic!Next
  <1>10. CASE Replicate
    BY <1>10 DEF Replicate, dbVars, Atomic!vars
  <1>11. CASE UNCHANGED vars
    BY <1>11 DEF vars, Atomic!vars
  <1> QED
    BY <1>1, <1>2, <1>3, <1>4, <1>5, <1>6, <1>7, <1>8, <1>9, <1>10, <1>11
       DEF Next, Progress, Fault, Terminated

\* The booking transaction, with its locks, retries, faults and replica,
\* implements the one-step booking of AtomicBooking.
THEOREM Refinement == Spec => ImplementsAtomicBooking
  BY Invariance, RefineInit, RefineStep, PTL
     DEF Spec, ImplementsAtomicBooking, Atomic!Spec

============================================================================
