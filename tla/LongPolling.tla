---------------------------- MODULE LongPolling ----------------------------
(***************************************************************************)
(* Long polling for one booking (internal/realtime/polling.go) and the     *)
(* browser's loop around it (web/js/polling.js), on the API processes and  *)
(* behind the gate of APIServer.                                           *)
(*                                                                         *)
(* The cursor since is the server's time of the last answer, in            *)
(* milliseconds; bookings.updated_at has whole seconds; the row is read    *)
(* from a replica; an answer later than the server's WriteTimeout never    *)
(* leaves the process, which is what happens to every changed = false.     *)
(* One tick is half a second.  The clocks of MySQL and the API agree.      *)
(***************************************************************************)
EXTENDS APIServer, Sequences

CONSTANTS
    HasReplica,
    WriteTimeout,  \* HTTP_WRITE_TIMEOUT, 10 seconds
    PollTimeout,   \* PollingHandler.timeout, 25 seconds
    MaxWrites,     \* bound: changes of the booking
    MaxClock       \* bound: from here on all seconds look alike

ASSUME LongPollingAssumption ==
    /\ HasReplica \in BOOLEAN
    /\ WriteTimeout \in Nat /\ PollTimeout \in Nat /\ WriteTimeout <= PollTimeout
    /\ WriteTimeout <= ShutdownTimeout
    /\ MaxWrites \in Nat /\ MaxClock \in Nat \ {0, 1}

VARIABLES
    clock,
    stamps,   \* updated_at of each version of the row, oldest first
    applied,  \* how many versions the replica has
    poll,     \* where the handler of the open request is
    age,      \* time since the request was read
    got,      \* the version the handler read
    since,    \* the cursor of the client
    seen,     \* the version it was shown last
    told      \* when the last answer reached it

row == <<stamps, applied>>
handler == <<poll, age, got>>
client == <<since, seen, told>>
vars == <<server, at, gate, clock, row, handler, client>>

\* TIMESTAMP without fractional digits: the second of a time.
Second(t) == t - (t % 2)

\* The handler of a poll is running.
Polling == {"check", "wait", "answer"}

ReaderVersion == IF HasReplica THEN applied ELSE Len(stamps)

TypeOK ==
    /\ ServerTypeOK
    /\ clock \in 0 .. MaxClock
    /\ stamps \in Seq(0 .. MaxClock) /\ Len(stamps) >= 1
    /\ applied \in 0 .. Len(stamps)
    /\ poll \in [Clients -> {"idle", "stream", "check", "wait", "answer"}]
    /\ age \in [Clients -> 0 .. PollTimeout]
    /\ got \in [Clients -> 0 .. Len(stamps)]
    /\ since \in [Clients -> 0 .. MaxClock]
    /\ seen \in [Clients -> 0 .. Len(stamps)]
    /\ told \in [Clients -> 0 .. MaxClock]

\* The booking was made in second 2, before the clients poll; since starts
\* as 0, which is before it.
Init ==
    /\ ServerInit
    /\ clock = 2
    /\ stamps = <<2>> /\ applied = 0
    /\ poll = [c \in Clients |-> "idle"]
    /\ age = [c \in Clients |-> 0]
    /\ got = [c \in Clients |-> 0]
    /\ since = [c \in Clients |-> 0]
    /\ seen = [c \in Clients |-> 0]
    /\ told = [c \in Clients |-> 0]

----------------------------------------------------------------------------
(***************************************************************************)
(* The row, and the time.                                                  *)
(***************************************************************************)

\* UPDATE bookings (BookingLifecycle): ON UPDATE CURRENT_TIMESTAMP.
Write ==
    /\ Len(stamps) <= MaxWrites
    /\ stamps' = Append(stamps, Second(clock))
    /\ UNCHANGED <<server, at, gate, clock, applied, handler, client>>

Replicate ==
    /\ applied < Len(stamps)
    /\ applied' = applied + 1
    /\ UNCHANGED <<server, at, gate, clock, stamps, handler, client>>

Tick ==
    /\ TickServer
    /\ clock' = IF clock < MaxClock THEN clock + 1 ELSE clock
    /\ age' = [c \in Clients |-> IF poll[c] \in Polling /\ age[c] < PollTimeout
                                   THEN age[c] + 1 ELSE age[c]]
    /\ UNCHANGED <<row, poll, got, client>>

----------------------------------------------------------------------------
(***************************************************************************)
(* The request: tick() of polling.js, the gate, and Poll.                  *)
(***************************************************************************)

\* The limiter lets the request through and the token is valid.
Send(c, a) ==
    /\ poll[c] = "idle"
    /\ Accepting(a)
    /\ Admits(a, APILimit)
    /\ Verifies(c)
    /\ at' = [at EXCEPT ![c] = a]
    /\ poll' = [poll EXCEPT ![c] = "check"]
    /\ UNCHANGED <<server, windowLeft, token, clock, row, age, got, client>>

\* 429, or 401 from RequireJWT: the client tries again later.
SendRefused(c, a) ==
    /\ poll[c] = "idle"
    /\ Accepting(a)
    /\ \/ Rejects(a, APILimit)
       \/ Admits(a, APILimit) /\ ~Verifies(c)
    /\ UNCHANGED <<server, at, windowLeft, token, clock, row, handler, client>>

\* The handler returns.
Return(c) ==
    /\ at' = [at EXCEPT ![c] = NoProc]
    /\ poll' = [poll EXCEPT ![c] = "idle"]
    /\ age' = [age EXCEPT ![c] = 0]
    /\ got' = [got EXCEPT ![c] = 0]

\* Mutant: not only later changes count as new.
IsNewOrEqual(c, v) == stamps[v] >= Second(since[c])

\* b.UpdatedAt.UnixMilli() > since
IsNew(c, v) == stamps[v] > since[c]

\* GetByID finds the booking: answer, or wait.
PollRead(c) ==
    /\ poll[c] = "check"
    /\ MySQLOpen(at[c]) /\ age[c] < PollTimeout
    /\ ReaderVersion # 0
    /\ got' = [got EXCEPT ![c] = ReaderVersion]
    /\ poll' = [poll EXCEPT ![c] = IF IsNew(c, ReaderVersion) THEN "answer" ELSE "wait"]
    /\ UNCHANGED <<server, at, gate, clock, row, age, client>>

\* 404: not on the replica yet.  500: a failed query, MySQL closed, or the
\* context done.  res.ok is false, and the client keeps its cursor.
PollFails(c) ==
    /\ poll[c] = "check"
    /\ \/ ReaderVersion = 0
       \/ "query" \in Faults
       \/ ~MySQLOpen(at[c])
       \/ age[c] = PollTimeout
    /\ Return(c)
    /\ UNCHANGED <<server, gate, clock, row, client>>

\* The ticker.
PollAgain(c) ==
    /\ poll[c] = "wait"
    /\ poll' = [poll EXCEPT ![c] = "check"]
    /\ UNCHANGED <<server, at, gate, clock, row, age, got, client>>

\* The answer reaches the client, with the version shown, if any.
Delivered(c, shown) ==
    /\ age[c] < WriteTimeout
    /\ since' = [since EXCEPT ![c] = clock]
    /\ told' = [told EXCEPT ![c] = clock]
    /\ seen' = [seen EXCEPT ![c] = shown]

\* It does not: fetch throws.
Lost(c) ==
    /\ age[c] >= WriteTimeout \/ "network" \in Faults
    /\ UNCHANGED client

\* Mutant: the client moves its cursor before it has the answer.
PollChangedEarly(c) ==
    /\ poll[c] = "answer"
    /\ \/ Delivered(c, got[c])
       \/ /\ age[c] >= WriteTimeout \/ "network" \in Faults
          /\ since' = [since EXCEPT ![c] = clock]
          /\ UNCHANGED <<seen, told>>
    /\ Return(c)
    /\ UNCHANGED <<server, gate, clock, row>>

\* changed = true, the booking, and time.Now().
PollChanged(c) ==
    /\ poll[c] = "answer"
    /\ Delivered(c, got[c]) \/ Lost(c)
    /\ Return(c)
    /\ UNCHANGED <<server, gate, clock, row>>

\* ctx.Done(): changed = false and time.Now().
PollTimesOut(c) ==
    /\ poll[c] = "wait" /\ age[c] = PollTimeout
    /\ Delivered(c, seen[c]) \/ Lost(c)
    /\ Return(c)
    /\ UNCHANGED <<server, gate, clock, row>>

\* SSEHandler.BookingEvents, which the client tries first (Hub has the rest):
\* not limited, and open until the client leaves or a write fails.
OpenStream(c, a) ==
    /\ poll[c] = "idle"
    /\ Accepting(a) /\ Verifies(c)
    /\ at' = [at EXCEPT ![c] = a]
    /\ poll' = [poll EXCEPT ![c] = "stream"]
    /\ UNCHANGED <<server, gate, clock, row, age, got, client>>

StreamEnds(c) ==
    /\ poll[c] = "stream"
    /\ Return(c)
    /\ UNCHANGED <<server, gate, clock, row, client>>

----------------------------------------------------------------------------

\* A step of a process; the clients whose request it takes along get an error.
ProcStep(a) ==
    /\ \/ Main(a) \/ Boot(a) \/ Signal(a) \/ Crash(a)
       \/ CallArrives(a) \/ CallEnds(a) \/ Upgrade(a) \/ Snapshot(a)
    /\ LET cut == {c \in Clients : at[c] # at'[c]} IN
         /\ poll' = [c \in Clients |-> IF c \in cut THEN "idle" ELSE poll[c]]
         /\ age' = [c \in Clients |-> IF c \in cut THEN 0 ELSE age[c]]
         /\ got' = [c \in Clients |-> IF c \in cut THEN 0 ELSE got[c]]
    /\ UNCHANGED <<clock, row, client>>

SignIn(c, a) ==
    /\ Login(c, a) \/ LoginRejected(c, a)
    /\ UNCHANGED <<clock, row, handler, client>>

Handle(c) == PollRead(c) \/ PollFails(c) \/ PollAgain(c) \/ PollChanged(c) \/ PollTimesOut(c)
Request(c, a) == Send(c, a) \/ SendRefused(c, a) \/ SignIn(c, a) \/ OpenStream(c, a)

Next ==
    \/ Write \/ Replicate \/ Tick
    \/ \E a \in Procs : ProcStep(a)
    \/ \E c \in Clients : Handle(c) \/ StreamEnds(c) \/ \E a \in Procs : Request(c, a)

Spec == Init /\ [][Next]_vars

\* The limiter of process a has not counted up to its limit.
Within(a, max) == a \in redis => count < max

\* Time passes, the replica follows, goroutines that can run do, the kubelet
\* starts a process that is down; no gRPC call need end.  The environment is not hostile for ever: a
\* client that goes on polling is now and then let through while it is within
\* the limit, finds MySQL, and gets an answer that is written in time.
Fairness ==
    /\ WF_vars(Tick) /\ WF_vars(Replicate)
    /\ \A a \in Procs : WF_vars(ProcStep(a) /\ (Main(a) \/ Boot(a)))
    /\ \A c \in Clients :
         /\ WF_vars(Handle(c))
         /\ SF_vars(\E a \in Procs : Within(a, AuthLimit) /\ SignIn(c, a) /\ token' # token)
         /\ SF_vars(\E a \in Procs : Within(a, APILimit) /\ Send(c, a))
         /\ SF_vars(PollRead(c) /\ age[c] < WriteTimeout)
         /\ SF_vars(PollChanged(c) /\ Delivered(c, got[c]))

FairSpec == Spec /\ Fairness

----------------------------------------------------------------------------
(***************************************************************************)
(* Properties.                                                             *)
(***************************************************************************)

\* Every report is news: Poll never answers with a version the client was
\* shown before, or an older one, whatever the replica, restarts and lost
\* answers do to the cursor.
EachReportIsNews == \A c \in Clients : poll[c] = "answer" => got[c] > seen[c]

\* Poll overlooks a change it has read only if the change was made no later
\* than in the second of the answer the client got last.  (Such a change is
\* overlooked: updated_at has no fraction and the cursor has.)
OverlooksNothingLater ==
    \A c \in Clients :
        poll[c] = "wait" /\ got[c] > seen[c] => stamps[got[c]] <= Second(told[c])

\* A shutdown costs no client its answer: MySQL and the other clients are closed
\* only under polls whose answer WriteTimeout would no longer let through, also
\* under those that were accepted while GracefulStop waited.
ShutdownCostsNoAnswer ==
    \A c \in Clients :
        poll[c] \in Polling /\ phase[at[c]] \in {"closing", "closed"}
            => age[c] >= WriteTimeout

\* The last change reaches every client that polls, but for one that is
\* overlooked as above, although answers are lost after WriteTimeout, limits
\* are exceeded, tokens expire and processes are restarted.
ChangeIsReported ==
    \A c \in Clients :
        <>[](\/ seen[c] = Len(stamps)
             \/ stamps[Len(stamps)] <= Second(told[c])
             \/ poll[c] = "stream")

============================================================================
