----------------------------- MODULE APIServer -----------------------------
(***************************************************************************)
(* The API processes (cmd/api/main.go, internal/app/server.go) from boot   *)
(* to exit, and the gate every request of /api/v1 passes                   *)
(* (internal/app/routes.go): the rate limiter and the check of the access  *)
(* token.                                                                  *)
(*                                                                         *)
(* All clients share one address, the one the limiters count.  Requests    *)
(* are what the module that extends this one adds: at[c] is the process    *)
(* that serves the open request of client c.  Timers count the time that   *)
(* is left, and Tick of the extending module runs them down.               *)
(***************************************************************************)
EXTENDS Integers

CONSTANTS
    Procs,            \* replicas of the API
    Clients,          \* clients that send requests
    APILimit,         \* 300 requests per window
    AuthLimit,        \* 20 requests per window
    Window,           \* window of the limiters, one minute
    ShutdownTimeout,  \* HTTP_SHUTDOWN_TIMEOUT
    TokenTTL,         \* JWT_ACCESS_TTL
    Faults,           \* which of FaultKinds may happen
    NoProc

\* A dependency or port that is missing at boot, a killed process, an error
\* of Redis, of a query, and a response that is lost on the way.
FaultKinds == {"boot", "crash", "redis", "query", "network"}

ASSUME APIServerAssumption ==
    /\ APILimit \in Nat /\ AuthLimit \in 0 .. APILimit
    /\ Window \in Nat \ {0}
    /\ ShutdownTimeout \in Nat \ {0}
    /\ TokenTTL \in Nat \ {0}
    /\ Faults \subseteq FaultKinds
    /\ NoProc \notin Procs

VARIABLES
    phase,   \* where main of each process is
    redis,   \* processes that found Redis at boot
    drain,   \* time left of the context of server.Shutdown
    late,    \* Shutdown gave up waiting
    rpc,     \* processes that serve a gRPC call
    upgraded,  \* processes with a WebSocket request that has yet to read its snapshot
    at,      \* the process that serves the open request of a client
    count,   \* the Redis counter of the address in this window
    windowLeft,
    token    \* time left of the access token of a client

server == <<phase, redis, drain, late, rpc, upgraded>>
gate == <<count, windowLeft, token>>

Phases == {"down", "serving", "stopping", "draining", "closing", "closed"}

\* Bound of the counter: from here on both limits refuse.
MaxCount == APILimit

ServerTypeOK ==
    /\ phase \in [Procs -> Phases]
    /\ redis \subseteq Procs
    /\ drain \in [Procs -> 0 .. ShutdownTimeout]
    /\ late \in [Procs -> BOOLEAN]
    /\ rpc \subseteq Procs /\ upgraded \subseteq Procs
    /\ at \in [Clients -> Procs \cup {NoProc}]
    /\ count \in 0 .. MaxCount
    /\ windowLeft \in 1 .. Window
    /\ token \in [Clients -> 0 .. TokenTTL]

ServerInit ==
    /\ phase = [a \in Procs |-> "down"]
    /\ redis = {}
    /\ drain = [a \in Procs |-> 0]
    /\ late = [a \in Procs |-> FALSE]
    /\ rpc = {} /\ upgraded = {}
    /\ at = [c \in Clients |-> NoProc]
    /\ count = 0
    /\ windowLeft = Window
    /\ token = [c \in Clients |-> 0]

----------------------------------------------------------------------------
(***************************************************************************)
(* main.                                                                   *)
(***************************************************************************)

\* The HTTP listener is open until Shutdown is called, the gRPC listener
\* until GracefulStop is.
Accepting(a) == phase[a] \in {"serving", "stopping"}

\* What Shutdown waits for: the open requests but for the upgraded ones, whose
\* connections net/http no longer knows.
InFlight(a) == {c \in Clients : at[c] = a}

MySQLOpen(a) == phase[a] \notin {"down", "closed"}

\* Boot, or restart by the kubelet: MySQL is there, and Redis or not.  (What else
\* main can do without changes nothing here.)  A boot that fails leaves the
\* process down.
Boot(a) ==
    /\ phase[a] = "down"
    /\ phase' = [phase EXCEPT ![a] = "serving"]
    /\ \/ redis' = redis \cup {a}
       \/ "boot" \in Faults /\ UNCHANGED redis
    /\ UNCHANGED <<drain, late, rpc, upgraded, at, gate>>

\* GetUserContact arrives, or a stream of the health or the reflection service.
CallArrives(a) ==
    /\ phase[a] = "serving" /\ a \notin rpc
    /\ rpc' = rpc \cup {a}
    /\ UNCHANGED <<phase, redis, drain, late, upgraded, at, gate>>

\* It ends: no deadline makes it, and a stream lasts until its client leaves.
CallEnds(a) ==
    /\ a \in rpc
    /\ rpc' = rpc \ {a}
    /\ UNCHANGED <<phase, redis, drain, late, upgraded, at, gate>>

\* WebSocketHandler.ListingAvailability, which no limiter and no token guards:
\* Upgrade hijacks the connection ...
Upgrade(a) ==
    /\ Accepting(a) /\ a \notin upgraded
    /\ upgraded' = upgraded \cup {a}
    /\ UNCHANGED <<phase, redis, drain, late, rpc, at, gate>>

\* ... then the snapshot is read from MySQL, or not and the error is dropped (Hub
\* has the rest).
Snapshot(a) ==
    /\ a \in upgraded
    /\ upgraded' = upgraded \ {a}
    /\ UNCHANGED <<phase, redis, drain, late, rpc, at, gate>>

\* SIGTERM: main leaves <-stop and calls GracefulStop.
Signal(a) ==
    /\ phase[a] = "serving"
    /\ phase' = [phase EXCEPT ![a] = "stopping"]
    /\ UNCHANGED <<redis, drain, late, rpc, upgraded, at, gate>>

\* GracefulStop returns when no call is open; Shutdown closes the listener
\* and waits for the requests in flight, as long as its context allows.
GracefulStopReturns(a) ==
    /\ phase[a] = "stopping"
    /\ a \notin rpc
    /\ phase' = [phase EXCEPT ![a] = "draining"]
    /\ drain' = [drain EXCEPT ![a] = ShutdownTimeout]
    /\ UNCHANGED <<redis, late, rpc, upgraded, at, gate>>

\* Mutant: the server is closed and nothing waited for.
ShutdownReturnsAtOnce(a) ==
    /\ phase[a] = "draining"
    /\ phase' = [phase EXCEPT ![a] = "closing"]
    /\ drain' = [drain EXCEPT ![a] = 0]
    /\ UNCHANGED <<redis, late, rpc, upgraded, at, gate>>

ShutdownReturns(a) ==
    /\ phase[a] = "draining"
    /\ InFlight(a) = {}
    /\ phase' = [phase EXCEPT ![a] = "closing"]
    /\ drain' = [drain EXCEPT ![a] = 0]
    /\ UNCHANGED <<redis, late, rpc, upgraded, at, gate>>

\* Mutant: Shutdown is given a context without a deadline.
ShutdownTimesOutNever(a) ==
    /\ phase[a] = "draining" /\ drain[a] = 0 /\ InFlight(a) = {}
    /\ phase' = [phase EXCEPT ![a] = "closing"]
    /\ late' = [late EXCEPT ![a] = TRUE]
    /\ UNCHANGED <<redis, drain, rpc, upgraded, at, gate>>

\* The context is done first: the error is logged, the requests run on.
ShutdownTimesOut(a) ==
    /\ phase[a] = "draining" /\ drain[a] = 0
    /\ phase' = [phase EXCEPT ![a] = "closing"]
    /\ late' = [late EXCEPT ![a] = TRUE]
    /\ UNCHANGED <<redis, drain, rpc, upgraded, at, gate>>

\* The search client and the deferred closes, in the order of their LIFO: the
\* notification client, RabbitMQ and Kafka, then MySQL.
CloseMySQL(a) ==
    /\ phase[a] = "closing"
    /\ phase' = [phase EXCEPT ![a] = "closed"]
    /\ UNCHANGED <<redis, drain, late, rpc, upgraded, at, gate>>

\* The process is gone and with it every request it serves.
Gone(a) ==
    /\ phase' = [phase EXCEPT ![a] = "down"]
    /\ redis' = redis \ {a}
    /\ drain' = [drain EXCEPT ![a] = 0]
    /\ late' = [late EXCEPT ![a] = FALSE]
    /\ rpc' = rpc \ {a}
    /\ upgraded' = upgraded \ {a}
    /\ at' = [c \in Clients |-> IF at[c] = a THEN NoProc ELSE at[c]]
    /\ UNCHANGED gate

MainReturns(a) == phase[a] = "closed" /\ Gone(a)

\* log.Fatalf of a server goroutine, or the process is killed.
Crash(a) == "crash" \in Faults /\ phase[a] # "down" /\ Gone(a)

Main(a) ==
    \/ GracefulStopReturns(a) \/ ShutdownReturns(a) \/ ShutdownTimesOut(a)
    \/ CloseMySQL(a) \/ MainReturns(a)

----------------------------------------------------------------------------
(***************************************************************************)
(* The gate.                                                               *)
(***************************************************************************)

\* INCR of the key of the address and window; both limiters use this key.
Incr == count' = IF count < MaxCount THEN count + 1 ELSE count

\* RateLimiter.Allow on a process that found Redis.  An error, before or after
\* the INCR was executed, lets the request through.
Allow(max) ==
    \/ Incr /\ count < max
    \/ "redis" \in Faults /\ (Incr \/ UNCHANGED count)
Refuse(max) == Incr /\ count >= max

\* The limiter process a was built with; without Redis it is httprate, which
\* counts in the process (external: what it decides is left open).
Admits(a, max) == IF a \in redis THEN Allow(max) ELSE UNCHANGED count
Rejects(a, max) == IF a \in redis THEN Refuse(max) ELSE UNCHANGED count

\* JWTIssuer.Verify: the token has not expired.
Verifies(c) == token[c] > 0

\* POST /auth/login with the right password (Accounts has the others), once
\* the token has expired: IssueAccessToken.
Login(c, a) ==
    /\ at[c] = NoProc /\ ~Verifies(c)
    /\ Accepting(a)
    /\ Admits(a, AuthLimit)
    /\ token' = [token EXCEPT ![c] = TokenTTL]
    /\ UNCHANGED <<server, at, windowLeft>>

LoginRejected(c, a) ==
    /\ at[c] = NoProc /\ ~Verifies(c)
    /\ Accepting(a)
    /\ Rejects(a, AuthLimit)
    /\ UNCHANGED <<server, at, windowLeft, token>>

\* Mutant: the key has no window number and lives on.
TickWindowForever == UNCHANGED <<count, windowLeft>>

\* The window number is part of the key: a new window counts from zero.
TickWindow ==
    IF windowLeft = 1
      THEN windowLeft' = Window /\ count' = 0
      ELSE windowLeft' = windowLeft - 1 /\ UNCHANGED count

Less(n) == IF n = 0 THEN 0 ELSE n - 1

\* Time passes for every timer of this module.
TickServer ==
    /\ TickWindow
    /\ token' = [c \in Clients |-> Less(token[c])]
    /\ drain' = [a \in Procs |-> Less(drain[a])]
    /\ UNCHANGED <<phase, redis, late, rpc, upgraded, at>>

----------------------------------------------------------------------------

\* After SIGTERM a process whose gRPC calls end ends too, although long polls and
\* streams last longer than the ShutdownTimeout and WebSockets stay open.  (One
\* gRPC call or stream that does not end keeps it from ending: GracefulStop, which
\* comes before the bounded drain, has no deadline.)
ShutdownEndsAfterCalls ==
    \A a \in Procs :
        (phase[a] = "stopping" ~> a \notin rpc)
            => (phase[a] = "stopping" ~> phase[a] = "down")

============================================================================
